------------------------------- MODULE Device -------------------------------
(***************************************************************************)
(* Device units of the service manager (src/device.c).                     *)
(*                                                                         *)
(* The kernel makes udev devices appear and disappear.  At startup the     *)
(* manager enumerates the present devices (device_enumerate) and coldplugs *)
(* the units it found (device_coldplug); afterwards it consumes the udev   *)
(* monitor queue one uevent at a time (device_fd_event).  A uevent is      *)
(* matched to a device unit through the unit names derived from the        *)
(* device's sysfs path, device node, device links and SYSTEMD_ALIAS.       *)
(*                                                                         *)
(* The unit registry (the manager's name -> unit hashmap and each unit's   *)
(* id, sysfs path and DeviceState) is one record, so that the enumeration  *)
(* loop can be written as a fold over the enumerated devices.              *)
(***************************************************************************)
EXTENDS Naturals, Sequences, FiniteSets, SequencesExt

CONSTANTS
    Devices,      \* the udev devices that may exist
    DeviceOrder,  \* Devices as a sequence, in udev's enumeration order
    Paths,        \* sysfs paths, device nodes and device link paths
    Syspath,      \* [Devices -> Paths], injective: udev_device_get_syspath
    Devnode,      \* [Devices -> Paths \cup {NoPath}]: udev_device_get_devnode
    Devlinks,     \* [Devices -> Seq(Paths)]: the devlinks list, in list order
    Alias,        \* [Devices -> Paths \cup {NoPath, NotAPath}]: SYSTEMD_ALIAS
    Units,        \* the unit objects unit_new() can hand out
    Preloaded,    \* [S -> Paths], S \subseteq Units: device units that unit
                  \* files referenced by name before the devices were seen
    NoPath, NotAPath, NoUnit, NoName,
    MaxQueue      \* bound on the uevents queued in the udev monitor

ASSUME
    /\ ToSet(DeviceOrder) = Devices /\ Len(DeviceOrder) = Cardinality(Devices)
    /\ \A d, e \in Devices : d # e => Syspath[d] # Syspath[e]
    /\ DOMAIN Preloaded \subseteq Units
    /\ MaxQueue \in Nat \ {0}

(* unit_name_from_path(path, ".device"): the escaping is injective and     *)
(* reversible, so a device unit name stands for exactly one path.          *)
unit_name_from_path(p) == <<p, ".device">>

Names == { unit_name_from_path(p) : p \in Paths }

DeviceState == {"dead", "available"}

VARIABLES
    reg,      \* the unit registry: units, names, id, sysfs, state
    present,  \* the devices the kernel currently has
    queue,    \* the uevents queued in the udev monitor, oldest first
    phase     \* "boot", "enumerated" (device_enumerate ran), "running"

vars == <<reg, present, queue, phase>>

-----------------------------------------------------------------------------
(* Registry operations.                                                    *)

(* manager_get_unit: alias-aware lookup of a unit by name. *)
manager_get_unit(r, n) == r.names[n]

(* device_set_state: set the DeviceState; unit_notify reports the change. *)
device_set_state(r, u, s) == [r EXCEPT !.state[u] = s]

(* Mutant: unit_choose_id is given the unescaped path, not the unit name. *)
device_add_escaped_name_raw_id(r, u, p, make_id) ==
    LET n == unit_name_from_path(p) IN
    IF r.names[n] \in {NoUnit, u}
    THEN [r EXCEPT !.names[n] = u,
                   !.id[u] = IF make_id THEN p ELSE @]
    ELSE r

(* device_add_escaped_name: unit_add_name of the escaped path; a name that *)
(* another unit owns fails with -EEXIST, which is ignored.  On success,    *)
(* make_id makes the name the unit's id (unit_choose_id).                  *)
device_add_escaped_name(r, u, p, make_id) ==
    LET n == unit_name_from_path(p) IN
    IF r.names[n] \in {NoUnit, u}
    THEN [r EXCEPT !.names[n] = u,
                   !.id[u] = IF make_id THEN n ELSE @]
    ELSE r

(* The paths tried, in order, by the device_find_escape_name calls of      *)
(* device_process_new_device: sysfs path, device node, each device link,   *)
(* alias.  An alias that is not a path has been reset to NULL.             *)
ValidAlias(d) == Alias[d] \in Paths

LookupPaths(d) ==
    <<Syspath[d]>>
    \o (IF Devnode[d] # NoPath THEN <<Devnode[d]>> ELSE <<>>)
    \o Devlinks[d]
    \o (IF ValidAlias(d) THEN <<Alias[d]>> ELSE <<>>)

(* device_find_escape_name, tried on each path until one names a unit. *)
device_find_escape_name(r, d) ==
    LET ps == LookupPaths(d)
        i  == SelectInSeq(ps, LAMBDA p :
                  manager_get_unit(r, unit_name_from_path(p)) # NoUnit)
    IN IF i = 0 THEN NoUnit
       ELSE manager_get_unit(r, unit_name_from_path(ps[i]))

(* Mutant: a unit found by name is dropped whenever it has a sysfs path,   *)
(* even when that path is this device's own.                               *)
device_existing_unit_any_sysfs(r, d) ==
    LET found == device_find_escape_name(r, d) IN
    IF found # NoUnit /\ r.sysfs[found] # NoPath THEN NoUnit ELSE found

(* The unit device_process_new_device reuses: the one found by name,       *)
(* unless it already tracks another sysfs path ("If this is a different    *)
(* unit, then let's not merge things").                                    *)
device_existing_unit(r, d) ==
    LET found == device_find_escape_name(r, d) IN
    IF /\ found # NoUnit
       /\ r.sysfs[found] # NoPath
       /\ r.sysfs[found] # Syspath[d]
    THEN NoUnit ELSE found

(* device_process_new_device for device d; update_state is TRUE for a      *)
(* uevent and FALSE during enumeration.  Without a unit to reuse, a new    *)
(* unit is allocated and named after the sysfs path.  With no unit object  *)
(* left, unit_new fails (-ENOMEM) and the registry is unchanged.  The load *)
(* queue, the description and the SYSTEMD_WANTS dependencies are not      *)
(* modelled: no property depends on them.                                  *)
device_process_new_device(r, d, update_state) ==
    LET u0 == device_existing_unit(r, d)
        free == Units \ r.units
        u  == IF u0 # NoUnit THEN u0 ELSE CHOOSE x \in free : TRUE
        r1 == IF u0 # NoUnit THEN r
              ELSE device_add_escaped_name(
                       [r EXCEPT !.units = @ \cup {u}], u, Syspath[d], TRUE)
        r2 == IF r1.sysfs[u] = NoPath
              THEN [r1 EXCEPT !.sysfs[u] = Syspath[d]] ELSE r1
        r3 == IF ValidAlias(d)
              THEN device_add_escaped_name(r2, u, Alias[d], TRUE) ELSE r2
        r4 == IF Devnode[d] # NoPath
              THEN device_add_escaped_name(r3, u, Devnode[d], TRUE) ELSE r3
        r5 == FoldLeft(LAMBDA acc, p : device_add_escaped_name(acc, u, p, FALSE),
                       r4, Devlinks[d])
    IN IF u0 = NoUnit /\ free = {} THEN r
       ELSE IF update_state THEN device_set_state(r5, u, "available")
       ELSE r5

(* Mutant: the removed device's sysfs path is forgotten but the unit is    *)
(* left in its state.                                                      *)
device_process_removed_device_keep_state(r, d) ==
    LET u == manager_get_unit(r, unit_name_from_path(Syspath[d])) IN
    IF u = NoUnit THEN r ELSE [r EXCEPT !.sysfs[u] = NoPath]

(* device_process_removed_device: look the unit up by the name of the      *)
(* sysfs path only; forget its sysfs path and make it dead.                *)
device_process_removed_device(r, d) ==
    LET u == manager_get_unit(r, unit_name_from_path(Syspath[d])) IN
    IF u = NoUnit THEN r
    ELSE device_set_state([r EXCEPT !.sysfs[u] = NoPath], u, "dead")

-----------------------------------------------------------------------------
(* The manager's handlers.                                                 *)

(* device_enumerate: start listening on the udev monitor, then process     *)
(* every present device, in enumeration order, without changing states.    *)
device_enumerate ==
    /\ phase = "boot"
    /\ reg' = FoldLeft(LAMBDA acc, d : device_process_new_device(acc, d, FALSE),
                       reg, SelectSeq(DeviceOrder, LAMBDA d : d \in present))
    /\ phase' = "enumerated"
    /\ UNCHANGED <<present, queue>>

(* Mutant: coldplug tests the sysfs path the wrong way round. *)
device_coldplug_inverted ==
    /\ phase = "enumerated"
    /\ reg' = [reg EXCEPT !.state = [u \in Units |->
                  IF u \in reg.units /\ reg.sysfs[u] = NoPath
                  THEN "available" ELSE @[u]]]
    /\ phase' = "running"
    /\ UNCHANGED <<present, queue>>

(* device_coldplug of every device unit: a unit that has a sysfs path      *)
(* becomes available.                                                      *)
device_coldplug ==
    /\ phase = "enumerated"
    /\ reg' = [reg EXCEPT !.state = [u \in Units |->
                  IF u \in reg.units /\ reg.sysfs[u] # NoPath
                  THEN "available" ELSE @[u]]]
    /\ phase' = "running"
    /\ UNCHANGED <<present, queue>>

(* device_fd_event: receive one uevent; "remove" is handled by             *)
(* device_process_removed_device, any other action as a new device.        *)
device_fd_event ==
    /\ phase = "running"
    /\ queue # <<>>
    /\ LET ev == Head(queue) IN
       reg' = IF ev.action = "remove"
              THEN device_process_removed_device(reg, ev.dev)
              ELSE device_process_new_device(reg, ev.dev, TRUE)
    /\ queue' = Tail(queue)
    /\ UNCHANGED <<present, phase>>

-----------------------------------------------------------------------------
(* The kernel.  Before device_enumerate creates the monitor, uevents are   *)
(* not queued for the manager.                                             *)

Emit(action, d) ==
    IF phase = "boot" THEN UNCHANGED queue
    ELSE /\ Len(queue) < MaxQueue
         /\ queue' = Append(queue, [action |-> action, dev |-> d])

Plug(d) ==
    /\ d \notin present
    /\ present' = present \cup {d}
    /\ Emit("add", d)
    /\ UNCHANGED <<reg, phase>>

Unplug(d) ==
    /\ d \in present
    /\ present' = present \ {d}
    /\ Emit("remove", d)
    /\ UNCHANGED <<reg, phase>>

Change(d) ==
    /\ d \in present
    /\ phase # "boot"
    /\ Emit("change", d)
    /\ UNCHANGED <<reg, present, phase>>

-----------------------------------------------------------------------------
InitReg ==
    [units |-> DOMAIN Preloaded,
     names |-> [n \in Names |->
                  IF \E u \in DOMAIN Preloaded : unit_name_from_path(Preloaded[u]) = n
                  THEN CHOOSE u \in DOMAIN Preloaded :
                           unit_name_from_path(Preloaded[u]) = n
                  ELSE NoUnit],
     id    |-> [u \in Units |->
                  IF u \in DOMAIN Preloaded
                  THEN unit_name_from_path(Preloaded[u]) ELSE NoName],
     sysfs |-> [u \in Units |-> NoPath],
     state |-> [u \in Units |-> "dead"]]

Init ==
    /\ reg = InitReg
    /\ present \in SUBSET Devices
    /\ queue = <<>>
    /\ phase = "boot"

Next ==
    \/ device_enumerate
    \/ device_coldplug
    \/ device_fd_event
    \/ \E d \in Devices : Plug(d) \/ Unplug(d) \/ Change(d)

Spec == Init /\ [][Next]_vars

-----------------------------------------------------------------------------
TypeOK ==
    /\ reg.units \subseteq Units
    /\ reg.names \in [Names -> Units \cup {NoUnit}]
    /\ reg.id \in [Units -> Names \cup {NoName}]
    /\ reg.sysfs \in [Units -> Paths \cup {NoPath}]
    /\ reg.state \in [Units -> DeviceState]
    /\ present \subseteq Devices
    /\ queue \in Seq([action : {"add", "remove", "change"}, dev : Devices])
    /\ phase \in {"boot", "enumerated", "running"}

Settled == phase = "running" /\ queue = <<>>

(* Once every queued uevent has been handled, a device unit is available   *)
(* only if the device it tracks is present: a "remove" uevent must reach   *)
(* the unit that device_process_new_device attached the device to.         *)
AvailableIsPresent ==
    Settled =>
        \A u \in reg.units :
            reg.state[u] = "available" =>
                \E d \in present : Syspath[d] = reg.sysfs[u]

(* Once every queued uevent has been handled, every present device is      *)
(* tracked by an available unit: no later uevent of another device may     *)
(* take the unit away from it.                                             *)
PresentIsAvailable ==
    Settled =>
        \A d \in present :
            \E u \in reg.units :
                reg.sysfs[u] = Syspath[d] /\ reg.state[u] = "available"

(* No two units track the same sysfs device: device_process_new_device     *)
(* must find the unit that already has the device before allocating one.   *)
UniqueSysfs ==
    \A u, v \in reg.units :
        (u # v /\ reg.sysfs[u] # NoPath) => reg.sysfs[u] # reg.sysfs[v]


(* Device units mirror the devices (spec, manager loop): once the uevent queue is    *)
(* drained, exactly the present devices are tracked by available units,    *)
(* one unit each.  Nodes preloaded by name and devlinks shared between     *)
(* devices both feed device_process_new_device and                         *)
(* device_process_removed_device.                                          *)
DeviceUnitsMirrorDevices ==
    AvailableIsPresent /\ PresentIsAvailable /\ UniqueSysfs

=============================================================================
