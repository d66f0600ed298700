------------------------------ MODULE MCDevice ------------------------------
(* Device configurations for TLC.  Two devices, d1 and d2, each with a     *)
(* sysfs path, a device node and one device link; three unit objects.      *)
EXTENDS Device

CONSTANTS d1, d2, u1, u2, u3, s1, s2, n1, n2, l1, l2

MCDevices == {d1, d2}
MCDeviceOrder == <<d1, d2>>
MCPaths == {s1, s2, n1, n2, l1, l2}
MCSyspath == (d1 :> s1) @@ (d2 :> s2)
MCDevnode == (d1 :> n1) @@ (d2 :> n2)
MCUnits == {u1, u2, u3}

(* Every device has its own link; d1 carries a SYSTEMD_ALIAS that is not a *)
(* path.  No unit exists before enumeration.                               *)
DistinctDevlinks == (d1 :> <<l1>>) @@ (d2 :> <<l2>>)
DistinctAlias == (d1 :> NotAPath) @@ (d2 :> NoPath)
NoPreload == [u \in {} |-> s1]

(* Both devices carry the link l1 (a by-label or by-uuid link that moves   *)
(* from one device to the other), and d2's alias is the path l2.           *)
SharedDevlinks == (d1 :> <<l1>>) @@ (d2 :> <<l1>>)
SharedAlias == (d1 :> NoPath) @@ (d2 :> l2)

(* A mount unit referenced the node n1 by name, so the unit for n1 exists  *)
(* before the device is seen.                                              *)
NodePreload == (u1 :> n1)
=============================================================================
