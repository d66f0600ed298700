---------------------------- MODULE MCCondition -----------------------------
(* One condition path, one command line key with one value, one hypervisor *)
(* id.  Every host those probes can report and every condition list of up  *)
(* to MaxConditions entries built from the conditions below.               *)
EXTENDS Condition

CONSTANTS p1, k1, v1, kvm

MCCondPaths == {p1}
MCKeys == {k1}
MCValues == {v1}
MCHypervisors == {kvm}

(* detect_virtualization: an error, none found (id left untouched), or a  *)
(* hypervisor found and its id stored.                                    *)
VirtOutcomes ==
    {[virt |-> -1, virtId |-> Unset], [virt |-> 0, virtId |-> Unset],
     [virt |-> 1, virtId |-> kvm]}

MCHosts ==
    {[path |-> pa, cmdline |-> cl, virt |-> vo.virt, virtId |-> vo.virtId,
      selinux |-> se] :
        pa \in [MCCondPaths -> PathStatus],
        cl \in SUBSET [key : MCKeys, val : MCValues \cup {NoValue}] \cup {Unreadable},
        vo \in VirtOutcomes,
        se \in BOOLEAN}

(* The parameters each condition type takes. *)
Parameters(type) ==
    CASE type \in {"PathExists", "PathIsDirectory", "DirectoryNotEmpty"} -> MCCondPaths
      [] type = "KernelCommandLine" -> [key : MCKeys, val : MCValues \cup {NoValue}]
      [] type = "Virtualization" -> {"yes", "no", kvm}
      [] type = "Security" -> {"selinux"}
      [] type = "Null" -> {"null"}

ConditionsOf(types) ==
    UNION {{Condition(t, p, tr, ng) : p \in Parameters(t), tr \in BOOLEAN, ng \in BOOLEAN} :
              t \in types}

AllConditions == ConditionsOf(ConditionType)

(* Single conditions of the probing types. *)
ProbeConditions ==
    ConditionsOf({"PathIsDirectory", "DirectoryNotEmpty", "KernelCommandLine", "Virtualization"})
=============================================================================
