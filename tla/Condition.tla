------------------------------ MODULE Condition -----------------------------
(***************************************************************************)
(* The condition evaluator gating unit activation (src/condition.c).       *)
(*                                                                         *)
(* A unit's condition list is tested (condition_test_list) every time the  *)
(* unit is started, against the host as it is at that moment.  The host is *)
(* abstracted to what the tests probe: the status of each condition path,  *)
(* the words of /proc/cmdline, the result of detect_virtualization and     *)
(* whether SELinux is enabled.  The module checks the code's evaluation    *)
(* against the definitions of spec section 4.2.                            *)
(***************************************************************************)
EXTENDS Integers, Sequences, FiniteSets, SequencesExt

CONSTANTS
    CondPaths,     \* paths named by ConditionPath*= / ConditionDirectory*=
    Keys, Values,  \* kernel command line keys and values
    Hypervisors,   \* virtualization ids detect_virtualization can report
    HaveSelinux,   \* the build defines HAVE_SELINUX
    Conditions,    \* the conditions a unit file may carry
    Hosts,         \* the host states the probes may observe
    MaxConditions, \* bound on the length of a condition list
    NoValue, Unreadable, Unset,
    Undefined      \* the value of a comparison against an uninitialized pointer

(* A kernel command line word KEY or KEY=VALUE (NoValue for a bare KEY). *)
Words == [key : Keys, val : Values \cup {NoValue}]

PathStatus == {"missing", "file", "emptydir", "fulldir"}

ConditionType ==
    {"PathExists", "PathIsDirectory", "DirectoryNotEmpty",
     "KernelCommandLine", "Virtualization", "Security", "Null"}

(* condition_new: a condition record. *)
Condition(type, parameter, trigger, negate) ==
    [type |-> type, parameter |-> parameter, trigger |-> trigger, negate |-> negate]

HostType ==
    [path    : [CondPaths -> PathStatus],
     cmdline : (SUBSET Words) \cup {Unreadable},
     virt    : {-1, 0, 1},                 \* detect_virtualization() result
     virtId  : Hypervisors \cup {Unset},   \* what it stored in *id
     selinux : BOOLEAN]

ASSUME
    /\ Hosts \subseteq HostType
    /\ \A h \in Hosts : h.virt > 0 <=> h.virtId # Unset
    /\ MaxConditions \in Nat

VARIABLES
    host,   \* the host state the next test observes
    conds,  \* the unit's condition list, in file order
    tested, \* a start has tested the list since the host last changed
    result  \* the value condition_test_list returned then

vars == <<host, conds, tested, result>>

-----------------------------------------------------------------------------
(* The probes, as the code uses them.                                       *)

(* access(path, F_OK) >= 0 *)
PathAccessible(h, p) == h.path[p] # "missing"

(* lstat(path) succeeds and S_ISDIR *)
LstatOk(h, p) == h.path[p] # "missing"
IsDir(h, p) == h.path[p] \in {"emptydir", "fulldir"}

(* dir_is_empty(path): -ENOENT if missing, -ENOTDIR if not a directory,    *)
(* 1 if empty, 0 otherwise.                                                *)
ENOENT == 2
ENOTDIR == 20

dir_is_empty(h, p) ==
    CASE h.path[p] = "missing"  -> -ENOENT
      [] h.path[p] = "file"     -> -ENOTDIR
      [] h.path[p] = "emptydir" -> 1
      [] h.path[p] = "fulldir"  -> 0

(* parse_boolean(parameter): 1, 0 or negative. *)
parse_boolean(s) == CASE s = "yes" -> 1 [] s = "no" -> 0 [] OTHER -> -1

(* test_kernel_command_line: FALSE under virtualization or if /proc/cmdline *)
(* cannot be read; a parameter with '=' must equal a word, a bare KEY      *)
(* matches a word KEY or KEY=anything.                                     *)
test_kernel_command_line(h, param) ==
    /\ ~(h.virt > 0)
    /\ h.cmdline # Unreadable
    /\ \E w \in h.cmdline :
          IF param.val # NoValue THEN w = param ELSE w.key = param.key

(* test_virtualization: on an error FALSE; "yes"/"no" against whether a    *)
(* hypervisor was found; otherwise streq(parameter, id).  The local id is  *)
(* uninitialized unless detect_virtualization found something; comparing   *)
(* against it is recorded as Undefined.                                  *)
test_virtualization(h, param) ==
    LET b == parse_boolean(param) IN
    IF h.virt < 0 THEN FALSE
    ELSE IF h.virt > 0 /\ b > 0 THEN TRUE
    ELSE IF h.virt = 0 /\ b = 0 THEN TRUE
    ELSE IF h.virtId = Unset THEN Undefined
    ELSE param = h.virtId

(* test_security *)
test_security(h, param) == HaveSelinux /\ param = "selinux" /\ h.selinux

(* XOR of a probe's result with negate; Undefined stays undefined. *)
Negated(b, c) == IF b = Undefined THEN b ELSE b = ~c.negate

(* condition_test *)
condition_test(c, h) ==
    CASE c.type = "PathExists" -> PathAccessible(h, c.parameter) = ~c.negate
      [] c.type = "PathIsDirectory" ->
             IF ~LstatOk(h, c.parameter) THEN ~c.negate
             ELSE IsDir(h, c.parameter) = ~c.negate
      [] c.type = "DirectoryNotEmpty" ->
             LET k == dir_is_empty(h, c.parameter) IN
             (~(k = -ENOENT \/ k > 0)) = ~c.negate
      [] c.type = "KernelCommandLine" ->
             test_kernel_command_line(h, c.parameter) = ~c.negate
      [] c.type = "Virtualization" ->
             Negated(test_virtualization(h, c.parameter), c)
      [] c.type = "Security" -> test_security(h, c.parameter) = ~c.negate
      [] c.type = "Null" -> ~c.negate

(* Mutant: a failing non-trigger condition returns its test value b      *)
(* instead of false.                                                       *)
condition_test_list_returns_b(list, h) ==
    LET Step(acc, c) ==
            IF acc.done THEN acc
            ELSE LET b == condition_test(c, h) IN
                 IF ~c.trigger /\ b # TRUE THEN [done |-> TRUE, res |-> b, t |-> acc.t]
                 ELSE IF c.trigger /\ acc.t <= 0
                      THEN [acc EXCEPT !.t = IF b = TRUE THEN 1 ELSE 0]
                      ELSE acc
        fin == FoldLeft(Step, [done |-> FALSE, res |-> FALSE, t |-> -1], list)
    IN IF list = <<>> THEN TRUE
       ELSE IF fin.done THEN fin.res ELSE fin.t # 0

(* Mutant: the trigger accumulator starts at 0 instead of -1, so a list   *)
(* without trigger conditions counts as "no trigger applied".             *)
condition_test_list_start_zero(list, h) ==
    LET Step(acc, c) ==
            IF acc.done THEN acc
            ELSE LET b == condition_test(c, h) IN
                 IF ~c.trigger /\ b # TRUE THEN [done |-> TRUE, res |-> FALSE, t |-> acc.t]
                 ELSE IF c.trigger /\ acc.t <= 0
                      THEN [acc EXCEPT !.t = IF b = TRUE THEN 1 ELSE 0]
                      ELSE acc
        fin == FoldLeft(Step, [done |-> FALSE, res |-> FALSE, t |-> 0], list)
    IN IF list = <<>> THEN TRUE
       ELSE IF fin.done THEN fin.res ELSE fin.t # 0

(* condition_test_list: TRUE for an empty list; FALSE at the first         *)
(* non-trigger condition that fails; otherwise TRUE unless there are       *)
(* trigger conditions and none of them holds.  triggered starts at -1 and  *)
(* is overwritten by each trigger result while it is <= 0.                 *)
condition_test_list(list, h) ==
    LET Step(acc, c) ==
            IF acc.done THEN acc
            ELSE LET b == condition_test(c, h) IN
                 IF ~c.trigger /\ b # TRUE THEN [done |-> TRUE, res |-> FALSE, t |-> acc.t]
                 ELSE IF c.trigger /\ acc.t <= 0
                      THEN [acc EXCEPT !.t = IF b = TRUE THEN 1 ELSE 0]
                      ELSE acc
        fin == FoldLeft(Step, [done |-> FALSE, res |-> FALSE, t |-> -1], list)
    IN IF list = <<>> THEN TRUE
       ELSE IF fin.done THEN fin.res ELSE fin.t # 0

-----------------------------------------------------------------------------
(* The reference: spec section 4.2.                                        *)

SpecProbe(c, h) ==
    LET p == c.parameter IN
    CASE c.type = "PathExists" -> h.path[p] # "missing"
      [] c.type = "PathIsDirectory" -> h.path[p] \in {"emptydir", "fulldir"}
      [] c.type = "DirectoryNotEmpty" -> h.path[p] = "fulldir"
      [] c.type = "KernelCommandLine" ->
             /\ h.cmdline # Unreadable
             /\ IF p.val # NoValue THEN p \in h.cmdline
                ELSE \E w \in h.cmdline : w.key = p.key
      [] c.type = "Virtualization" ->
             /\ h.virt >= 0
             /\ CASE p = "yes" -> h.virt > 0
                  [] p = "no"  -> h.virt = 0
                  [] OTHER     -> h.virt > 0 /\ p = h.virtId
      [] c.type = "Security" -> p = "selinux" /\ h.selinux
      [] c.type = "Null" -> TRUE

SpecEvaluate(c, h) == SpecProbe(c, h) # c.negate

SpecEvaluateList(list, h) ==
    LET T == {i \in DOMAIN list : list[i].trigger}
        N == DOMAIN list \ T
    IN /\ \A i \in N : condition_test(list[i], h) = TRUE
       /\ T = {} \/ \E i \in T : condition_test(list[i], h) = TRUE

-----------------------------------------------------------------------------
(* A unit start tests the list; between two starts a condition path may   *)
(* be created, removed or filled (the other probes are fixed for a boot).  *)

Evaluate ==
    /\ tested' = TRUE
    /\ result' = condition_test_list(conds, host)
    /\ UNCHANGED <<host, conds>>

HostChange ==
    /\ \E p \in CondPaths : \E st \in PathStatus \ {host.path[p]} :
          host' = [host EXCEPT !.path[p] = st]
    /\ tested' = FALSE
    /\ UNCHANGED <<conds, result>>

Init ==
    /\ host \in Hosts
    /\ conds \in BoundedSeq(Conditions, MaxConditions)
    /\ tested = FALSE
    /\ result = FALSE

Next == Evaluate \/ HostChange

Spec == Init /\ [][Next]_vars

-----------------------------------------------------------------------------
TypeOK ==
    /\ host \in Hosts
    /\ conds \in Seq(Conditions)
    /\ tested \in BOOLEAN
    /\ result \in BOOLEAN

(* condition_test_list combines the tests as spec 4.2 says: every          *)
(* non-trigger condition holds, and some trigger condition holds unless    *)
(* there is none; an empty list is true.                                   *)
ListMatchesSpec ==
    tested => result = SpecEvaluateList(conds, host)

(* Each test agrees with the spec's definition of its condition type. *)
TestMatchesSpec(type) ==
    \A i \in DOMAIN conds :
        conds[i].type = type => condition_test(conds[i], host) = SpecEvaluate(conds[i], host)

(* The probing tests agree with spec 4.2: ConditionPathIsDirectory= is    *)
(* false for a path that does not exist (ENOENT is false),                 *)
(* ConditionDirectoryNotEmpty= holds only for a directory with entries,    *)
(* ConditionKernelCommandLine= compares against the kernel command line's  *)
(* words wherever the manager runs, and ConditionVirtualization= compares  *)
(* only against an id detect_virtualization set.                           *)
ProbeTestsMatchSpec ==
    /\ TestMatchesSpec("PathIsDirectory")
    /\ TestMatchesSpec("DirectoryNotEmpty")
    /\ TestMatchesSpec("KernelCommandLine")
    /\ TestMatchesSpec("Virtualization")
=============================================================================
