--------------------------- MODULE ExecDirectives ---------------------------
(* What spec 4.3 promises of the exec directives of a [Service] section:   *)
(* "Key parsers enforce domain constraints ... Unknown or invalid values   *)
(* are logged and the directive is skipped -- never fatal."  Each line of  *)
(* a unit file names one directive and an rvalue.  A valid rvalue gives    *)
(* the directive its effect on the exec context; an invalid one leaves the *)
(* whole context as it was.                                                *)
(*                                                                         *)
(* The context has the shape of the ExecContext of the code, so that the   *)
(* code's module refines this one with the identity mapping.               *)
EXTENDS Integers, Sequences, FiniteSets, SequencesExt

CONSTANTS
    Junk,           \* an rvalue no number parser accepts
    NoCpuSet,       \* the NULL cpuset: no CPUAffinity= given
    NoLimit,        \* the NULL rlimit pointer
    NoLine,         \* before the first line
    NCPUS,          \* CPUs in the set cpu_set_malloc returns
    CAP_LAST_CAP,   \* the highest capability libcap names
    Inputs,         \* directive name -> the rvalues its lines may carry
    InitialContext  \* the context before the first line

ASSUME NCPUS \in Nat \ {0} /\ CAP_LAST_CAP \in 0..63

(* The names the code's *_from_string tables accept (execute.c, util.c).  *)
IOPRIO_CLASS == [n \in {"none", "realtime", "best-effort", "idle"} |->
                    CASE n = "none" -> 0 [] n = "realtime" -> 1
                      [] n = "best-effort" -> 2 [] n = "idle" -> 3]
SCHED_POLICY == [n \in {"other", "fifo", "rr", "batch", "idle"} |->
                    CASE n = "other" -> 0 [] n = "fifo" -> 1 [] n = "rr" -> 2
                      [] n = "batch" -> 3 [] n = "idle" -> 5]
LOG_FACILITY == [n \in {"kern", "user", "mail", "daemon", "auth", "syslog",
                        "local0", "local7"} |->
                    CASE n = "kern" -> 0 [] n = "user" -> 1 [] n = "mail" -> 2
                      [] n = "daemon" -> 3 [] n = "auth" -> 4 [] n = "syslog" -> 5
                      [] n = "local0" -> 16 [] n = "local7" -> 23]
LOG_LEVEL == [n \in {"emerg", "alert", "crit", "err", "warning", "notice",
                     "info", "debug"} |->
                 CASE n = "emerg" -> 0 [] n = "alert" -> 1 [] n = "crit" -> 2
                   [] n = "err" -> 3 [] n = "warning" -> 4 [] n = "notice" -> 5
                   [] n = "info" -> 6 [] n = "debug" -> 7]
(* signal_from_string (util.c) knows the SIG names; _try_harder retries  *)
(* a name without the prefix with it prepended.                          *)
SIGNAL == [n \in {"SIGHUP", "SIGKILL", "SIGTERM"} |->
              CASE n = "SIGHUP" -> 1 [] n = "SIGKILL" -> 9 [] n = "SIGTERM" -> 15]
SignalNames == DOMAIN SIGNAL \cup {"HUP", "KILL", "TERM"}
SignalOf(n) == IF n \in DOMAIN SIGNAL THEN SIGNAL[n] ELSE SIGNAL["SIG" \o n]

SECURE_BITS == {"keep-caps", "keep-caps-locked", "no-setuid-fixup",
                "no-setuid-fixup-locked", "noroot", "noroot-locked"}

(* An ExecStart= word as the word splitter returns it: the characters     *)
(* '-' and '@' it begins with, whether a '/' follows them, and a name for *)
(* the rest.  Sep is the word ";" that ends one command of the line.      *)
Sep == [name |-> ";", lead |-> <<>>, abs |-> FALSE]
IsSep(w) == w = Sep

(* The commands of an ExecStart= line: its words cut at each ";", an     *)
(* empty piece after the last ";" dropped.                                *)
Commands(ws) ==
    LET cut == <<0>> \o SetToSortSeq({i \in DOMAIN ws : IsSep(ws[i])}, <)
                     \o <<Len(ws) + 1>>
        pieces == [j \in 1..(Len(cut) - 1) |-> SubSeq(ws, cut[j] + 1, cut[j + 1] - 1)]
    IN IF pieces[Len(pieces)] = <<>> THEN Front(pieces) ELSE pieces

(* A command is an absolute path, prefixed by '-' (its failure is ignored) *)
(* and then '@' (the next word is argv[0]), and the words of its argv.      *)
Lead(p) == Head(p).lead
ValidCommand(p) ==
    /\ p # <<>>
    /\ Head(p).abs
    /\ Lead(p) \in {<<>>, <<"-">>, <<"@">>, <<"-", "@">>}
    /\ "@" \in Range(Lead(p)) => Len(p) >= 2
CommandOf(p) ==
    LET w0 == [Head(p) EXCEPT !.lead = <<>>] IN
    [path   |-> w0,
     argv   |-> IF "@" \in Range(Lead(p)) THEN Tail(p) ELSE <<w0>> \o Tail(p),
     ignore |-> "-" \in Range(Lead(p))]

Directives == DOMAIN Inputs

IsNum(v) == v # Junk
InRange(v, lo, hi) == IsNum(v) /\ lo <= v /\ v <= hi
AllIn(words, S) == \A i \in DOMAIN words : words[i] \in S

VARIABLES ctx, line
vars == <<ctx, line>>

(* The spec's domains: nice -20..19, OOM score adjust -1000..1000, mode  *)
(* 0000-07777 and capability names are spelled out; the others are the   *)
(* names and ranges the kernel accepts.  A list directive is valid only  *)
(* when every word of it is.                                             *)
Valid(d, v) ==
    CASE d = "Nice"                      -> InRange(v, -20, 19)
      [] d = "OOMScoreAdjust"            -> InRange(v, -1000, 1000)
      [] d = "UMask"                     -> InRange(v, 0, 4095)
      [] d = "IOSchedulingClass"         -> v \in DOMAIN IOPRIO_CLASS
      [] d = "IOSchedulingPriority"      -> InRange(v, 0, 7)
      [] d = "CPUSchedulingPolicy"       -> v \in DOMAIN SCHED_POLICY
      [] d = "CPUSchedulingPriority"     -> InRange(v, 1, 99)
      [] d = "CPUAffinity"               -> AllIn(v, 0..(NCPUS - 1))
      [] d = "SyslogFacility"            -> v \in DOMAIN LOG_FACILITY
      [] d = "SyslogLevel"               -> v \in DOMAIN LOG_LEVEL
      [] d = "SecureBits"                -> AllIn(v, SECURE_BITS)
      [] d = "CapabilityBoundingSetDrop" -> AllIn(v, 0..CAP_LAST_CAP)
      [] d = "LimitNOFILE"               -> IsNum(v) /\ v >= 0
      [] d = "FsckPassNo"                -> IsNum(v) /\ v >= 0
      [] d = "KillSignal"                -> v \in SignalNames
      [] d = "ExecStart"                 -> \A i \in DOMAIN Commands(v) :
                                                ValidCommand(Commands(v)[i])

(* The effect of a valid line.  List directives add to what earlier lines *)
(* gave; an empty list gives nothing.                                     *)
CpuSetOf(c) == IF c.cpuset = NoCpuSet THEN {} ELSE c.cpuset
Apply(c, d, v) ==
    CASE d = "Nice" -> [c EXCEPT !.nice = v, !.nice_set = TRUE]
      [] d = "OOMScoreAdjust" ->
             [c EXCEPT !.oom_score_adjust = v, !.oom_score_adjust_set = TRUE]
      [] d = "UMask" -> [c EXCEPT !.umask = v]
      [] d = "IOSchedulingClass" ->
             [c EXCEPT !.ioprio.class = IOPRIO_CLASS[v], !.ioprio_set = TRUE]
      [] d = "IOSchedulingPriority" ->
             [c EXCEPT !.ioprio.data = v, !.ioprio_set = TRUE]
      [] d = "CPUSchedulingPolicy" ->
             [c EXCEPT !.cpu_sched_policy = SCHED_POLICY[v], !.cpu_sched_set = TRUE]
      [] d = "CPUSchedulingPriority" ->
             [c EXCEPT !.cpu_sched_priority = v, !.cpu_sched_set = TRUE]
      [] d = "CPUAffinity" ->
             IF v = <<>> THEN c ELSE [c EXCEPT !.cpuset = CpuSetOf(c) \cup Range(v)]
      [] d = "SyslogFacility" -> [c EXCEPT !.syslog_priority.fac = LOG_FACILITY[v]]
      [] d = "SyslogLevel" -> [c EXCEPT !.syslog_priority.pri = LOG_LEVEL[v]]
      [] d = "SecureBits" -> [c EXCEPT !.secure_bits = @ \cup Range(v)]
      [] d = "CapabilityBoundingSetDrop" ->
             [c EXCEPT !.capability_bounding_set_drop = @ \cup Range(v)]
      [] d = "LimitNOFILE" -> [c EXCEPT !.rlimit = [cur |-> v, max |-> v]]
      [] d = "FsckPassNo" -> [c EXCEPT !.fsck_passno = v]
      [] d = "KillSignal" -> [c EXCEPT !.kill_signal = SignalOf(v)]
      [] d = "ExecStart" ->
             LET cmds == Commands(v) IN
             [c EXCEPT !.exec_start = @ \o [i \in DOMAIN cmds |-> CommandOf(cmds[i])]]

Init ==
    /\ ctx = InitialContext
    /\ line = NoLine

ParseLine ==
    \E d \in Directives : \E v \in Inputs[d] :
        /\ line' = [dir |-> d, val |-> v]
        /\ ctx' = IF Valid(d, v) THEN Apply(ctx, d, v) ELSE ctx

Spec == Init /\ [][ParseLine]_vars

=============================================================================
