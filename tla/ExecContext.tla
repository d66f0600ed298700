---------------------------- MODULE ExecContext ----------------------------
(* The exec-context directives of load-fragment.c: the config_parse_*      *)
(* callbacks that EXEC_CONTEXT_CONFIG_ITEMS gives a [Service] section.     *)
(* config_parse (conf-parser.c) reads the unit file line by line and hands *)
(* each rvalue to the callback of its directive; each action below is one  *)
(* such line, the callback's whole effect on the ExecContext included.     *)
(*                                                                         *)
(* An rvalue is abstracted to what its parser reads from it: the number    *)
(* safe_atoi or strtol would return (Junk when it fails), the name a       *)
(* *_from_string table looks up, or the sequence of words                  *)
(* FOREACH_WORD_QUOTED splits it into.  Bit masks (the secure bits, the    *)
(* capability bounding set) are sets of bit positions or flag names; the   *)
(* packed ioprio and syslog priority are pairs.                            *)
EXTENDS Integers, Sequences, FiniteSets, SequencesExt

CONSTANTS Junk, NoCpuSet, NoLimit, NoLine, NCPUS, CAP_LAST_CAP, Inputs,
          MaxLines   \* lines of the unit file

VARIABLES ctx, line, nlines
vars == <<ctx, line, nlines>>

(* exec_context_init (execute.c): umask 0002, best-effort I/O class,      *)
(* SCHED_OTHER, LOG_DAEMON|LOG_INFO; every other field zero or NULL.      *)
exec_context_init ==
    [nice |-> 0, nice_set |-> FALSE,
     oom_score_adjust |-> 0, oom_score_adjust_set |-> FALSE,
     umask |-> 2,
     ioprio |-> [class |-> 2, data |-> 0], ioprio_set |-> FALSE,
     cpu_sched_policy |-> 0, cpu_sched_priority |-> 0, cpu_sched_set |-> FALSE,
     cpuset |-> NoCpuSet,
     syslog_priority |-> [fac |-> 3, pri |-> 6],
     secure_bits |-> {}, capability_bounding_set_drop |-> {},
     rlimit |-> NoLimit, kill_signal |-> 15,
     \* the service's own fields (service_init): no commands, pass 0
     exec_start |-> <<>>, fsck_passno |-> 0]

Dir == INSTANCE ExecDirectives WITH InitialContext <- exec_context_init

PRIO_MIN == -20
PRIO_MAX == 20
OOM_SCORE_ADJ_MIN == -1000
OOM_SCORE_ADJ_MAX == 1000
IOPRIO_BE_NR == 8
SCHED_RR_MIN == 1      \* sched_get_priority_min(SCHED_RR) on Linux
SCHED_RR_MAX == 99     \* sched_get_priority_max(SCHED_RR) on Linux

(* safe_atoi and strtol: the rvalue's number, or failure. *)
Fails(v) == v = Junk

(* A *_from_string table look-up: the value, or -1 for an unknown name. *)
FromString(table, n) == IF n \in DOMAIN table THEN table[n] ELSE -1

(* The mutant: the upper bound compared with >, letting 20 through.        *)
config_parse_nice_to_max(c, v) ==
    IF Fails(v) \/ v < PRIO_MIN \/ v > PRIO_MAX THEN c
    ELSE [c EXCEPT !.nice = v, !.nice_set = FALSE]

config_parse_nice(c, v) ==
    IF Fails(v) \/ v < PRIO_MIN \/ v >= PRIO_MAX THEN c
    ELSE [c EXCEPT !.nice = v, !.nice_set = FALSE]

config_parse_oom_score_adjust(c, v) ==
    IF Fails(v) \/ v < OOM_SCORE_ADJ_MIN \/ v > OOM_SCORE_ADJ_MAX THEN c
    ELSE [c EXCEPT !.oom_score_adjust = v, !.oom_score_adjust_set = TRUE]

config_parse_mode(c, v) ==
    IF Fails(v) \/ v < 0 \/ v > 4095 THEN c ELSE [c EXCEPT !.umask = v]

config_parse_facility(c, v) ==
    LET x == FromString(Dir!LOG_FACILITY, v) IN
    IF x < 0 THEN c ELSE [c EXCEPT !.syslog_priority.fac = x]

(* The mutant: the level stored as the whole priority, facility lost.     *)
config_parse_level_plain(c, v) ==
    LET x == FromString(Dir!LOG_LEVEL, v) IN
    IF x < 0 THEN c ELSE [c EXCEPT !.syslog_priority = [fac |-> 0, pri |-> x]]

config_parse_level(c, v) ==
    LET x == FromString(Dir!LOG_LEVEL, v) IN
    IF x < 0 THEN c ELSE [c EXCEPT !.syslog_priority.pri = x]

(* The mutant: the failed look-up not checked.                            *)
config_parse_io_class_unchecked(c, v) ==
    [c EXCEPT !.ioprio.class = FromString(Dir!IOPRIO_CLASS, v), !.ioprio_set = TRUE]

config_parse_io_class(c, v) ==
    LET x == FromString(Dir!IOPRIO_CLASS, v) IN
    IF x < 0 THEN c ELSE [c EXCEPT !.ioprio.class = x, !.ioprio_set = TRUE]

config_parse_io_priority(c, v) ==
    IF Fails(v) \/ v < 0 \/ v >= IOPRIO_BE_NR THEN c
    ELSE [c EXCEPT !.ioprio.data = v, !.ioprio_set = TRUE]

config_parse_cpu_sched_policy(c, v) ==
    LET x == FromString(Dir!SCHED_POLICY, v) IN
    IF x < 0 THEN c ELSE [c EXCEPT !.cpu_sched_policy = x, !.cpu_sched_set = TRUE]

config_parse_cpu_sched_prio(c, v) ==
    IF Fails(v) \/ v < SCHED_RR_MIN \/ v > SCHED_RR_MAX THEN c
    ELSE [c EXCEPT !.cpu_sched_priority = v, !.cpu_sched_set = TRUE]

(* The loop over the words: the set is allocated at the first word, before *)
(* the word is checked; a bad word returns with the CPUs of the earlier    *)
(* words already set.                                                      *)
RECURSIVE config_parse_cpu_affinity(_, _)
config_parse_cpu_affinity(c, words) ==
    IF words = <<>> THEN c
    ELSE LET c1 == IF c.cpuset = NoCpuSet THEN [c EXCEPT !.cpuset = {}] ELSE c
             cpu == Head(words)
         IN IF Fails(cpu) \/ cpu >= NCPUS THEN c1
            ELSE config_parse_cpu_affinity([c1 EXCEPT !.cpuset = @ \cup {cpu}],
                                           Tail(words))

(* first_word against the six names, in order; an unknown word returns    *)
(* with the bits of the earlier words already or-ed in.                    *)
RECURSIVE config_parse_secure_bits(_, _)
config_parse_secure_bits(c, words) ==
    IF words = <<>> \/ Head(words) \notin Dir!SECURE_BITS THEN c
    ELSE config_parse_secure_bits([c EXCEPT !.secure_bits = @ \cup {Head(words)}],
                                  Tail(words))

(* "1 << cap" is an int shift whose result is or-ed into a uint64_t.      *)
(* 1 << 31 is INT_MIN, which sign-extends to bits 31..63.  A shift by 32   *)
(* or more is undefined: x86 masks the count to five bits, other targets   *)
(* give 0; both outcomes are possible.                                     *)
IntBits(k) == IF k < 31 THEN {k} ELSE 31..63
shift_int_one(cap) == IF cap < 32 THEN {IntBits(cap)} ELSE {IntBits(cap % 32), {}}

(* cap_from_name fails on a word that names no capability; the words      *)
(* before it have been or-ed in.  The set of the contexts the build can    *)
(* produce.                                                                *)
RECURSIVE config_parse_bounding_set(_, _)
config_parse_bounding_set(c, words) ==
    IF words = <<>> \/ Head(words) \notin 0..CAP_LAST_CAP THEN {c}
    ELSE UNION {config_parse_bounding_set(
                    [c EXCEPT !.capability_bounding_set_drop = @ \cup b], Tail(words)) :
                b \in shift_int_one(Head(words))}

config_parse_limit(c, v) ==
    IF Fails(v) THEN c ELSE [c EXCEPT !.rlimit = [cur |-> v, max |-> v]]

config_parse_fsck_passno(c, v) ==
    IF Fails(v) \/ v < 0 THEN c ELSE [c EXCEPT !.fsck_passno = v]

(* signal_from_string_try_harder: the signal number, or -1. *)
signal_from_string_try_harder(n) ==
    IF n \in Dir!SignalNames THEN Dir!SignalOf(n) ELSE -1

config_parse_kill_signal(c, v) ==
    LET r == signal_from_string_try_harder(v) IN
    IF r <= 0 THEN c ELSE [c EXCEPT !.kill_signal = r]

(* The head of what is left of the line, as one turn of config_parse_exec's *)
(* for (;;) loop reads it: '-' and then '@' stripped off the first word, the *)
(* words up to ";" (the first one taken as the path when '@' was given) and *)
(* what follows the ";".                                                   *)
exec_split_command(ws) ==
    LET lead == Head(ws).lead
        ignore == lead # <<>> /\ Head(lead) = "-"
        lead1 == IF ignore THEN Tail(lead) ELSE lead
        honour_argv0 == lead1 # <<>> /\ Head(lead1) = "@"
        lead2 == IF honour_argv0 THEN Tail(lead1) ELSE lead1
        w0 == [Head(ws) EXCEPT !.lead = lead2]
        k == SelectInSeq(ws, Dir!IsSep)
        words == <<w0>> \o SubSeq(ws, 2, IF k = 0 THEN Len(ws) ELSE k - 1)
    IN [cmd  |-> [path |-> w0,
                  argv |-> IF honour_argv0 THEN Tail(words) ELSE words,
                  ignore |-> ignore],
        rest |-> IF k = 0 THEN <<>> ELSE SubSeq(ws, k + 1, Len(ws))]

(* The path check: an absolute path once the prefixes are off. *)
IsAbsolute(w) == w.lead = <<>> /\ w.abs

(* The mutant: the "!n[0]" check dropped, so "@/bin/a" alone is appended  *)
(* with an empty argv.                                                     *)
RECURSIVE config_parse_exec_no_argv_check(_, _)
config_parse_exec_no_argv_check(c, ws) ==
    IF ws = <<>> THEN c
    ELSE LET x == exec_split_command(ws) IN
         IF ~IsAbsolute(x.cmd.path) THEN c
         ELSE config_parse_exec_no_argv_check(
                  [c EXCEPT !.exec_start = Append(@, x.cmd)], x.rest)

(* A refused path or an empty argv returns 0 with the commands of the     *)
(* line before it already appended (exec_command_append_list).             *)
RECURSIVE config_parse_exec(_, _)
config_parse_exec(c, ws) ==
    IF ws = <<>> THEN c
    ELSE LET x == exec_split_command(ws) IN
         IF ~IsAbsolute(x.cmd.path) \/ x.cmd.argv = <<>> THEN c
         ELSE config_parse_exec([c EXCEPT !.exec_start = Append(@, x.cmd)], x.rest)

(* config_parse hands the next line of the file to its directive's parser. *)
ReadLine(d, v) ==
    /\ nlines < MaxLines
    /\ line' = [dir |-> d, val |-> v]
    /\ nlines' = nlines + 1

Parse(d, F(_, _)) == \E v \in Inputs[d] : ReadLine(d, v) /\ ctx' = F(ctx, v)

Nice                  == Parse("Nice", config_parse_nice)
OOMScoreAdjust        == Parse("OOMScoreAdjust", config_parse_oom_score_adjust)
UMask                 == Parse("UMask", config_parse_mode)
SyslogFacility        == Parse("SyslogFacility", config_parse_facility)
SyslogLevel           == Parse("SyslogLevel", config_parse_level)
IOSchedulingClass     == Parse("IOSchedulingClass", config_parse_io_class)
IOSchedulingPriority  == Parse("IOSchedulingPriority", config_parse_io_priority)
CPUSchedulingPolicy   == Parse("CPUSchedulingPolicy", config_parse_cpu_sched_policy)
CPUSchedulingPriority == Parse("CPUSchedulingPriority", config_parse_cpu_sched_prio)
CPUAffinity           == Parse("CPUAffinity", config_parse_cpu_affinity)
SecureBits            == Parse("SecureBits", config_parse_secure_bits)
LimitNOFILE           == Parse("LimitNOFILE", config_parse_limit)
KillSignal            == Parse("KillSignal", config_parse_kill_signal)
ExecStart             == Parse("ExecStart", config_parse_exec)
FsckPassNo            == Parse("FsckPassNo", config_parse_fsck_passno)
CapabilityBoundingSetDrop ==
    \E v \in Inputs["CapabilityBoundingSetDrop"] :
        /\ ReadLine("CapabilityBoundingSetDrop", v)
        /\ ctx' \in config_parse_bounding_set(ctx, v)

Init ==
    /\ ctx = exec_context_init
    /\ line = NoLine
    /\ nlines = 0

Next ==
    \/ Nice \/ OOMScoreAdjust \/ UMask \/ SyslogFacility \/ SyslogLevel
    \/ IOSchedulingClass \/ IOSchedulingPriority
    \/ CPUSchedulingPolicy \/ CPUSchedulingPriority
    \/ CPUAffinity \/ SecureBits \/ CapabilityBoundingSetDrop \/ LimitNOFILE
    \/ KillSignal \/ ExecStart \/ FsckPassNo

Spec == Init /\ [][Next]_vars

-----------------------------------------------------------------------------
(* The context with its packed fields taken apart, and the fields each     *)
(* directive owns.                                                         *)
Flat(c) ==
    [nice |-> c.nice, nice_set |-> c.nice_set,
     oom_score_adjust |-> c.oom_score_adjust,
     oom_score_adjust_set |-> c.oom_score_adjust_set, umask |-> c.umask,
     ioprio_class |-> c.ioprio.class, ioprio_data |-> c.ioprio.data,
     ioprio_set |-> c.ioprio_set, cpu_sched_policy |-> c.cpu_sched_policy,
     cpu_sched_priority |-> c.cpu_sched_priority,
     cpu_sched_set |-> c.cpu_sched_set, cpuset |-> c.cpuset,
     syslog_fac |-> c.syslog_priority.fac, syslog_pri |-> c.syslog_priority.pri,
     secure_bits |-> c.secure_bits,
     capability_bounding_set_drop |-> c.capability_bounding_set_drop,
     rlimit |-> c.rlimit, kill_signal |-> c.kill_signal,
     exec_start |-> c.exec_start, fsck_passno |-> c.fsck_passno]

Owns ==
    [d \in Dir!Directives |->
        CASE d = "Nice" -> {"nice", "nice_set"}
          [] d = "OOMScoreAdjust" -> {"oom_score_adjust", "oom_score_adjust_set"}
          [] d = "UMask" -> {"umask"}
          [] d = "IOSchedulingClass" -> {"ioprio_class", "ioprio_set"}
          [] d = "IOSchedulingPriority" -> {"ioprio_data", "ioprio_set"}
          [] d = "CPUSchedulingPolicy" -> {"cpu_sched_policy", "cpu_sched_set"}
          [] d = "CPUSchedulingPriority" -> {"cpu_sched_priority", "cpu_sched_set"}
          [] d = "CPUAffinity" -> {"cpuset"}
          [] d = "SyslogFacility" -> {"syslog_fac"}
          [] d = "SyslogLevel" -> {"syslog_pri"}
          [] d = "SecureBits" -> {"secure_bits"}
          [] d = "CapabilityBoundingSetDrop" -> {"capability_bounding_set_drop"}
          [] d = "LimitNOFILE" -> {"rlimit"}
          [] d = "KillSignal" -> {"kill_signal"}
          [] d = "ExecStart" -> {"exec_start"}
          [] d = "FsckPassNo" -> {"fsck_passno"}]

Words == [name : STRING, lead : Seq({"-", "@"}), abs : BOOLEAN]

(* Every field has the type of its C declaration, the 3-bit ioprio class  *)
(* and the 64-bit bounding mask included.                                  *)
TypeOK ==
    /\ ctx.nice \in Int /\ ctx.oom_score_adjust \in Int /\ ctx.umask \in Int
    /\ ctx.ioprio.class \in 0..7 /\ ctx.ioprio.data \in 0..8191
    /\ ctx.cpu_sched_policy \in 0..5 /\ ctx.cpu_sched_priority \in Int
    /\ ctx.cpuset \in {NoCpuSet} \cup SUBSET (0..(NCPUS - 1))
    /\ ctx.syslog_priority.fac \in 0..23 /\ ctx.syslog_priority.pri \in 0..7
    /\ ctx.secure_bits \subseteq Dir!SECURE_BITS
    /\ ctx.capability_bounding_set_drop \subseteq 0..63
    /\ {ctx.nice_set, ctx.oom_score_adjust_set, ctx.ioprio_set, ctx.cpu_sched_set}
          \subseteq BOOLEAN
    /\ ctx.kill_signal \in 1..64 /\ ctx.fsck_passno \in Int
    /\ ctx.exec_start \in Seq([path : Words, argv : Seq(Words), ignore : BOOLEAN])
    /\ nlines \in 0..MaxLines

(* Spec 4.3: the values the context holds stay in the domains the spec     *)
(* gives the parsers (nice -20..19, OOM score adjust -1000..1000, mode     *)
(* 0000-07777), whatever lines the file has.                               *)
ValuesInDomain ==
    /\ ctx.nice \in -20..19
    /\ ctx.oom_score_adjust \in -1000..1000
    /\ ctx.umask \in 0..4095

(* A line changes only the fields its directive owns: the ioprio class and *)
(* data, and the syslog facility and level, share one integer each, and a  *)
(* parser must repack the half it does not set.                            *)
DirectiveTouchesOwnFields ==
    [][\A f \in DOMAIN Flat(ctx) \ Owns[line'.dir] : Flat(ctx')[f] = Flat(ctx)[f]]_vars

(* Spec 4.3: every line either gives its directive the effect of its      *)
(* value or, when the value is invalid, is skipped whole.                  *)
ImplementsDirectives == Dir!Spec

(* Every command config_parse_exec appends can be executed as it stands:  *)
(* its path is an absolute path with the '-' and '@' prefixes taken off,  *)
(* its argv is not empty (execve needs argv[0]) and holds no ";" word, so *)
(* the count loop and the copy loop agreed on where the command ends.      *)
ExecCommandsWellFormed ==
    \A i \in DOMAIN ctx.exec_start :
        LET e == ctx.exec_start[i] IN
        /\ e.path.abs /\ e.path.lead = <<>>
        /\ e.argv # <<>>
        /\ \A j \in DOMAIN e.argv : ~Dir!IsSep(e.argv[j])

=============================================================================
