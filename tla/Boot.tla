-------------------------------- MODULE Boot --------------------------------
(* The start-up and exit path of the manager process, main() of main.c.    *)
(* One generation of the process image runs                                *)
(*   Startup   the SysV compatibility exec, the static arg_* defaults,     *)
(*             set_default_unit, parse_config_file, parse_proc_cmdline     *)
(*             (system mode only), parse_argv and the action dispatch;     *)
(*   Activate  loading the default unit, the rescue fallback and the start *)
(*             job, or nothing when state comes from a serialization;      *)
(*   bus_dispatch  manager_loop handing one bus message to ManagerBus;     *)
(*   MainLoop  the return of manager_loop and the switch on exit_code;     *)
(*   Finish    the finish: label: re-exec, systemd-shutdown, freeze.        *)
(* A successful re-exec starts the next generation with the argv main      *)
(* builds for it; the config file and the kernel command line are the same *)
(* files for every generation.                                             *)
(*                                                                         *)
(* Clients call the Manager methods of ManagerBus while the manager is up; *)
(* shutdown requests and main-loop failures come from outside the bus.    *)
(* dbus-manager.c still names the PID-1 mode MANAGER_INIT, main.c calls it *)
(* MANAGER_SYSTEM: running_as_init is the system mode of PID 1.            *)
(*                                                                         *)
(* Logging options, log levels and targets are left out: they change no    *)
(* state the manager acts on.  The build is taken without SysV             *)
(* compatibility (no --sysv-console).                                      *)
EXTENDS Integers, Sequences, FiniteSets, SequencesExt, ManagerBus

CONSTANTS
    Names,          \* what program_invocation_short_name may be
    ConfigFiles,    \* the system.conf and user.conf a boot may have
    Cmdlines,       \* the /proc/cmdline word lists a boot may have
    Argvs,          \* the argv lists the first generation may get
    Units,          \* unit names a --unit= or systemd.unit= may give
    Junk,           \* an argument safe_atoi does not accept
    NoArg,          \* an option given without its optional argument
    NoConsole,      \* arg_console = NULL
    NoVerb,         \* shutdown_verb = NULL
    Clients,        \* bus clients calling the manager
    MaxGenerations, \* process images of one boot (re-executions + 1)
    MaxCalls,       \* method calls over the whole boot
    EventVerbs      \* the shutdown verbs requested from outside the bus

SPECIAL_DEFAULT_TARGET == "default.target"
SPECIAL_RESCUE_TARGET == "rescue.target"
SPECIAL_EMERGENCY_TARGET == "emergency.target"
EXIT_SUCCESS == 0
EXIT_FAILURE == 1

(* The SysV runlevel words and the targets they select (rlmap). *)
rlmap ==
    [w \in {"emergency", "single", "-s", "s", "S", "1", "2", "3", "4", "5"} |->
        CASE w = "emergency" -> SPECIAL_EMERGENCY_TARGET
          [] w \in {"single", "-s", "s", "S", "1"} -> SPECIAL_RESCUE_TARGET
          [] w = "2" -> "runlevel2.target" [] w = "3" -> "runlevel3.target"
          [] w = "4" -> "runlevel4.target" [] w = "5" -> "runlevel5.target"]

LoadResults == {"loaded", "error", "masked"}
ExitCodes == {"running", "exit", "reload", "reexecute",
              "reboot", "poweroff", "halt", "kexec"}
ShutdownVerbs == {"reboot", "poweroff", "halt", "kexec"}

(* parse_boolean (util.c). *)
parse_boolean(s) ==
    CASE s \in {"1", "yes", "y", "true", "on"} -> 1
      [] s \in {"0", "no", "n", "false", "off"} -> 0
      [] OTHER -> -1

VARIABLES
    pid1,       \* getpid() == 1: the same for every generation
    name,       \* program_invocation_short_name at exec
    config,     \* the config files: mode -> sequence of lines
    cmdline,    \* the kernel command line: sequence of words
    argv,       \* this generation's argv
    gen,        \* the generation of the process image
    pc,         \* where main() is
    args,       \* the arg_* statics and serialization
    retval,
    reexecute,
    shutdown_verb,
    mgr,        \* the Manager's bus fields (ManagerBus), of this generation
    inbox,      \* method calls queued on the manager's bus connection
    outstanding,\* the call each client waits on the reply of, or NoMessage
    replies,    \* history: the set of replies the manager sent
    calls,      \* method calls made so far
    loaded,     \* the load states of the default and the rescue target
    jobs,       \* history: the start jobs main() enqueued, over all generations
    prev,       \* history: the settings the last re-exec carried over
    crash_handler, \* crash() is installed for the crash signals in this image
    crash_shell    \* a crash shell was spawned on the console

vars == <<pid1, name, config, cmdline, argv, gen, pc, args, retval,
          reexecute, shutdown_verb, mgr, inbox, outstanding, replies, calls,
          loaded, jobs, prev, crash_handler, crash_shell>>
crashVars == <<crash_handler, crash_shell>>
busVars == <<mgr, inbox, outstanding, replies, calls>>

(* A mutant: the mode is left at _MANAGER_RUNNING_AS_INVALID. *)
InitialArgs_mode_unset(p1) ==
    [action |-> "run", default_unit |-> SPECIAL_DEFAULT_TARGET,
     running_as |-> "invalid",
     dump_core |-> TRUE, crash_shell |-> FALSE, confirm_spawn |-> FALSE,
     show_status |-> TRUE, console |-> NoConsole, serialization |-> FALSE]

(* The statics of main.c, as a fresh image has them, and the mode          *)
(* main() sets from the PID before any parsing.                            *)
InitialArgs(p1) ==
    [action |-> "run", default_unit |-> SPECIAL_DEFAULT_TARGET,
     running_as |-> IF p1 THEN "system" ELSE "user",
     dump_core |-> TRUE, crash_shell |-> FALSE, confirm_spawn |-> FALSE,
     show_status |-> TRUE, console |-> NoConsole, serialization |-> FALSE]

(* The settings the re-exec argv carries over. *)
Settings(a) ==
    [running_as |-> a.running_as, dump_core |-> a.dump_core,
     crash_shell |-> a.crash_shell, confirm_spawn |-> a.confirm_spawn,
     show_status |-> a.show_status]

-----------------------------------------------------------------------------
(* parse_config_file: the file of the mode arg_running_as has when it is   *)
(* read.  config_parse stops at the first line whose callback fails, and   *)
(* config_parse_cpu_affinity fails (-EBADMSG) on a word it cannot use;     *)
(* the lines after it are not read.  The failure is only logged.           *)
config_line(a, l) ==
    CASE l.key = "ShowStatus"  -> [a EXCEPT !.show_status = (parse_boolean(l.val) = 1)]
      [] l.key = "DumpCore"    -> [a EXCEPT !.dump_core = (parse_boolean(l.val) = 1)]
      [] l.key = "CrashShell"  -> [a EXCEPT !.crash_shell = (parse_boolean(l.val) = 1)]
      [] l.key = "CPUAffinity" -> a

RECURSIVE config_parse(_, _)
config_parse(a, lines) ==
    IF lines = <<>> \/ (Head(lines).key = "CPUAffinity" /\ Head(lines).val = "bad")
    THEN a
    ELSE config_parse(config_line(a, Head(lines)), Tail(lines))

parse_config_file(a) == config_parse(a, config[a.running_as])

(* parse_proc_cmdline_word.  A word is a record: key is the part before    *)
(* '=' (the whole word for quiet and the runlevel words), val the rest.    *)
(* For console= the word carries the outcome of the VT test on the whole   *)
(* value and the device name strcspn cuts at the first ','.               *)
BoolSwitch(a, field, v) ==
    IF parse_boolean(v) < 0 THEN a ELSE [a EXCEPT ![field] = (parse_boolean(v) = 1)]

parse_proc_cmdline_word(a, w) ==
    CASE w.key = "systemd.unit"          -> [a EXCEPT !.default_unit = w.val]
      [] w.key = "systemd.dump_core"     -> BoolSwitch(a, "dump_core", w.val)
      [] w.key = "systemd.crash_shell"   -> BoolSwitch(a, "crash_shell", w.val)
      [] w.key = "systemd.confirm_spawn" -> BoolSwitch(a, "confirm_spawn", w.val)
      [] w.key = "systemd.show_status"   -> BoolSwitch(a, "show_status", w.val)
      [] w.key = "console" ->
             [a EXCEPT !.console = IF w.val.vt THEN NoConsole ELSE w.val.dev]
      [] w.key = "quiet"                 -> [a EXCEPT !.show_status = FALSE]
      [] w.key \in DOMAIN rlmap          -> [a EXCEPT !.default_unit = rlmap[w.key]]
      [] OTHER                           -> a

parse_proc_cmdline(a) == FoldLeft(parse_proc_cmdline_word, a, cmdline)

(* One option of parse_argv: the new statics and how the loop goes on.    *)
(* --deserialize returns r, which is still the 0 of safe_atoi when the fd *)
(* is negative or fdopen fails: parse_argv then succeeds with the options *)
(* after it unread.                                                        *)
Step(a, how) == [args |-> a, how |-> how]

argv_option(a, o, fdok) ==
    CASE o.opt = "--unit"  -> Step([a EXCEPT !.default_unit = o.arg], "next")
      [] o.opt = "--system" -> Step([a EXCEPT !.running_as = "system"], "next")
      [] o.opt = "--user"   -> Step([a EXCEPT !.running_as = "user"], "next")
      [] o.opt = "--test"   -> Step([a EXCEPT !.action = "test"], "next")
      [] o.opt = "--dump-configuration-items" -> Step([a EXCEPT !.action = "dump"], "next")
      [] o.opt = "--introspect" -> Step([a EXCEPT !.action = "done"], "next")
      [] o.opt = "--help"   -> Step([a EXCEPT !.action = "help"], "next")
      [] o.opt = "--dump-core" -> Step([a EXCEPT !.dump_core = TRUE], "next")
      [] o.opt = "--crash-shell" -> Step([a EXCEPT !.crash_shell = TRUE], "next")
      [] o.opt = "--confirm-spawn" -> Step([a EXCEPT !.confirm_spawn = TRUE], "next")
      [] o.opt = "--show-status" ->
             IF o.arg = NoArg THEN Step([a EXCEPT !.show_status = TRUE], "next")
             ELSE IF parse_boolean(o.arg) < 0 THEN Step(a, "error")
             ELSE Step([a EXCEPT !.show_status = (parse_boolean(o.arg) = 1)], "next")
      [] o.opt = "--deserialize" ->
             IF o.arg = Junk THEN Step(a, "error")
             ELSE IF o.arg < 0 \/ ~fdok THEN Step(a, "return0")
             ELSE Step([a EXCEPT !.serialization = TRUE], "next")
      [] OTHER -> Step(a, "error")

(* getopt_long moves the words that are not options to the end. *)
RECURSIVE getopt_loop(_, _, _)
getopt_loop(a, opts, fdok) ==
    IF opts = <<>> THEN Step(a, "done")
    ELSE IF Head(opts).opt = "word" THEN getopt_loop(a, Tail(opts), fdok)
    ELSE LET s == argv_option(a, Head(opts), fdok) IN
         IF s.how = "next" THEN getopt_loop(s.args, Tail(opts), fdok) ELSE s

(* PID 1 gets the kernel's arguments in argv and ignores them; anyone     *)
(* else must not pass words that are not options.                          *)
parse_argv(a, fdok) ==
    LET s == getopt_loop(a, argv, fdok)
        excess == \E i \in DOMAIN argv : argv[i].opt = "word"
    IN [args |-> s.args,
        r |-> IF s.how = "error" \/ (s.how = "done" /\ s.args.running_as # "system" /\ excess)
              THEN -1 ELSE 0]

-----------------------------------------------------------------------------
(* Called as init by anyone but PID 1: act as telinit. *)
sysv_compat(n) == ~pid1 /\ n = "init"

(* manager_new: a new Manager, running, with nothing stashed and nobody    *)
(* subscribed.                                                             *)
manager_new(a) ==
    [exit_code |-> "running", queued_message |-> NoMessage, subscribed |-> {},
     running_as_init |-> pid1 /\ a.running_as = "system"]

(* The goto-finish failures on main()'s way to the manager: the OS set-up *)
(* before the config file is read (selinux_setup, label_init,             *)
(* mount_setup), fdset_new_fill for a serialization, manager_new.         *)
SetupFailures == {"none", "os_setup", "fdset", "manager_new"}

(* How far main() gets past parse_argv: an error, an action that ends it,  *)
(* a failure of fdset_new_fill or manager_new, or the manager activated.   *)
startup_stage(p, fail) ==
    CASE p.r < 0 -> "argv_error"
      [] p.args.action \in {"help", "dump", "done"} -> "done"
      [] fail = "fdset" /\ p.args.serialization -> "fdset"
      [] fail = "manager_new" -> "manager_new"
      [] OTHER -> "activate"

(* if (getpid() == 1) install_crash_handler(): reached after               *)
(* fdset_new_fill, before manager_new.                                    *)
InstallsCrashHandler(stage) == pid1 /\ stage \in {"manager_new", "activate"}

Startup ==
    /\ pc = "start"
    /\ IF sysv_compat(name)
       THEN /\ pc' = "compat"          \* execv(SYSTEMCTL_BINARY_PATH, argv)
            /\ UNCHANGED <<args, retval, mgr, crash_handler>>
       ELSE \E fail \in SetupFailures :
            IF fail = "os_setup"
            THEN /\ pc' = "finish" /\ retval' = EXIT_FAILURE
                 /\ UNCHANGED <<args, mgr, crash_handler>>
            ELSE LET a1 == parse_config_file(InitialArgs(pid1))
                     a2 == IF a1.running_as = "system" THEN parse_proc_cmdline(a1) ELSE a1
                 IN \E fdok \in BOOLEAN :
                      LET p == parse_argv(a2, fdok)
                          stage == startup_stage(p, fail)
                      IN /\ args' = p.args
                         /\ mgr' = manager_new(p.args)
                         /\ pc' = IF stage = "activate" THEN "activate" ELSE "finish"
                         /\ retval' = IF stage = "done" THEN EXIT_SUCCESS ELSE EXIT_FAILURE
                         /\ crash_handler' = InstallsCrashHandler(stage)
    /\ UNCHANGED <<pid1, name, config, cmdline, argv, gen, reexecute,
                   shutdown_verb, inbox, outstanding, replies, calls, loaded, jobs, prev,
                   crash_shell>>

(* The rescue target is used only when it loaded. *)
rescue_loaded(rr) == rr = "loaded"

(* Activation of the default unit, with the rescue target when it does not *)
(* load; a rescue target that does not load either, or a manager_add_job *)
(* that fails, ends main().                                                *)
Activate ==
    /\ pc = "activate"
    /\ IF args.serialization
       THEN pc' = "running" /\ UNCHANGED <<retval, loaded, jobs>>
       ELSE \E rd, rr \in LoadResults :
              LET target == IF rd = "loaded" THEN args.default_unit ELSE SPECIAL_RESCUE_TARGET
                  ok == rd = "loaded" \/ rescue_loaded(rr)
              IN /\ loaded' = [default |-> rd, rescue |-> IF rd = "loaded" THEN "untried" ELSE rr]
                 /\ \E addok \in BOOLEAN :          \* manager_add_job may fail
                    IF ~ok \/ ~addok THEN pc' = "finish" /\ UNCHANGED <<retval, jobs>>
                    ELSE /\ jobs' = Append(jobs, [gen |-> gen, u |-> target])
                         /\ IF args.action = "test"
                            THEN pc' = "finish" /\ retval' = EXIT_SUCCESS
                            ELSE pc' = "running" /\ UNCHANGED retval
    /\ UNCHANGED <<pid1, name, config, cmdline, argv, gen, args, reexecute,
                   shutdown_verb, busVars, prev, crashVars>>

(* prepare_reexecute serializes into a file it leaves open across exec;   *)
(* any of its steps may fail.                                              *)
prepare_reexecute(ok) ==
    IF ok THEN /\ reexecute' = TRUE /\ args' = [args EXCEPT !.serialization = TRUE]
    ELSE UNCHANGED <<reexecute, args>>

(* Replies go out; each client a reply is for stops waiting. *)
Deliver(rs) ==
    /\ replies' = replies \cup ToSet(rs)
    /\ outstanding' = [c \in Clients |->
                         IF \E i \in DOMAIN rs : rs[i].client = c THEN NoMessage
                         ELSE outstanding[c]]

(* One turn of manager_loop on the bus while exit_code is MANAGER_RUNNING  *)
(* (bus_dispatch): first the stashed Reload reply goes out, then one       *)
(* message is handed to bus_manager_message_handler.  An assert that fails *)
(* aborts the manager.                                                     *)
bus_dispatch ==
    /\ pc = "running" /\ mgr.exit_code = "running"
    /\ mgr.queued_message # NoMessage \/ inbox # << >>
    /\ LET q == mgr.queued_message
           flushed == IF q = NoMessage THEN << >>
                      ELSE << Reply(q.client, "Reload", TRUE, q.reloaded) >>
           m0 == [mgr EXCEPT !.queued_message = NoMessage]
       IN IF inbox = << >>
          THEN /\ mgr' = m0 /\ Deliver(flushed) /\ UNCHANGED <<inbox, pc>>
          ELSE LET h == bus_manager_message_handler(m0, Head(inbox))
                   r == IF h.reply = NoMessage THEN << >> ELSE << h.reply >>
               IN IF h.aborted
                  THEN pc' = "aborted" /\ UNCHANGED <<mgr, inbox, outstanding, replies>>
                  ELSE /\ mgr' = h.mgr /\ inbox' = Tail(inbox) /\ Deliver(flushed \o r)
                       /\ UNCHANGED pc
    /\ UNCHANGED <<pid1, name, config, cmdline, argv, gen, args, retval, reexecute,
                   shutdown_verb, calls, loaded, jobs, prev, crashVars>>

(* A bus client calls a method while the manager runs its main loop.  Each *)
(* client waits for its reply before the next call.                        *)
Call(c, meth) ==
    /\ pc = "running"
    /\ outstanding[c] = NoMessage
    /\ calls < MaxCalls
    /\ meth = "Reexecute" => gen + 1 < MaxGenerations
    /\ inbox' = Append(inbox, [client |-> c, method |-> meth])
    /\ outstanding' = [outstanding EXCEPT ![c] = meth]
    /\ calls' = calls + 1
    /\ UNCHANGED <<pid1, name, config, cmdline, argv, gen, pc, args, retval, reexecute,
                   shutdown_verb, mgr, replies, loaded, jobs, prev, crashVars>>

(* What ends manager_loop from outside the bus: a shutdown target or       *)
(* signal sets exit_code (manager.c), or manager_loop fails.               *)
ManagerEvent ==
    /\ pc = "running" /\ mgr.exit_code = "running"
    /\ \/ \E v \in EventVerbs : mgr' = [mgr EXCEPT !.exit_code = v] /\ UNCHANGED pc
       \/ pc' = "finish" /\ UNCHANGED mgr
    /\ UNCHANGED <<pid1, name, config, cmdline, argv, gen, args, retval, reexecute,
                   shutdown_verb, inbox, outstanding, replies, calls, loaded, jobs, prev,
                   crashVars>>

(* manager_loop has returned: the switch on m->exit_code.  After a reload *)
(* main() calls manager_loop again, which first sets exit_code back to     *)
(* MANAGER_RUNNING; the stashed reply then waits for the next bus_dispatch. *)
(* A failed manager_reload is only logged.                                 *)
MainLoop ==
    /\ pc = "running"
    /\ mgr.exit_code # "running"
    /\ LET code == mgr.exit_code IN
       IF code = "reload"
       THEN /\ mgr' = [mgr EXCEPT !.exit_code = "running",
                                  !.queued_message =
                                      IF @ = NoMessage THEN @ ELSE [@ EXCEPT !.reloaded = TRUE]]
            /\ UNCHANGED <<pc, retval, reexecute, args, shutdown_verb>>
       ELSE /\ pc' = "finish"
            /\ retval' = IF code = "exit" THEN EXIT_SUCCESS ELSE retval
            /\ shutdown_verb' = IF code \in ShutdownVerbs THEN code ELSE shutdown_verb
            /\ IF code = "reexecute" THEN \E ok \in BOOLEAN : prepare_reexecute(ok)
               ELSE UNCHANGED <<reexecute, args>>
            /\ UNCHANGED mgr
    /\ UNCHANGED <<pid1, name, config, cmdline, argv, gen, inbox, outstanding, replies,
                   calls, loaded, jobs, prev, crashVars>>

(* A mutant: --show-status is passed only when it is on. *)
reexec_args_show_status_if_set(a) ==
    << [opt |-> IF a.running_as = "system" THEN "--system" ELSE "--user", arg |-> NoArg] >>
    \o (IF a.dump_core THEN << [opt |-> "--dump-core", arg |-> NoArg] >> ELSE << >>)
    \o (IF a.crash_shell THEN << [opt |-> "--crash-shell", arg |-> NoArg] >> ELSE << >>)
    \o (IF a.confirm_spawn THEN << [opt |-> "--confirm-spawn", arg |-> NoArg] >> ELSE << >>)
    \o (IF a.show_status THEN << [opt |-> "--show-status", arg |-> "1"] >> ELSE << >>)
    \o << [opt |-> "--deserialize", arg |-> 3] >>

(* The argv main() builds for the re-exec. *)
reexec_args(a) ==
    << [opt |-> IF a.running_as = "system" THEN "--system" ELSE "--user", arg |-> NoArg] >>
    \o (IF a.dump_core THEN << [opt |-> "--dump-core", arg |-> NoArg] >> ELSE << >>)
    \o (IF a.crash_shell THEN << [opt |-> "--crash-shell", arg |-> NoArg] >> ELSE << >>)
    \o (IF a.confirm_spawn THEN << [opt |-> "--confirm-spawn", arg |-> NoArg] >> ELSE << >>)
    \o << [opt |-> "--show-status", arg |-> IF a.show_status THEN "1" ELSE "0"],
          [opt |-> "--deserialize", arg |-> 3] >>

(* The new image starts from main() again with fresh statics. *)
NewGeneration ==
    /\ argv' = reexec_args(args)
    /\ name' = "systemd"
    /\ gen' = gen + 1
    /\ pc' = "start"
    /\ prev' = Settings(args)
    /\ args' = InitialArgs(pid1)
    /\ retval' = EXIT_FAILURE
    /\ reexecute' = FALSE
    /\ crash_handler' = FALSE          \* execv resets caught signals to SIG_DFL
    /\ UNCHANGED shutdown_verb

(* A mutant: the manager is not freed, its connections stay open. *)
manager_free_skipped == UNCHANGED <<inbox, outstanding, mgr>>

(* manager_free at finish: closes the bus connections; the bus daemon     *)
(* answers every call still waiting with an error, and the stashed reply   *)
(* is freed.                                                               *)
manager_free ==
    /\ inbox' = << >>
    /\ outstanding' = [c \in Clients |-> NoMessage]
    /\ mgr' = [mgr EXCEPT !.queued_message = NoMessage]

(* finish: exec the new image or systemd-shutdown; an exec that fails,     *)
(* and every other path, ends in freeze() for PID 1 and in return for the  *)
(* others.                                                                 *)
Finish ==
    /\ pc = "finish"
    /\ manager_free
    /\ \E execok \in BOOLEAN :
         IF (reexecute \/ shutdown_verb # NoVerb) /\ execok
         THEN IF reexecute THEN NewGeneration
              ELSE pc' = "shutdown" /\ UNCHANGED <<argv, name, gen, prev, args, retval,
                                                  reexecute, shutdown_verb, crash_handler>>
         ELSE /\ pc' = IF pid1 THEN "frozen" ELSE "exited"
              /\ UNCHANGED <<argv, name, gen, prev, args, retval, reexecute, shutdown_verb,
                             crash_handler>>
    /\ UNCHANGED <<pid1, config, cmdline, replies, calls, loaded, jobs, crash_shell>>

(* crash(): the core is dumped by a forked child if arg_dump_core (its      *)
(* outcome is only logged), a crash shell is forked if arg_crash_shell and *)
(* the fork succeeds, and PID 1 freezes with everything it holds open.     *)
crash(a) ==
    /\ pc' = "crashed"
    /\ \E forkok \in BOOLEAN : crash_shell' = (a.crash_shell /\ forkok)

(* A crash signal (SIGSEGV, SIGBUS, SIGABRT from a failed assert, ...)      *)
(* while main() runs.  With crash() installed it takes over; without it    *)
(* the default action kills the process, and the death of PID 1 panics    *)
(* the kernel.                                                             *)
Crash ==
    /\ pc \in {"start", "activate", "running", "finish"}
    /\ IF crash_handler
       THEN crash(args) /\ UNCHANGED <<inbox, outstanding>>
       ELSE /\ pc' = (IF pid1 THEN "panic" ELSE "killed")
            /\ inbox' = << >>                          \* the dead process's sockets close
            /\ outstanding' = [c \in Clients |-> NoMessage]
            /\ UNCHANGED crash_shell
    /\ UNCHANGED <<pid1, name, config, cmdline, argv, gen, args, retval, reexecute,
                   shutdown_verb, mgr, replies, calls, loaded, jobs, prev, crash_handler>>

Init ==
    /\ pid1 \in BOOLEAN
    /\ name \in Names
    /\ config \in ConfigFiles
    /\ cmdline \in Cmdlines
    /\ argv \in Argvs
    /\ gen = 0
    /\ pc = "start"
    /\ args = InitialArgs(pid1)
    /\ retval = EXIT_FAILURE
    /\ reexecute = FALSE
    /\ shutdown_verb = NoVerb
    /\ mgr = manager_new(InitialArgs(pid1))
    /\ inbox = << >>
    /\ outstanding = [c \in Clients |-> NoMessage]
    /\ replies = {}
    /\ calls = 0
    /\ loaded = [default |-> "untried", rescue |-> "untried"]
    /\ jobs = << >>
    /\ prev = Settings(InitialArgs(pid1))
    /\ crash_handler = FALSE
    /\ crash_shell = FALSE

Next ==
    \/ Startup \/ Activate \/ bus_dispatch \/ MainLoop \/ Finish
    \/ ManagerEvent \/ Crash
    \/ \E c \in Clients : \E meth \in Methods : Call(c, meth)

(* The manager is one single-threaded process: each of its steps that      *)
(* stays enabled is taken.  Clients and outside events get no fairness.    *)
Spec ==
    /\ Init /\ [][Next]_vars
    /\ WF_vars(Startup) /\ WF_vars(Activate) /\ WF_vars(bus_dispatch)
    /\ WF_vars(MainLoop) /\ WF_vars(Finish)

-----------------------------------------------------------------------------
UnitNames == {SPECIAL_DEFAULT_TARGET, SPECIAL_RESCUE_TARGET} \cup Units \cup Range(rlmap)
ArgsType ==
    [action: {"run", "test", "dump", "done", "help"}, default_unit: UnitNames,
     running_as: {"system", "user"}, dump_core: BOOLEAN, crash_shell: BOOLEAN,
     confirm_spawn: BOOLEAN, show_status: BOOLEAN, console: STRING \cup {NoConsole},
     serialization: BOOLEAN]

TypeOK ==
    /\ pid1 \in BOOLEAN /\ name \in Names
    /\ gen \in 0..(MaxGenerations - 1)
    /\ pc \in {"start", "activate", "running", "finish",
              "compat", "shutdown", "frozen", "exited", "aborted",
              "crashed", "killed", "panic"}
    /\ args \in ArgsType
    /\ retval \in {EXIT_SUCCESS, EXIT_FAILURE}
    /\ reexecute \in BOOLEAN
    /\ shutdown_verb \in ShutdownVerbs \cup {NoVerb}
    /\ mgr \in [exit_code: ExitCodes,
               queued_message: {NoMessage} \cup [client: Clients, reloaded: BOOLEAN],
               subscribed: SUBSET Clients, running_as_init: BOOLEAN]
    /\ inbox \in Seq([client: Clients, method: Methods])
    /\ outstanding \in [Clients -> Methods \cup {NoMessage}]
    /\ replies \subseteq [client: Clients, method: Methods, ok: BOOLEAN, after_reload: BOOLEAN]
    /\ calls \in 0..MaxCalls
    /\ crash_handler \in BOOLEAN
    /\ crash_shell \in BOOLEAN
    /\ loaded \in [default: LoadResults \cup {"untried"}, rescue: LoadResults \cup {"untried"}]
    /\ jobs \in Seq([gen: 0..(MaxGenerations - 1), u: UnitNames])

(* A re-executed manager comes up with the mode and the switches of the    *)
(* image it replaces: the argv main() builds for execv, read after the same *)
(* config file and kernel command line, gives back every setting.           *)
ReexecCarriesSettings == (pc = "activate" /\ gen > 0) => Settings(args) = prev

(* Spec 5 and 8.6: the reply to Reload() goes out only after the reload it *)
(* asked for has run (the reply stashed in the handler, sent by            *)
(* bus_dispatch after manager_reload).                                     *)
ReloadReplyAfterReload ==
    \A r \in replies : r.method = "Reload" => r.after_reload

(* Every method call is answered: by the manager, or by the bus daemon     *)
(* once manager_free at finish has closed the manager's connections.  A    *)
(* manager frozen by crash() holds its connections open and answers        *)
(* nothing; that end is excluded.                                          *)
RequestsAnswered ==
    \A c \in Clients :
        outstanding[c] # NoMessage ~> (outstanding[c] = NoMessage \/ pc = "crashed")

=============================================================================
