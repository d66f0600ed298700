# systemd verification

TLA+ models of the parts of this systemd tree (`src/src/`) that carry state
machines or decision procedures, with TLC configurations that check them
against what `spec.md` and the code's own comments promise.

## The system and its parts

`spec.md` describes a service manager built from five parts: a unit registry,
a transaction builder, a job engine, a fragment loader and a condition
evaluator.  The tree holds only part of that code; the registry, the
transaction builder and the job engine (`manager.c`, `unit.c`, `job.c`) are
not in it.  What the tree does hold:

| Part | Source | State | Operations | Interacts with |
|---|---|---|---|---|
| Device units | `device.c` | the unit registry's names, each device unit's sysfs path and state, the udev monitor's queue | enumerate, coldplug, add/change/remove uevent (`device_fd_event`) | udev (kernel events), the registry, jobs waiting on devices |
| Condition evaluator | `condition.c` | none of its own: it reads the host | `condition_test`, `condition_test_list` | the job engine, before a start |
| Fragment loader | `load-fragment.c` | the unit's names, fragment path, load state; the `config_parse_*` settings | `open_follow`, `merge_by_names`, `load_from_path`, `unit_load_fragment` | the registry (merging units), the file system |
| Manager bus API | `dbus-manager.c` | subscribers, environment, the queued reload reply, `exit_code` | the `org.freedesktop.systemd1.Manager` methods | the main loop, the job engine |
| Main loop | `main.c` | the `arg_*` settings, `exit_code`, the serialization | `parse_config_file`, `parse_proc_cmdline_word`, `parse_argv`, activation, the `exit_code` switch, re-exec | the bus API, the manager |
| PAM session module | `pam-module.c` | the session counter file, the user's runtime directory, the session and user cgroups | `pam_sm_open_session`, `pam_sm_close_session` | concurrent logins of the same user, the cgroup tree |
| fsck progress daemon | `fsckd/fsckd.c` | the connected fsck clients and their progress, the idle timer | `new_connection_handler`, `progress_handler`, `update_global_progress`, the timed event loop | fsck processes on a socket, the console |
| One-shot tools | `binfmt.c`, `modules-load.c`, `cgroups-agent.c` | none kept | read a config, write it to the kernel, exit | the kernel |
| Headers and unrelated code | `dbus.h`, `home/*.h`, `analyze/`, `test/` | declarations, offline tools, unit tests | — | — |

What makes these parts hard:

* **udev events against enumeration.**  The device monitor is enabled before
  the enumeration of existing devices, so a device can be seen both by
  enumeration and again as a queued event; events change, remove and re-add
  devices whose names (device node, links, alias) overlap.
* **name aliasing.**  A device unit is found by any of several names, but
  removal looks it up only by one of them.
* **the host changing between condition tests,** and probe errors that the
  code folds into a boolean.
* **concurrent PAM sessions** of one user serialised by an `flock`,
  a shared counter file, and a runtime directory removed only when the last
  session goes.
* **a reload requested while one is pending** (`dbus-manager.c` asserts that
  no reply is queued).
* **the fsckd idle timeout** racing connections and progress messages.

## Modules

| Module | Models | Kind |
|---|---|---|
| `Device` | `device.c`: registry of device units, udev queue, enumeration, coldplug, uevents | component |
| `MCDevice` | two devices, three units, names chosen disjoint or overlapping | MC |
| `Condition` | `condition.c`: every condition type, `condition_test_list`, and the spec 4.2 definitions as the reference | component + reference |
| `MCCondition` | one path, one command-line key/value, one hypervisor id | MC |
| `FragmentLoader` | `load-fragment.c`: `open_follow`, the unit-path search, `merge_by_names`, `load_from_path`, `unit_load_fragment`; the registry's `unit_merge` and `unit_load` from spec 4.3/4.4 | component |
| `PamSession` | `pam-module.c`: `parse_argv`, `get_session_id`, `create_user_group`, `pam_sm_open_session`, `session_remains`, `pam_sm_close_session` for the logins of one user, with the user's processes | component |
| `MCPamSession` | three logins (one nested in another's audit session), four service argvs per login, one random value | MC |
| `Fsckd` | `fsckd/fsckd.c`: `main()`'s start-up with `parse_argv`, `new_connection_handler`, `progress_handler`, `update_global_progress`, `compute_percent`, the idle timeout and `manager_free`, with the fsck clients | component |
| `MCFsckd` | two clients, two-unit records, two progress values, zero to two passed sockets, three command lines | MC |
| `MCFragmentLoader` | two lookup directories and one outside, three unit names, three units, 288 file-system layouts; a chain of eight symlinks | MC |
| `ExecDirectives` | spec 4.3's promise for the exec directives of a `[Service]` section: a valid value takes effect, an invalid one is skipped | abstract |
| `ExecContext` | `load-fragment.c`: sixteen `config_parse_*` callbacks on one service: the exec-context setters (nice, OOM score, umask, syslog facility and level, I/O class and priority, CPU policy, priority and affinity, secure bits, bounding set, `LimitNOFILE`, kill signal), the `ExecStart=` command-line parser and `FsckPassNo=` | component, refines `ExecDirectives` |
| `MCExecContext` | per directive the values at each end of its range, one past it and one unparsable; `ExecStart=` lines of one and two commands with each prefix | MC |
| `ManagerBus` | `dbus-manager.c`: the handlers of `Reload`, `Reexecute`, `Exit`, `Subscribe` and `Unsubscribe` in `bus_manager_message_handler`, as operators on the manager's bus fields | component (operators) |
| `Boot` | `main.c`: `main()` from the SysV compatibility exec to `freeze()`, with `parse_config_file`, `parse_proc_cmdline_word`, `parse_argv`, activation, the main loop dispatching bus calls to `ManagerBus`, the exit-code switch, `manager_free` and re-exec | component, composes `ManagerBus` |
| `MCBoot` | PID 1 or not, two invocation names, two config files, two kernel command lines, seven argvs, two bus clients making two calls | MC |

### Device (`Device.tla`)

State:

* `reg`: the part of the manager the device code touches.
  * `units`: the allocated units.
  * `names`: the name → unit map, i.e. `manager_get_unit`.
  * `id`: each unit's id name.
  * `sysfs`: `u->meta.device.sysfs`.
  * `state`: dead or available.
* `present`: the devices the kernel currently has.
* `queue`: the udev monitor's queued events.
* `phase`: boot → enumerated → running, which is the order in which `manager_startup` calls `device_enumerate` and `device_coldplug`.

Each code path is one definition:

* `device_process_new_device`: the alias check, the look-up by sysfs, devnode, links and alias, the different-sysfs check, `unit_new`, and adding the names.
* `device_process_removed_device`.
* `device_enumerate`: all devices, in the order udev lists them.
* `device_coldplug`.
* `device_fd_event`: one queued event.

Plug, unplug and change are the kernel's steps. They queue an event only once the monitor exists.

Names are model values. The escaping of paths into unit names is abstracted to an injective map, `unit_name_from_path`.

### Condition (`Condition.tla`)

A condition is the record of `condition_new`.

The host is abstracted to what the probes return:

* each path's status: missing, file, empty directory, non-empty directory;
* the set of `/proc/cmdline` words, or unreadable;
* `detect_virtualization`'s result and id;
* SELinux on or off.

`condition_test` and `condition_test_list` are translated case by case from the code. `SpecEvaluate` and `SpecEvaluateList` are spec 4.2 written as operators.

There are two actions:

* `Evaluate` is a unit start that tests the list.
* `HostChange` is a condition path being created, removed or filled between two starts.

The id read by `test_virtualization` when `detect_virtualization` found nothing is uninitialized. The comparison with it is the model value `Undefined`, not a boolean.

### FragmentLoader (`FragmentLoader.tla`)

State:

* `fs`: the file system, fixed for a behaviour. Each path `<<dir, name>>` is
  missing, a unit file, an empty file (masking), a symlink to another path, or
  an entry that fails to open with another error (`EACCES`).
* `reg`: the registry as the loader sees it: the alias map `owner`, each
  unit's `names`, `id`, `state`, `merged_into`, `fragment` and the path it
  was created with (`source`).

Operations:

* `open_follow_loop` is the `for (;;)` of `open_follow`: `O_NOFOLLOW` open,
  on `ELOOP` read the link and retry, collecting each valid unit name, at most
  `FOLLOW_MAX` times.
* `search_unit_path` is the `STRV_FOREACH` over the lookup path in
  `load_from_path`.
* `merge_by_names` merges the collected names in hash order (`NameOrder`)
  and switches to the other unit when `unit_merge` refuses.
* `unit_load_fragment` loads the id, then the other names, then the creation
  path, each a `load_from_path`; `unit_load` turns its result into error or
  not-found.
* `LoadUnit` is `manager_load_unit` for a name nobody owns; `DispatchLoad` is
  the load queue taking one stub unit.

`unit_merge`, `unit_load` and `manager_load_unit` are in `unit.c`, which is
not in this tree; they are written from spec 4.3 and 4.4 and marked so in
`PROJECT.json`.  The reference definitions (`ChainFrom`, `ChainNames`,
`LinkCount`) walk a symlink chain without a limit, stopping at a repeated path.

### PamSession (`PamSession.tla`)

Both PAM calls of a login hold `.pam-systemd-lock` (an `flock`) from before
their first effect until they return, so each call is one atomic step.  Only
the user's processes run between them.

State:

* per handle:
  * `pc`: idle, open, failed or closed;
  * `sid`: `XDG_SESSION_ID`;
  * `created`: the `systemd.created` data;
  * `runtime_env`: `XDG_RUNTIME_DIR`;
* shared:
  * `counter`: the counter file;
  * `runtimeDir`: the user's runtime directory;
  * `userGroup`, `groups`: `/user/$USER` and its subgroups;
  * `loc`: each process's cgroup.

`opts` is the argv of each handle's service line, the same for both calls.
`parse_argv` is modelled as a loop over `key=value` arguments:

* a later argument overrides an earlier one;
* an unknown key or a bad boolean makes the open return `PAM_SESSION_ERR`
  before it has any effect (`OpenBadArgv`);
* at close, `kill-session` also turns on `kill-user`.

`madeBy` is a history variable.  It records which login's open made each
subgroup, so that a property can name a session's owner without trusting
`created`.

A session id is modelled by what the formatting does to it: the digits of
`%llux` and the suffix that replaces the `x` (none for an audit id).

The `cg_*` calls are not in this tree.  They are taken with their documented
effect on a one-level tree:

* `cg_create_and_attach` returns 1 only for a new group;
* `cg_migrate_recursive(..., rem)` empties and deletes the source;
* `cg_trim(..., false)` removes the empty subgroups;
* `cg_is_empty_recursive(..., true)` ignores the caller.

`session_remains` takes the directory order as an input, since `readdir`
order is arbitrary.

`Spawn`, `ShellExit` and `CallerExit` are the environment: a shell forked
inside the session, and processes exiting.  Random ids are assumed never to
collide.

### Fsckd (`Fsckd.tla`)

`Startup` is `main()` before the loop.  `phase` goes from `start` to `loop`,
or straight to `exited`:

* `parse_argv` ends the daemon on `--help`, `--version` or a bad option;
* more than one socket from `sd_listen_fds` is refused;
* with none, `make_socket_fd` creates its own socket;
* `manager_new` (allocation, `sd_event_default`, `/dev/console`) and the
  listening `sd_event_add_io` may fail.

`sock` says which socket clients can reach.  An activated socket is there
before the daemon starts and is held by the service manager too.  So the
connections queued on it survive the daemon's exit.  A socket of its own goes
with the process, and its queue is reset (`ProcessExit`).

Each event handler is one step of the sd-event loop:

* `NewConnection`: `new_connection_handler`;
* `ProgressEvent(c)`: `progress_handler`;
* `IdleTimeout`: `sd_event_run` returning 0, then `manager_free` and the exit.

A handler runs only when its source is ready:

* the listening socket, while its source is enabled;
* a client fd with data waiting or at end of stream, since epoll is level-triggered.

A handler that returns an error has its source disabled by sd-event.  This
matters only for `new_connection_handler`.

A client's socket buffer (`stream`) is a sequence of units, `MsgUnits` per
`FsckProgress` record.  `FIONREAD` is its length.  This is enough for the
three cases of `progress_handler`:

* a short read;
* end of stream;
* a whole record.

The client's `buflen` and `percent` are kept per client.  The console's
`numdevices` and `percent` are kept in `display`.  Percentages are exact
rationals, so the `fabs(...) > 0.001` test is a comparison.

`seen` is a history variable: what `FIONREAD` returned at the daemon's
previous call for the client.

`Connect`, `Write` and `Hangup` are `systemd-fsck`, which is not in this tree.
A record may be written whole or in two pieces.

### ExecContext (`ExecContext.tla`) and ExecDirectives (`ExecDirectives.tla`)

`ctx` is the part of the service the sixteen directives write: the `ExecContext`
fields, the `ExecStart=` command list and the fsck pass number.  It is initialised as
`exec_context_init` and `service_init` do (umask 0022, best-effort I/O class, daemon facility
at level info).  `line` is the last line read; `nlines` counts lines up to
`MaxLines`.

Each `config_parse_*` is one operator from the context and the rvalue to the
new context, with the code's early returns:

* the number parsers fail on the model value `Junk`; their range checks are
  the code's (`PRIO_MIN..PRIO_MAX`, `OOM_SCORE_ADJ_MIN..MAX`, `< IOPRIO_BE_NR`,
  `SCHED_RR_MIN..MAX`);
* `config_parse_cpu_affinity` and `config_parse_secure_bits` walk their words
  recursively.  The CPU set is allocated before the first word is checked.
  An unknown secure bit returns with the earlier bits kept;
* `config_parse_bounding_set` shifts in C `int`: `IntBits` gives the bits
  `1 << cap` sets after sign extension to 64 bits, and `shift_int_one`
  leaves a shift of 32 or more to the two outcomes the build can give;
* `config_parse_exec` runs one turn of its `for (;;)` loop per command of
  the line.  An rvalue is the word sequence the splitter returns.  A word is a
  record of its leading `-`/`@` characters, whether `/` follows them, and a
  name.  `Sep` is the word `;`.  `exec_split_command` strips `-` and then `@`,
  cuts the words at the first `;`, and takes the first word as the path.
  A path that is not absolute, or an empty argv, returns 0.  The commands
  appended before that point stay in the list;
* `config_parse_kill_signal` takes `signal_from_string_try_harder`, which
  retries a name with `SIG` prefixed.  `config_parse_fsck_passno` refuses a
  negative number.

The `Nice`, ..., `FsckPassNo` actions are the `EXEC_CONTEXT_CONFIG_ITEMS`
and `[Service]` rows: one unit-file line with one rvalue from `Inputs`.

`ExecDirectives` states spec 4.3 with no reference to the code: `Valid(d, v)`
is the value domain of each directive, and `Apply` is the effect of a valid
line.  For `ExecStart=` the line is valid when every `;`-separated command
is an absolute path, optionally prefixed by `-` and then `@`, with a non-empty
argv.  A valid line appends all its commands.  `ExecContext` instantiates it
with the identity mapping, and `ImplementsDirectives` is its `Spec`.

### ManagerBus (`ManagerBus.tla`)

The manager's bus fields are a record: `exit_code`, `queued_message` (the
stashed `Reload` reply), `subscribed` and `running_as_init`.  Each handler
takes the record and one call and gives the new record, the reply it sends at
once (or `NoMessage`), and whether its assert fired.  The branches are those
of the code:

* `Reload` asserts that no reply is stashed, stashes one and sets
  `MANAGER_RELOAD`.  The stashed reply records, as history, whether
  `manager_reload` has run since.
* `Reexecute` replies and sets `MANAGER_REEXECUTE`.
* `Exit` is refused with `-ENOTSUP` in PID 1's system mode, else replies and
  sets `MANAGER_EXIT`.
* `Subscribe` and `Unsubscribe` add and remove the caller; a duplicate is
  `-EEXIST` from `set_put` and a missing one `-ENOENT`.

This `dbus-manager.c` is older than `main.c`: it still tests
`m->running_as == MANAGER_INIT` where `main.c` has `MANAGER_SYSTEM`.  The
model reads `MANAGER_INIT` as the system mode of PID 1.

### Boot (`Boot.tla`)

`pc` is where `main()` is: `start`, `activate`, `running`, `finish`, or one of
the ends.  The ends are `compat` (exec of `systemctl`), `shutdown` (exec of
`systemd-shutdown`), `frozen` and `exited`.  `args` holds the `arg_*`
statics, with `serialization` as a flag.

The actions:

* **Startup** is everything before the action dispatch:
  * the compat test;
  * `parse_config_file`, where `config_parse` stops at the first failing line;
  * `parse_proc_cmdline`, a `FoldLeft` of `parse_proc_cmdline_word`, only in system mode;
  * `parse_argv`, a recursive getopt loop with the code's early returns;
  * the dispatch to help, dump or introspect;
  * the `goto finish` failures on the way to the manager (`SetupFailures`):
    the OS set-up (`selinux_setup`, `label_init`, `mount_setup`) before the
    config file is read, `fdset_new_fill` with a serialization (before the
    crash handler is installed), and `manager_new` (after it).
* **Activate** loads the default unit, falls back to `rescue.target`, and adds the start job; a failing `manager_add_job` ends `main()`.  It does nothing with a serialization.
* **bus_dispatch** is one turn of `manager_loop` on the bus while `exit_code`
  is `MANAGER_RUNNING`.  It first sends the stashed `Reload` reply, then hands
  the next queued call to `ManagerBus`.  `bus_dispatch` (`dbus.c`) and
  `manager_loop` (`manager.c`) are not in the tree; they are written from
  spec 4.8 and 5.
* **Call** is a bus client's method call.  Each client waits for its reply.
* **ManagerEvent** is what ends `manager_loop` from outside the bus: a
  shutdown target or signal sets a shutdown exit code, or the loop fails.
* **MainLoop** is the return of `manager_loop` and the `exit_code` switch.
  After a reload `manager_loop` is called again and resets `exit_code`.  A
  failed `manager_reload` is only logged.  The load results and the success of
  `prepare_reexecute` and of each `execv` are choices.
* **Finish** is the `finish:` label.  `manager_free` closes the bus, so the
  bus daemon answers every call still waiting with an error.
* **Crash** is a crash signal at any point of `main()` (a `SIGSEGV`, or a
  `SIGABRT` from an assert).  `crash_handler` says whether `crash()` is
  installed.  `main()` installs it for PID 1 on the way to activation
  (`install_crash_handler`), and `execv` resets it to the default action.
  With it, `crash()` forks the core dump and, if `CrashShell=` is on, a
  crash shell, then freezes with the bus connections open (`crashed`).
  Without it the process dies and its sockets close: `killed`, or `panic`
  for PID 1.  A successful re-exec starts a new generation, whose `argv` is the one `main()` built for it.

Each generation starts from fresh statics.  The config file and the kernel
command line stay the same.

`--deserialize` returns `r`.  That is still 0 when the fd is negative or
`fdopen` fails, so the model lets `fdopen` fail.  A console word carries the
outcome of the code's VT test.

## Runs

| Run | Checks | Result |
|---|---|---|
| `device_distinct` | `TypeOK`, `AvailableIsPresent`, `PresentIsAvailable`, `UniqueSysfs` with disjoint names and no preloaded unit | pass: 697 states, every action fires |
| `device_mirror` | `DeviceUnitsMirrorDevices` (the three device invariants together) with a unit named after a device node loaded before the device, and two devices sharing a link | violation |
| `condition_lists` | `TypeOK`, `ListMatchesSpec` over every host and every list of up to two conditions of any type | pass: 488 520 states |
| `condition_probes` | `ProbeTestsMatchSpec`: the probing tests (path is directory, directory not empty, kernel command line, virtualization) against spec 4.2 | violation |
| `fragment_layered` | `TypeOK`, `AliasesExact`, `FragmentFromFirstDir` over 288 layouts of two lookup directories with files, masks, errors and symlinks between names | pass: 16 338 states |
| `fragment_load` | `LoadMatchesSpec` (`MergedStaysMerged` and `SymlinkLimitMatchesSpec`) over the layered layouts and a chain of eight symlinks | violation |
| `pam_sessions` | `TypeOK`, `SessionIdsDistinct`, `RuntimeDirWhileOpen`, `CloseKillsOnlyOwnSession` over three logins, with `l2` either nested in `l1`'s audit session or drawing from the counter file, every service argv and every order of opens, closes, forks and exits | pass: about 1.08 million states |
| `fsckd_clients` | `TypeOK`, `DisplayNoStaleDevices`, `DisplayShowsSlowest`, `Termination` with two clients connecting, writing whole or split records and hanging up in every order, accept failures and every start-up outcome | pass: 12 871 states |
| `fsckd_kick` | `KickOnlyWhenStuck` | violation |
| `exec_context` | `TypeOK`, `ValuesInDomain`, `ExecCommandsWellFormed`, `DirectiveTouchesOwnFields` over every pair of lines of the sixteen directives | pass: 1 265 states |
| `exec_directives` | `ImplementsDirectives`: the setters refine spec 4.3 | violation |
| `boot` | `TypeOK`, `ReexecCarriesSettings`, `ReloadReplyAfterReload`, `RequestsAnswered` over every boot of the inputs, every start-up failure and load outcome, two clients' calls against shutdown requests, loop failures and crashes, and one re-exec | pass: 329 862 states |

`device_mirror`, `condition_probes`, `fragment_load` and `exec_directives`
each check a conjunction or a refinement.  TLC reports the first divergence it
reaches.  Each divergence below was also reproduced on its own, with the
others patched out of a copy of the module.

What the violations show:

1. **device_mirror** diverges in three ways.
   * *A preloaded unit.*  `device_process_removed_device` finds a unit only by
     the name made from the sysfs path.  `device_process_new_device` gives
     that name only to a unit it creates.  So a unit that existed before the
     device keeps "available" after the device is removed.
   * *A moved link.*  The second device's add event adopts the first
     device's unit through the shared link.  The unit keeps the first
     device's sysfs name, and the first device's remove then kills the unit of
     a device that is still present.
   * *A change leak.*  A change event of a device whose unit was matched
     through a shared link allocates a new unit with the same sysfs path.
     Every name is then -EEXIST and ignored, so two units track one device.
2. **condition_probes** breaks in four independent ways.  Each is violated by a single condition:
   * `ConditionPathIsDirectory=` is true for a path that does not exist, because an `lstat` failure returns `!negate`.
   * `ConditionDirectoryNotEmpty=` is true for a regular file, because -ENOTDIR is not -ENOENT and not > 0.
   * `ConditionKernelCommandLine=` is always false in a virtual machine.
   * `ConditionVirtualization=kvm` on bare metal compares against an uninitialized pointer.  The model's result is `Undefined`, which matches no spec answer.
3. **fragment_load** diverges in two ways.
   * `open_follow` fails with `ELOOP` on a chain of eight symlinks.  The
     counter is checked before the open, so only seven hops are followed
     where spec 4.3 says eight.
   * `merge_by_names` merges `u` into the owner of a symlink name and goes on
     with the next name.  When that next merge fails, it returns the error,
     and `unit_load` marks `u` failed although its names already belong to
     another unit.
4. **fsckd_kick.**
   * `client->buflen` keeps the last short size even after a whole record is read.
   * A client that once wrote a record in two pieces is kicked off the first time a later record's first piece has the same size.
   * The comment says a client is kicked only after getting "twice the same size".
5. **exec_directives** diverges in five ways.
   * `Nice=-20` is stored, but `config_parse_nice` sets `nice_set` to false.
     So a valid priority is never applied.
   * `CPUAffinity=` with a bad word leaves an allocated empty CPU set where
     there was none.
   * `SecureBits=keep-caps bogus` keeps `keep-caps`, where spec 4.3 skips the
     invalid value.
   * `CapabilityBoundingSetDrop=31` drops every capability from 31 to 63,
     because `1 << 31` is `INT_MIN` sign-extended.  32 and above shift an
     `int` out of range.
   * `ExecStart=/bin/a ; x` appends `/bin/a`, and then returns on the bad
     second command.  The log says the line is ignored, and spec 4.3 says
     it is skipped.

Every property of a passing run has a mutant in `PROJECT.json`. Each mutant is a plausible bug in the mapped code, and TLC finds the property violated with it:

* a look-up ignoring the sysfs check;
* a remove that does not set the unit dead;
* an inverted coldplug;
* `triggered` starting at 0;
* `condition_test_list` returning the last result instead of the conjunction;
* a unit id made from the whole path;
* `open_follow` collecting only the final name;
* the unit-path search skipping every error, not only `ENOENT`;
* the session id keeping (or always losing) its mode character;
* the emptiness test ignoring master;
* `session_remains` without its `break`;
* a buffer of exactly one record taken as short;
* the minimum percentage starting at 0;
* the disconnect path not updating the console;
* the end of stream not removing the client;
* `IOSchedulingClass=` stored without its range check;
* `Nice=` checked against `PRIO_MAX` inclusive;
* `SyslogLevel=` overwriting the facility half;
* `config_parse_exec` without its empty-argv check, so `@/bin/a` alone is appended;
* the mode left unset before the config file is chosen;
* `--show-status=0` not passed on re-exec;
* `Reload` replying at once instead of stashing the reply;
* `manager_free` skipped at `finish:`.

The `Reload` handler's `assert(!m->queued_message)` is modelled, but nothing
checks it.  What keeps it from firing is that `bus_dispatch` sends the stashed
reply before it dispatches another call.  `bus_dispatch` is in `dbus.c`, which
is not in the tree, and it is written from the spec, so the assert cannot fail
in the model whatever this tree's code does.
`RequestsAnswered` holds only because `manager_free` runs on every path to
`finish:`.  PID 1 then freezes, and with its connections left open the
callers would wait forever.  The one end where that does happen is a crash
of PID 1: `crash()` freezes with the connections open.  `RequestsAnswered`
excludes it, and the hazard list records it.  Before `install_crash_handler`,
and in a re-executed image until it reaches it again, a crash of PID 1 panics
the kernel; the model reaches that window, and the hazard list records it.

## Bounds

**Device.** Two devices and three units are enough for each case that matters:

* two devices to share a name;
* a third unit for the duplicate allocation.

`MaxQueue = 3` lets an add, change and remove of one device be pending together. Plug, unplug and change keep firing, so the state space is closed by the queue bound.

**Condition.** One path takes each of the four statuses. One key with one value gives the bare and the `KEY=VALUE` forms and both the match and the mismatch. The virtualization outcomes are error, none and found.

Lists of two conditions cover both orders of trigger and non-trigger.

**FragmentLoader.** Two lookup directories are needed for precedence and for
`ENOENT` falling through.  A third directory outside the path is needed for
absolute creation paths and symlink targets.

The six varying entries cover these cases:

* a name present in one or both directories;
* a link to a name that is a file elsewhere;
* a link to `/dev/null`;
* an open error.

Three units let a load merge two others.  Units are symmetric: nothing in the
loader depends on which unit pointer is allocated.  The chain run uses eight
symlinks, the first count beyond the code's limit.

**PamSession.** Three logins are needed for the cases that matter:

* a login (`l1`, audit session 1) and a `su` nested in it (`l2`, the same audit id, so the same session group, not created by it);
* a login without an audit id (`l3`), whose counter id 1 would clash with audit id 1 if the suffix were lost.

The second audit assignment gives `l2` no audit id, so the counter file is
read back and incremented.

Each login's service line (`MCServices`) is one of four argvs:

* no arguments (the defaults);
* `kill-session=1`, which at close also means kill-user;
* `controllers=cpu create-session=0`, whose caller goes to master;
* for `l1` and `l2`, `kill-user=no kill-user=yes` (the last one wins);
* for `l3`, `kill-user=1 kill=yes`, which `parse_argv` refuses at the unknown key.

One shell per login lets processes linger after a close.  `MaxCounter = 2`
covers every counter value three logins can reach.

**Fsckd.** Two clients are enough:

* one can be kicked or gone while the other is still counted;
* the minimum ranges over two percentages.

Records of two units allow a split write.  `fsckd_clients` lets each client
send one record, which keeps the liveness check small.  `fsckd_kick` allows
two records, the fewest for a stale `buflen`.  `fsckd_clients` starts the
daemon with no, one and two passed sockets.  Its command lines run it, ask for
`--help`, or give a bad option, and every set-up step may fail.
`fsckd_kick` starts it activated and running, since the kick happens in the
loop.

**ExecContext.** `MaxLines = 2`: two lines are the fewest in which a later
directive can overwrite what an earlier one set, such as the two halves of
`ioprio` or of `syslog_priority`.  `NCPUS = 2` gives an in-range and an
out-of-range CPU.  `CAP_LAST_CAP = 33` puts the 31/32 shift boundary inside
the capability range.

**Boot.** The inputs cover the ways each input source is read:

* config files: one empty, and one that sets `ShowStatus=` and whose bad
  `CPUAffinity=` hides the line after it;
* kernel command lines: none, and one with `systemd.unit=` overridden by
  `single`, `console=`, `quiet`, and a bad and an unknown `systemd.` word;
* argvs: one per option kind, including `--show-status=0` (which only argv
  can set against the config), `--deserialize -1`, a bad option and a
  kernel word passed to PID 1;
* shutdown requests from outside the bus: one verb (`EventVerbs`), since the
  four verbs take the same path through `main()`.

`MaxGenerations = 2` allows one re-exec, the fewest that let a generation
inherit settings.  Two clients (`Clients`) and two calls in all
(`MaxCalls = 2`) are the fewest for two `Reload` calls queued together, and
for a `Reload` followed by `Exit` or `Reexecute`.  They also let a call be
pending when the loop ends.  The call is made only while `main()` is in its
main loop.  A call made during activation would only wait in the queue.

## Fairness

`Fsckd` and `Boot` assume fairness.  `Spec` there has weak fairness on the
disjunction of the daemon's handlers, for two reasons:

* sd-event dispatches a ready source;
* the idle timer fires once no source has been ready for `IDLE_TIME_SECONDS`.
* `main()` runs on to the loop or to its exit: `Startup` is part of the
  disjunction.

The clients get no fairness.  An fsck process may stall forever, and the
timeout must still end the loop.

In `Boot`, `main()` is one single-threaded process.  Each of its steps that
stays enabled is taken: start-up, activation, `bus_dispatch`, the return of
`manager_loop`, and `finish:`.  Bus clients and outside events (shutdown
requests, loop failures, crash signals) get no fairness.  `RequestsAnswered` asks only that
a call made is answered.

PamSession runs with `CHECK_DEADLOCK FALSE`, since every behaviour ends with
every login closed or failed and every process exited.  The same holds for the
fragment runs, where loading ends.  The ExecContext run stops after `MaxLines`
lines, the length of the unit file.  Boot stops when `main()` has exec'ed
another program, frozen PID 1 or returned.

## Plan

Done: `Device`, `Condition`, `FragmentLoader`, `PamSession`, `Fsckd`,
`ExecContext` (with `ExecStart=`) and its abstract `ExecDirectives`, `Boot`, and the
state-changing part of `ManagerBus`.  Still to build:

1. **The rest of `ManagerBus`**: `SetEnvironment`/`UnsetEnvironment`, and
   the `NEED_MEMORY` retry.  A retried `Subscribe` whose reply allocation
   failed after `set_put` would get `-EEXIST`.  Subscribers are also not
   carried across a re-exec.
2. **Boot properties** for the hazards listed without a property:
   * a lost serialization restarting the default target;
   * the config file chosen before `--system`/`--user`;
   * `console=ttyN,options` keeping a VT.
3. **`JobEngine`** (from `spec.md` only, since that code is not in the tree).
   An abstract start/stop promise and a detailed job queue shown to refine it.

## Not modelled

* **The rest of the Manager bus API.**  The read-only methods (`GetUnit`,
  `ListUnits`, `ListJobs`, `Dump`, `Introspect`) change nothing.  `LoadUnit`
  and the job methods need the unit registry and the job engine, whose code
  is not in the tree.  A failed `manager_reload` still gets a success reply.
  That is listed as a hazard, since nothing in the tree says otherwise.
* **The one-shot tools** (`binfmt.c`, `modules-load.c`, `cgroups-agent.c`).
  They read files and write them to the kernel. Nothing in them is concurrent or kept between runs.
* **The other `config_parse_*` callbacks** of `load-fragment.c`.  The
  string, path, strv and boolean setters copy their rvalue into the unit.
  The listen, socket, timer and path-unit parsers build objects of unit types
  (sockets, timers, paths) whose code is not in the tree.  None of them has a
  guard or a partial result that a property could tell apart.
* **What the OS set-up in `main()` does** (`selinux_setup`, `mount_setup`,
  `console_setup`, the ignored signals).  These are calls into the kernel;
  only their failure, which ends `main()` through `finish:`, is modelled.
* **`dbus.h`, `home/*.h`, `analyze/`, `test/`.**
  These are declarations, offline tools and unit tests.
* **Loss of uevents when the netlink socket overflows.**
  The code has no recovery path to model.
