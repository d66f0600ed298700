------------------------------- MODULE MCBoot -------------------------------
(* Boots for TLC: PID 1 or not, invoked as init or as systemd, a config     *)
(* file whose CPUAffinity= stops the lines after it, a kernel command line  *)
(* with systemd.unit=, a runlevel word, quiet, console= and bad values, two *)
(* bus clients making two calls between them, and argvs that                *)
(* set the mode, the unit and the switches, give a bad option, ask for help *)
(* or test mode, or hand over a serialization fd.                           *)
EXTENDS Boot, TLC

Opt(o) == [opt |-> o, arg |-> NoArg]
OptArg(o, a) == [opt |-> o, arg |-> a]
Word(k, v) == [key |-> k, val |-> v]

MCNames == {"init", "systemd"}

MCConfigFiles ==
    { [system |-> << >>, user |-> << >>],
      [system |-> << Word("ShowStatus", "no"), Word("CPUAffinity", "bad"),
                     Word("DumpCore", "no") >>,
       user |-> << Word("CrashShell", "yes"), Word("DumpCore", "no") >>] }

MCCmdlines ==
    { << >>,
      << Word("systemd.unit", "multi-user.target"), Word("single", ""),
         Word("console", [vt |-> FALSE, dev |-> "ttyS0"]), Word("quiet", ""),
         Word("systemd.crash_shell", "1"), Word("systemd.dump_core", "maybe"),
         Word("systemd.bogus", "1") >> }

MCArgvs ==
    { << >>,
      << Opt("--user"), Opt("--confirm-spawn"), OptArg("--show-status", "0") >>,
      << OptArg("--unit", "graphical.target"), Opt("--system"), Opt("--test") >>,
      << OptArg("--deserialize", -1), OptArg("--unit", "graphical.target") >>,
      << OptArg("--show-status", "maybe") >>,
      << Opt("--help") >>,
      << [opt |-> "word", arg |-> "single"] >> }

MCUnits == {"multi-user.target", "graphical.target"}

=============================================================================
