--------------------------- MODULE MCExecContext ---------------------------
(* Two CPUs, the capability numbers around the int sign bit, and for each *)
(* directive a valid value, the values just past each end of its range     *)
(* and an rvalue that does not parse.                                      *)
EXTENDS ExecContext, TLC

(* ExecStart= words: "/bin/a", "-/bin/a", "@/bin/a", an argument "x"    *)
(* and ";".                                                              *)
MCWord(n, lead, abs) == [name |-> n, lead |-> lead, abs |-> abs]
Bin      == MCWord("/bin/a", <<>>, TRUE)
IgnBin   == MCWord("/bin/a", <<"-">>, TRUE)
Argv0Bin == MCWord("/bin/a", <<"@">>, TRUE)
Arg      == MCWord("x", <<>>, FALSE)
Semi     == MCWord(";", <<>>, FALSE)   \* the value of Sep

MCInputs ==
    [d \in {"Nice", "OOMScoreAdjust", "UMask", "SyslogFacility", "SyslogLevel",
            "IOSchedulingClass", "IOSchedulingPriority", "CPUSchedulingPolicy",
            "CPUSchedulingPriority", "CPUAffinity", "SecureBits",
            "CapabilityBoundingSetDrop", "LimitNOFILE", "KillSignal",
            "ExecStart", "FsckPassNo"} |->
        CASE d = "Nice" -> {Junk, -21, -20, 19, 20}
          [] d = "OOMScoreAdjust" -> {-1001, 1000, 1001}
          [] d = "UMask" -> {Junk, 18, 4095, 4096}
          [] d = "SyslogFacility" -> {"local0", "bogus"}
          [] d = "SyslogLevel" -> {"debug", "bogus"}
          [] d = "IOSchedulingClass" -> {"idle", "bogus"}
          [] d = "IOSchedulingPriority" -> {7, 8}
          [] d = "CPUSchedulingPolicy" -> {"fifo", "bogus"}
          [] d = "CPUSchedulingPriority" -> {0, 99}
          [] d = "CPUAffinity" -> {<<>>, <<1>>, <<0, 2>>, <<Junk>>}
          [] d = "SecureBits" -> {<<"noroot">>, <<"keep-caps", "bogus">>}
          [] d = "CapabilityBoundingSetDrop" -> {<<0>>, <<30, 31>>, <<32>>, <<Junk>>}
          [] d = "LimitNOFILE" -> {Junk, 1024}
          [] d = "KillSignal" -> {"KILL", "SIGHUP", "bogus"}
          [] d = "FsckPassNo" -> {Junk, -1, 2}
          [] d = "ExecStart" -> {<<>>, <<IgnBin, Arg>>, <<Argv0Bin>>,
                                 <<Argv0Bin, Arg, Semi, Bin>>,
                                 <<Bin, Semi, Arg>>}]
=============================================================================
