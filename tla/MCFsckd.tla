------------------------------- MODULE MCFsckd -------------------------------
(* Two fsck clients, records of two units, two progress values (pass 1    *)
(* half done and pass 2 started), at most two records per client; started *)
(* with no, one or two passed sockets, to run, for --help or with a bad    *)
(* option.                                                                 *)
EXTENDS Fsckd

CONSTANTS c1, c2

MCClients == {c1, c2}
MCProgress == {[pass |-> 1, cur |-> 1, max |-> 2], [pass |-> 2, cur |-> 0, max |-> 1]}
MCAcceptAll == {"ok", "accept_failed", "add_io_failed"}
MCAcceptOk == {"ok"}
MCListenFds == {0, 1, 2}
MCListenActivated == {1}
MCArgvResults == {"run", "help", "invalid"}
MCArgvRun == {"run"}
=============================================================================
