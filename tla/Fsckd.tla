-------------------------------- MODULE Fsckd --------------------------------
(***************************************************************************)
(* The fsck progress daemon (src/fsckd/fsckd.c).                           *)
(*                                                                         *)
(* fsck clients connect to the daemon's stream socket and send fixed-size *)
(* FsckProgress records.  The daemon runs one sd-event loop: the listening *)
(* socket's handler (new_connection_handler) accepts a client, a client's *)
(* handler (progress_handler) reads one record or notices a short read or  *)
(* the end of the stream, and sd_event_run returning 0 after              *)
(* IDLE_TIME_SECONDS without an event ends the loop.  Each handler is one  *)
(* step; the clients write, and close, concurrently with them.  Before the *)
(* loop, main() parses argv, takes the socket passed by socket activation *)
(* or makes its own, and sets up the manager; a failure there exits.      *)
(*                                                                         *)
(* A record is MsgUnits units long; a stream is the sequence of units in   *)
(* the client's socket buffer, each unit carrying the record it belongs    *)
(* to.  FIONREAD is the length of that sequence.  Percentages are exact    *)
(* rationals.                                                              *)
(***************************************************************************)
EXTENDS Integers, FiniteSets, Sequences, SequencesExt

CONSTANTS
    Clients,        \* the fsck processes
    MsgUnits,       \* sizeof(FsckProgress), in units
    Progress,       \* the [pass, cur, max] values a client may send
    MaxMsgs,        \* bound on the records each client sends
    AcceptResults,  \* how new_connection_handler may end
    ListenFds,      \* the numbers of sockets the daemon may be started with
    ArgvResults     \* what the command line asks for

ASSUME MsgUnits \in Nat /\ MsgUnits >= 2
ASSUME Progress \subseteq [pass : Int, cur : Nat, max : Nat]
ASSUME AcceptResults \subseteq {"ok", "accept_failed", "add_io_failed"}
ASSUME ListenFds \subseteq Nat
ASSUME ArgvResults \subseteq {"run", "help", "version", "invalid"}

(* A percentage num/den with den > 0. *)
Pct(num, den) == [num |-> num, den |-> den]
PctLeq(a, b) == a.num * b.den <= b.num * a.den
PctDiffers(a, b) == a.num * b.den # b.num * a.den
IDLE_PERCENT == Pct(100, 1)

VARIABLES
    cstate,     \* client side: idle, open (connected), hungup, refused
    backlog,    \* connections waiting in the listening socket's queue
    stream,     \* stream[c]: the units in c's socket buffer
    part,       \* units still to write of c's current record
    partMsg,    \* the record c is in the middle of writing
    msgs,       \* records c has started
    list,       \* m->clients
    closed,     \* clients whose fd the daemon has closed
    rec,        \* rec[c]: c's Client struct (buflen, percent)
    listening,  \* the listening socket's event source is enabled
    display,    \* m->numdevices and m->percent, what the console shows
    phase,      \* the daemon: start (in main before the loop), loop, exited
    status,     \* main()'s exit status, once exited
    listen_fds, \* sd_listen_fds(0): the sockets passed at start
    sock,       \* the listening socket: none, activated (passed), own, closed
    seen        \* FIONREAD at the daemon's previous call for c

vars == <<cstate, backlog, stream, part, partMsg, msgs, list, closed, rec,
          listening, display, phase, status, listen_fds, sock, seen>>

(* The event loop runs. *)
running == phase = "loop"

(* The socket exists and takes connections. *)
SocketUp == sock \in {"activated", "own"}

-----------------------------------------------------------------------------
(* compute_percent: the e2fsck pass table, interpolated within a pass. *)
pass_table == <<0, 70, 90, 92, 95, 100>>   \* pass_table[i] of the C is pass_table[i+1]

compute_percent(pass, cur, max) ==
    IF pass <= 0 THEN Pct(0, 1)
    ELSE IF pass >= Len(pass_table) \/ max = 0 THEN Pct(100, 1)
    ELSE Pct(pass_table[pass] * max + (pass_table[pass + 1] - pass_table[pass]) * cur, max)

(* The smallest percentage of a set, 100 for none. *)
MinPct(S) ==
    IF S = {} THEN IDLE_PERCENT
    ELSE CHOOSE x \in S : \A y \in S : PctLeq(x, y)

(* Mutant: the minimum starts at 0 instead of 100. *)
update_global_progress_from_zero(l, r, disp) ==
    LET cur == [numdevices |-> Cardinality(l),
                percent |-> MinPct({r[c].percent : c \in l} \cup {Pct(0, 1)})]
    IN IF PctDiffers(cur.percent, disp.percent) \/ cur.numdevices # disp.numdevices
       THEN cur ELSE disp

(* update_global_progress: count the clients and take the minimum          *)
(* percentage; the console is rewritten when either changed.               *)
update_global_progress(l, r, disp) ==
    LET cur == [numdevices |-> Cardinality(l),
                percent |-> MinPct({r[c].percent : c \in l} \cup {IDLE_PERCENT})]
    IN IF PctDiffers(cur.percent, disp.percent) \/ cur.numdevices # disp.numdevices
       THEN cur ELSE disp

(* The daemon's part of the state a handler changes. *)
DaemonState == [list |-> list, closed |-> closed, rec |-> rec, display |-> display,
                stream |-> stream]

(* remove_client: unlink it and close its fd. *)
remove_client(s, c) == [s EXCEPT !.list = @ \ {c}, !.closed = @ \cup {c}]

WithUpdate(s) == [s EXCEPT !.display = update_global_progress(s.list, s.rec, s.display)]

(* Fewer than sizeof(FsckProgress) bytes are waiting: remember the size,  *)
(* or, if it is the size seen last time, kick the client off.              *)
progress_handler_short(s, c, n) ==
    IF s.rec[c].buflen # n
    THEN [s EXCEPT !.rec[c].buflen = n]
    ELSE WithUpdate(remove_client(s, c))

(* Mutant: the disconnect branch does not update the global progress. *)
progress_handler_eof_no_update(s, c) == remove_client(s, c)

(* Mutant: the end of the stream is not handled, the client stays. *)
progress_handler_eof_keep(s, c) == WithUpdate(s)

(* recv returns 0: the client disconnected. *)
progress_handler_eof(s, c) == WithUpdate(remove_client(s, c))

(* A whole record is read and the client's percentage recomputed. *)
progress_handler_read(s, c) ==
    LET p == s.stream[c][1]
    IN WithUpdate([s EXCEPT !.stream[c] = SubSeq(@, MsgUnits + 1, Len(@)),
                            !.rec[c].percent = compute_percent(p.pass, p.cur, p.max)])

(* Mutant: a buffer of exactly one record counts as short. *)
progress_handler_leq(s, c) ==
    LET n == Len(s.stream[c]) IN
    IF n # 0 /\ n <= MsgUnits THEN progress_handler_short(s, c, n)
    ELSE IF n = 0 THEN progress_handler_eof(s, c)
    ELSE progress_handler_read(s, c)

(* progress_handler: FIONREAD, then the short-read check, then recv. *)
progress_handler(s, c) ==
    LET n == Len(s.stream[c]) IN
    IF n # 0 /\ n < MsgUnits THEN progress_handler_short(s, c, n)
    ELSE IF n = 0 THEN progress_handler_eof(s, c)
    ELSE progress_handler_read(s, c)

(* A client's fd is readable: data is waiting or the client hung up. *)
Readable(c) == c \in list /\ (stream[c] # <<>> \/ cstate[c] = "hungup")

(* The listening socket is readable and its source enabled. *)
Acceptable == listening /\ backlog # <<>>

NewClient == [buflen |-> 0, percent |-> Pct(0, 1)]

-----------------------------------------------------------------------------
(* new_connection_handler: accept4 the first queued connection and add its *)
(* event source.  On failure the handler returns an error, which makes     *)
(* sd-event disable the listening source.                                  *)
NewConnection ==
    /\ running
    /\ Acceptable
    /\ LET c == Head(backlog) IN
       \E res \in AcceptResults :
         /\ backlog' = IF res = "accept_failed" THEN backlog ELSE Tail(backlog)
         /\ list' = IF res = "ok" THEN list \cup {c} ELSE list
         /\ closed' = IF res = "add_io_failed" THEN closed \cup {c} ELSE closed
         /\ rec' = IF res = "accept_failed" THEN rec ELSE [rec EXCEPT ![c] = NewClient]
         /\ listening' = (res = "ok")
    /\ UNCHANGED <<cstate, stream, part, partMsg, msgs, display, phase, status, listen_fds,
                   sock, seen>>

(* progress_handler for a readable client. *)
ProgressEvent(c) ==
    /\ running
    /\ Readable(c)
    /\ LET s == progress_handler(DaemonState, c) IN
       /\ list' = s.list
       /\ closed' = s.closed
       /\ rec' = s.rec
       /\ display' = s.display
       /\ stream' = s.stream
    /\ seen' = [seen EXCEPT ![c] = Len(stream[c])]
    /\ UNCHANGED <<cstate, backlog, part, partMsg, msgs, listening, phase, status,
                   listen_fds, sock>>

(* The daemon's process ends with status st, s being its listening socket: *)
(* manager_free (or the exit) closes every client and the socket.  A       *)
(* socket of its own goes, and the connections queued on it are reset; an  *)
(* activated socket is held by the service manager too and keeps them.     *)
ProcessExit(st, s) ==
    /\ phase' = "exited"
    /\ status' = st
    /\ listening' = FALSE
    /\ sock' = IF s = "own" THEN "closed" ELSE s
    /\ backlog' = IF s = "own" THEN << >> ELSE backlog
    /\ closed' = closed \cup list \cup (IF s = "own" THEN Range(backlog) ELSE {})
    /\ list' = {}

(* parse_argv: 1 to run, 0 after --help or --version, -EINVAL for a bad    *)
(* option or an extraneous argument.                                       *)
parse_argv(res) ==
    CASE res = "run" -> 1
      [] res \in {"help", "version"} -> 0
      [] OTHER -> -1

(* main() up to run_event_loop_with_timeout.  More than one passed socket  *)
(* is refused; with none, make_socket_fd creates the socket.  manager_new  *)
(* fails on allocation, on sd_event_default or when /dev/console cannot be *)
(* opened, and sd_event_add_io on the socket may fail: each exits.         *)
Startup ==
    /\ phase = "start"
    /\ \E res \in ArgvResults :
         LET r == parse_argv(res) IN
         IF r <= 0 THEN ProcessExit(IF r < 0 THEN "failure" ELSE "success", sock)
         ELSE IF listen_fds > 1 THEN ProcessExit("failure", sock)
         ELSE \E sockok, managerok, addok \in BOOLEAN :
                LET s == IF listen_fds = 1 THEN "activated"
                         ELSE IF sockok THEN "own" ELSE "none"
                IN IF s = "none" THEN ProcessExit("failure", s)
                   ELSE IF ~managerok \/ ~addok THEN ProcessExit("failure", s)
                   ELSE /\ phase' = "loop"
                        /\ sock' = s
                        /\ listening' = TRUE
                        /\ UNCHANGED <<status, backlog, closed, list>>
    /\ UNCHANGED <<cstate, stream, part, partMsg, msgs, rec, display, listen_fds, seen>>

(* sd_event_run returns 0: no source became ready for IDLE_TIME_SECONDS.   *)
(* The loop exits with code 0 and main() returns EXIT_SUCCESS.             *)
IdleTimeout ==
    /\ running
    /\ ~Acceptable
    /\ \A c \in list : ~Readable(c)
    /\ ProcessExit("success", sock)
    /\ UNCHANGED <<cstate, stream, part, partMsg, msgs, rec, display, listen_fds, seen>>

-----------------------------------------------------------------------------
(* The fsck clients. *)
Connect(c) ==
    /\ cstate[c] = "idle"
    /\ cstate' = [cstate EXCEPT ![c] = IF SocketUp THEN "open" ELSE "refused"]
    /\ backlog' = IF SocketUp THEN Append(backlog, c) ELSE backlog
    /\ UNCHANGED <<stream, part, partMsg, msgs, list, closed, rec, listening,
                   display, phase, status, listen_fds, sock, seen>>

Units(p, k) == [i \in 1..k |-> p]

(* Write the first k units of a new record, or the rest of the current    *)
(* one.  Writes stop once the daemon has closed the connection (EPIPE).    *)
Write(c) ==
    /\ cstate[c] = "open"
    /\ c \notin closed
    /\ \/ /\ part[c] = 0
          /\ msgs[c] < MaxMsgs
          /\ \E p \in Progress, k \in 1..MsgUnits :
               /\ stream' = [stream EXCEPT ![c] = @ \o Units(p, k)]
               /\ part' = [part EXCEPT ![c] = MsgUnits - k]
               /\ partMsg' = [partMsg EXCEPT ![c] = p]
               /\ msgs' = [msgs EXCEPT ![c] = @ + 1]
       \/ /\ part[c] > 0
          /\ stream' = [stream EXCEPT ![c] = @ \o Units(partMsg[c], part[c])]
          /\ part' = [part EXCEPT ![c] = 0]
          /\ UNCHANGED <<partMsg, msgs>>
    /\ UNCHANGED <<cstate, backlog, list, closed, rec, listening, display,
                   phase, status, listen_fds, sock, seen>>

(* The fsck process finishes and closes its end. *)
Hangup(c) ==
    /\ cstate[c] = "open"
    /\ cstate' = [cstate EXCEPT ![c] = "hungup"]
    /\ UNCHANGED <<backlog, stream, part, partMsg, msgs, list, closed, rec,
                   listening, display, phase, status, listen_fds, sock, seen>>

Init ==
    /\ cstate = [c \in Clients |-> "idle"]
    /\ backlog = <<>>
    /\ stream = [c \in Clients |-> <<>>]
    /\ part = [c \in Clients |-> 0]
    /\ partMsg = [c \in Clients |-> CHOOSE p \in Progress : TRUE]
    /\ msgs = [c \in Clients |-> 0]
    /\ list = {}
    /\ closed = {}
    /\ rec = [c \in Clients |-> NewClient]
    /\ listening = FALSE
    /\ display = [numdevices |-> 0, percent |-> IDLE_PERCENT]
    /\ phase = "start"
    /\ status = "none"
    /\ listen_fds \in ListenFds
    /\ sock = IF listen_fds >= 1 THEN "activated" ELSE "none"
    /\ seen = [c \in Clients |-> 0]

DaemonStep == Startup \/ NewConnection \/ (\E c \in Clients : ProgressEvent(c)) \/ IdleTimeout

Next ==
    \/ DaemonStep
    \/ \E c \in Clients : Connect(c) \/ Write(c) \/ Hangup(c)

(* The event loop dispatches whatever source is ready and the idle timer  *)
(* fires when none is; the fsck clients owe nothing.                       *)
Spec == Init /\ [][Next]_vars /\ WF_vars(DaemonStep)

-----------------------------------------------------------------------------
TypeOK ==
    /\ cstate \in [Clients -> {"idle", "open", "hungup", "refused"}]
    /\ backlog \in Seq(Clients)
    /\ stream \in [Clients -> Seq(Progress)]
    /\ part \in [Clients -> 0..(MsgUnits - 1)]
    /\ msgs \in [Clients -> 0..MaxMsgs]
    /\ list \subseteq Clients /\ closed \subseteq Clients
    /\ rec \in [Clients -> [buflen : 0..(MsgUnits - 1), percent : [num : Nat, den : Nat \ {0}]]]
    /\ listening \in BOOLEAN
    /\ phase \in {"start", "loop", "exited"}
    /\ status \in {"none", "success", "failure"}
    /\ listen_fds \in ListenFds
    /\ sock \in {"none", "activated", "own", "closed"}
    /\ display.numdevices \in 0..Cardinality(Clients)

(* The console never counts a disk whose fsck is gone: every path that   *)
(* removes a client (disconnect, bad client) updates the global progress. *)
DisplayNoStaleDevices == running => display.numdevices <= Cardinality(list)

(* When the console counts every client, it shows the slowest one: the   *)
(* minimum of the clients' percentages, 100 with none.                     *)
DisplayShowsSlowest ==
    display.numdevices = Cardinality(list) =>
        ~PctDiffers(display.percent, MinPct({rec[c].percent : c \in list} \cup {IDLE_PERCENT}))

(* The daemon exits: a client that hangs up or stalls is removed, and the *)
(* idle timeout ends the loop once nothing is ready.                       *)
Termination == <>(phase = "exited")

(* A client is kicked off as bad behaving only if the daemon's previous   *)
(* call for it saw the same short size, i.e. nothing arrived in between   *)
(* ("we got twice the same size").                                         *)
KickOnlyWhenStuck ==
    [][\A c \in Clients :
         (/\ running' /\ c \in list /\ c \notin list'
          /\ stream[c] # <<>> /\ Len(stream[c]) < MsgUnits)
         => seen[c] = Len(stream[c])]_vars
=============================================================================
