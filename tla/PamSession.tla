----------------------------- MODULE PamSession -----------------------------
(***************************************************************************)
(* The PAM session module (src/pam-module.c) for the logins of one user.   *)
(*                                                                         *)
(* Each login is one PAM handle: pam_sm_open_session, then (if the open   *)
(* succeeded) pam_sm_close_session, both called by the login's caller     *)
(* process.  Both calls hold RUNTIME_DIR/user/.pam-systemd-lock (flock)    *)
(* from before their first effect to the end, so each is one atomic step.  *)
(* What runs concurrently with them are the user's processes: the shell a  *)
(* login starts (fork inherits the cgroup) and processes exiting.         *)
(*                                                                         *)
(* The cgroup tree of the user is /user/$USER with one level of           *)
(* subgroups: "master" and one per session id.  cg_* are taken with their *)
(* effect on that tree: create (returns 1 when the group is new), attach, *)
(* kill recursively, migrate and delete the source, trim the empty         *)
(* subgroups, test for emptiness.                                          *)
(***************************************************************************)
EXTENDS Integers, FiniteSets, Sequences, SequencesExt

CONSTANTS
    Logins,        \* the PAM handles of the user
    AuditChoices,  \* the /proc/self/sessionid values of the callers, 0 if unset
    Services,      \* Services[l]: the argvs l's PAM service line may pass
    MaxCounter,    \* bound on the session counter file's value
    RandomValues,  \* the values random_ull() may return
    Master,        \* the subgroup "master"
    Outside,       \* a cgroup outside /user (the caller before the open)
    Root,          \* /user, where a closing caller moves itself
    Unborn, Dead,  \* a shell not forked yet, an exited process
    NoId,          \* no XDG_SESSION_ID in the handle
    NoLogin

ASSUME AuditChoices \subseteq [Logins -> Nat]
ASSUME \A l \in Logins : Services[l] \subseteq Seq([key : STRING, val : STRING])
ASSUME MaxCounter \in Nat \ {0}

(* The session id string "%llux" with its last character replaced by the   *)
(* mode, or cut off for an audit id: the digits and the suffix.            *)
SESSION_ID_AUDIT == "a"
SESSION_ID_COUNTER == "c"
SESSION_ID_RANDOM == "r"

SessionIds == [n : (1..MaxCounter) \cup RandomValues \cup UNION {Range(a) : a \in AuditChoices}, suffix : {"", "c", "r"}]
Groups == SessionIds \cup {Master}
Procs == Logins \X {"caller", "shell"}
Locations == Groups \cup {Outside, Root, Unborn, Dead}

caller(l) == <<l, "caller">>
shell(l) == <<l, "shell">>

VARIABLES
    opts,        \* the argv each handle's PAM service passes to both calls
    audit,       \* audit[l]: the audit session id of l's caller
    pc,          \* idle, open, failed (open returned an error) or closed
    sid,         \* XDG_SESSION_ID in the handle's environment
    created,     \* the handle's "systemd.created" data
    runtime_env, \* XDG_RUNTIME_DIR set in the handle
    counter,     \* RUNTIME_DIR/user/.pam-systemd-session, 0 when empty
    randomUsed,  \* random ids already handed out
    runtimeDir,  \* RUNTIME_DIR/user/$USER exists
    userGroup,   \* /user/$USER exists
    groups,      \* the subgroups of /user/$USER
    loc,         \* the cgroup of each process
    madeBy       \* the login whose open made each existing subgroup

vars == <<opts, audit, pc, sid, created, runtime_env, counter, randomUsed, runtimeDir,
          userGroup, groups, loc, madeBy>>

-----------------------------------------------------------------------------
(* parse_boolean (util.c): 1, 0, or -1 for a word that is neither. *)
parse_boolean(v) ==
    CASE v \in {"1", "yes", "y", "true", "t", "on"}  -> 1
      [] v \in {"0", "no", "n", "false", "f", "off"} -> 0
      [] OTHER -> -1

(* The loop of parse_argv over "key=value" arguments: a later argument    *)
(* overrides an earlier one, a bad boolean or an unknown key returns the  *)
(* error.  controllers= names other hierarchies, which are not modelled.  *)
BoolKeys == [k \in {"create-session", "kill-session", "kill-user"} |->
                CASE k = "create-session" -> "create_session"
                  [] k = "kill-session"   -> "kill_session"
                  [] k = "kill-user"      -> "kill_user"]
RECURSIVE parse_args(_, _)
parse_args(o, argv) ==
    IF argv = <<>> \/ ~o.ok THEN o
    ELSE LET a == Head(argv) IN
         parse_args(
             CASE a.key \in DOMAIN BoolKeys /\ parse_boolean(a.val) >= 0 ->
                      [o EXCEPT ![BoolKeys[a.key]] = (parse_boolean(a.val) = 1)]
               [] a.key = "controllers" -> o
               [] OTHER -> [o EXCEPT !.ok = FALSE],
             Tail(argv))

(* parse_argv as the two calls use it.  The open passes only              *)
(* &create_session (default true); the close passes the kill flags        *)
(* (default false), and kill-session then implies kill-user.               *)
ArgvDefaults == [ok |-> TRUE, create_session |-> TRUE,
                 kill_session |-> FALSE, kill_user |-> FALSE]
parse_argv_open(argv) == parse_args(ArgvDefaults, argv)
parse_argv_close(argv) ==
    LET o == parse_args(ArgvDefaults, argv) IN
    [o EXCEPT !.kill_user = o.kill_user \/ o.kill_session]

(* Mutant: the mode character is written for an audit id too. *)
session_id_string_audit_char(n, mode) == [n |-> n, suffix |-> mode]

(* Mutant: every mode's character is cut off, as for an audit id. *)
session_id_string_no_suffix(n, mode) == [n |-> n, suffix |-> ""]

(* buf[strlen(buf)-1] = mode != SESSION_ID_AUDIT ? mode : 0 *)
session_id_string(n, mode) ==
    [n |-> n, suffix |-> IF mode = SESSION_ID_AUDIT THEN "" ELSE mode]

(* get_session_id: the audit id if the caller has one; else the counter    *)
(* file, read (a short read restarts at 1), incremented and written back;  *)
(* if it cannot be opened or written, a random value.  Each outcome is the *)
(* id's value and mode with the counter file and random draws after it.    *)
get_session_id(l) ==
    IF audit[l] > 0
    THEN {[n |-> audit[l], mode |-> SESSION_ID_AUDIT, counter |-> counter,
           randomUsed |-> randomUsed]}
    ELSE LET next == IF counter = 0 THEN 1 ELSE counter + 1 IN
         (IF next <= MaxCounter
          THEN {[n |-> next, mode |-> SESSION_ID_COUNTER, counter |-> next,
                 randomUsed |-> randomUsed]}
          ELSE {})
         \cup
         {[n |-> v, mode |-> SESSION_ID_RANDOM, counter |-> counter,
           randomUsed |-> randomUsed \cup {v}] : v \in RandomValues \ randomUsed}

(* How create_user_group ends: success, cg_create_and_attach failing, or   *)
(* the access mode change failing after the caller is attached.            *)
CreateResults == {"ok", "create_failed", "access_failed"}

(* Mutant: "systemd.created" is set whenever the create succeeds (r >= 0). *)
create_user_group_created_always(g) == TRUE

(* create_user_group(..., attach, remember): r > 0 only for a new group. *)
create_user_group_created(g) == g \notin groups

(* pam_sm_open_session with an argv parse_argv refuses: PAM_SESSION_ERR  *)
(* before anything is created.                                             *)
OpenBadArgv(l) ==
    /\ pc[l] = "idle"
    /\ ~parse_argv_open(opts[l]).ok
    /\ pc' = [pc EXCEPT ![l] = "failed"]
    /\ UNCHANGED <<opts, audit, sid, created, runtime_env, counter, randomUsed,
                   runtimeDir, userGroup, groups, loc, madeBy>>

(* pam_sm_open_session, from taking the lock to releasing it. *)
Open(l) ==
    /\ pc[l] = "idle"
    /\ parse_argv_open(opts[l]).ok
    /\ runtimeDir' = TRUE
    /\ runtime_env' = [runtime_env EXCEPT ![l] = TRUE]
    /\ \E gid \in IF parse_argv_open(opts[l]).create_session THEN get_session_id(l) ELSE {NoId} :
       \E res \in CreateResults :
         LET id == IF gid = NoId THEN NoId ELSE session_id_string(gid.n, gid.mode)
             g == IF gid = NoId THEN Master ELSE id
         IN /\ sid' = [sid EXCEPT ![l] = id]
            /\ counter' = IF gid = NoId THEN counter ELSE gid.counter
            /\ randomUsed' = IF gid = NoId THEN randomUsed ELSE gid.randomUsed
            /\ pc' = [pc EXCEPT ![l] = IF res = "ok" THEN "open" ELSE "failed"]
            /\ IF res = "create_failed"
               THEN UNCHANGED <<created, userGroup, groups, loc, madeBy>>
               ELSE /\ created' = [created EXCEPT ![l] = create_user_group_created(g)]
                    /\ userGroup' = TRUE
                    /\ groups' = groups \cup {g}
                    /\ loc' = [loc EXCEPT ![caller(l)] = g]
                    /\ madeBy' = IF g \in groups THEN madeBy ELSE madeBy @@ (g :> l)
    /\ UNCHANGED <<opts, audit>>

-----------------------------------------------------------------------------
(* session_remains: read the subgroups in directory order until one that   *)
(* is not "master".                                                        *)
(* Mutant: the loop does not break, so the last subgroup read decides.     *)
session_remains_no_break(order) == order # <<>> /\ Last(order) # Master

session_remains(order) == \E i \in 1..Len(order) : order[i] # Master

Killed(l0, in) == [p \in Procs |-> IF l0[p] \in in THEN Dead ELSE l0[p]]
Moved(l0, from, to) == [p \in Procs |-> IF l0[p] = from THEN to ELSE l0[p]]

(* The session part of pam_sm_close_session: a handle that created its     *)
(* session group kills it (kill-session) or moves what is left into master *)
(* and deletes it.  The result is the processes' cgroups and the subgroups.*)
close_session_group(l, l0) ==
    IF sid[l] # NoId /\ created[l]
    THEN IF parse_argv_close(opts[l]).kill_session
         THEN [loc |-> Killed(l0, {sid[l]}), groups |-> groups \ {sid[l]}]
         ELSE [loc |-> Moved(l0, sid[l], Master),
               groups |-> (groups \ {sid[l]}) \cup {Master}]
    ELSE [loc |-> l0, groups |-> groups]

(* cg_trim(user_path, false): remove the empty subgroups, keep /user/$USER. *)
Trimmed(s) == {g \in s.groups : \E p \in Procs : s.loc[p] = g}

(* cg_is_empty_recursive(user_path, true): no process in the user's tree. *)
(* Mutant: only the session groups are looked at, not master.             *)
user_tree_empty_sessions_only(s, trimmed) ==
    ~\E p \in Procs : s.loc[p] \in trimmed \ {Master}

user_tree_empty(s, trimmed) == ~\E p \in Procs : s.loc[p] \in trimmed

(* pam_sm_close_session, from taking the lock to releasing it.  order is  *)
(* the directory order in which session_remains reads the subgroups.       *)
Close(l) ==
    /\ pc[l] = "open"
    /\ loc[caller(l)] # Dead
    /\ LET s == close_session_group(l, [loc EXCEPT ![caller(l)] = Root])
           trimmed == Trimmed(s)
       IN \E order \in SetToSeqs(trimmed) :
          LET remains == session_remains(order)
              killUser == parse_argv_close(opts[l]).kill_user /\ ~remains
              \* r >= 0 after the kill or after a successful delete
              rOk == killUser \/ user_tree_empty(s, trimmed)
          IN /\ loc' = IF killUser THEN Killed(s.loc, trimmed) ELSE s.loc
             /\ groups' = IF rOk THEN {} ELSE trimmed
             /\ userGroup' = (userGroup /\ ~rOk)
             /\ madeBy' = [g \in groups' |-> IF g \in DOMAIN madeBy THEN madeBy[g] ELSE l]
             /\ runtimeDir' = (runtimeDir /\ ~(rOk /\ runtime_env[l]))
    /\ pc' = [pc EXCEPT ![l] = "closed"]
    /\ UNCHANGED <<opts, audit, sid, created, runtime_env, counter, randomUsed>>

-----------------------------------------------------------------------------
(* The user's processes: a login's shell forked by the caller inside its  *)
(* session, and processes exiting.                                        *)
Spawn(l) ==
    /\ pc[l] = "open"
    /\ loc[shell(l)] = Unborn
    /\ loc[caller(l)] \in Groups
    /\ loc' = [loc EXCEPT ![shell(l)] = loc[caller(l)]]
    /\ UNCHANGED <<opts, audit, pc, sid, created, runtime_env, counter, randomUsed,
                   runtimeDir, userGroup, groups, madeBy>>

ShellExit(l) ==
    /\ loc[shell(l)] \notin {Unborn, Dead}
    /\ loc' = [loc EXCEPT ![shell(l)] = Dead]
    /\ UNCHANGED <<opts, audit, pc, sid, created, runtime_env, counter, randomUsed,
                   runtimeDir, userGroup, groups, madeBy>>

(* The caller exits once its PAM calls are over. *)
CallerExit(l) ==
    /\ pc[l] \in {"failed", "closed"}
    /\ loc[caller(l)] # Dead
    /\ loc' = [loc EXCEPT ![caller(l)] = Dead]
    /\ UNCHANGED <<opts, audit, pc, sid, created, runtime_env, counter, randomUsed,
                   runtimeDir, userGroup, groups, madeBy>>

Init ==
    /\ opts \in {o \in [Logins -> UNION {Services[l] : l \in Logins}] :
                  \A l \in Logins : o[l] \in Services[l]}
    /\ audit \in AuditChoices
    /\ pc = [l \in Logins |-> "idle"]
    /\ sid = [l \in Logins |-> NoId]
    /\ created = [l \in Logins |-> FALSE]
    /\ runtime_env = [l \in Logins |-> FALSE]
    /\ counter = 0
    /\ randomUsed = {}
    /\ runtimeDir = FALSE
    /\ userGroup = FALSE
    /\ groups = {}
    /\ loc = [p \in Procs |-> IF p[2] = "caller" THEN Outside ELSE Unborn]
    /\ madeBy = [g \in {} |-> NoLogin]

Next == \E l \in Logins : OpenBadArgv(l) \/ Open(l) \/ Close(l) \/ Spawn(l) \/ ShellExit(l) \/ CallerExit(l)

Spec == Init /\ [][Next]_vars

-----------------------------------------------------------------------------
TypeOK ==
    /\ \A l \in Logins : opts[l] \in Services[l]
    /\ audit \in AuditChoices
    /\ pc \in [Logins -> {"idle", "open", "failed", "closed"}]
    /\ sid \in [Logins -> SessionIds \cup {NoId}]
    /\ created \in [Logins -> BOOLEAN]
    /\ runtime_env \in [Logins -> BOOLEAN]
    /\ counter \in 0..MaxCounter
    /\ randomUsed \subseteq RandomValues
    /\ runtimeDir \in BOOLEAN
    /\ userGroup \in BOOLEAN
    /\ groups \subseteq Groups
    /\ loc \in [Procs -> Locations]
    /\ DOMAIN madeBy = groups /\ \A g \in groups : madeBy[g] \in Logins

(* Session ids stay distinct: two open logins that are not in the same     *)
(* audit session never get the same XDG_SESSION_ID (and so never share a   *)
(* session cgroup), whichever of audit id, counter file and random value  *)
(* get_session_id drew each from.                                          *)
SessionIdsDistinct ==
    \A l, m \in Logins :
        (/\ l # m /\ pc[l] = "open" /\ pc[m] = "open"
         /\ sid[l] # NoId /\ sid[m] # NoId
         /\ (audit[l] = 0 \/ audit[l] # audit[m]))
        => sid[l] # sid[m]

(* The runtime directory of the user is there for every open login whose  *)
(* caller is alive: pam_sm_close_session of one login removes it only when *)
(* no process is left in the user's cgroup tree.                           *)
RuntimeDirWhileOpen ==
    \A l \in Logins : (pc[l] = "open" /\ loc[caller(l)] # Dead) => runtimeDir

(* A close kills no process of another login's session: a process in a   *)
(* session group dies in a close only if the closing login's open made     *)
(* that group (kill-session).  kill-user kills only when no session group  *)
(* is left, i.e. only processes in master.                                 *)
CloseKillsOnlyOwnSession ==
    [][\A l \in Logins : \A p \in Procs :
          (/\ pc[l] = "open" /\ pc'[l] = "closed"
           /\ loc[p] \in SessionIds /\ loc'[p] = Dead)
          => madeBy[loc[p]] = l]_vars
=============================================================================
