---------------------------- MODULE MCPamSession ----------------------------
(* Three logins of one user: l1 with audit session 1, l2 either nested in *)
(* it (su from l1's shell, same audit session) or without an audit id, l3 *)
(* without an audit id, so it draws from the counter file or at random.   *)
EXTENDS PamSession

CONSTANTS l1, l2, l3

MCLogins == {l1, l2, l3}
(* l2 nested in l1's audit session, or l2 without an audit id, so that   *)
(* two logins read the counter file back.                               *)
MCAuditChoices == {(l1 :> 1) @@ (l2 :> 1) @@ (l3 :> 0),
                   (l1 :> 1) @@ (l2 :> 0) @@ (l3 :> 0)}
MCRandomValues == {100}

(* The PAM service lines: the defaults, kill-session=1 (which implies    *)
(* kill-user at close), kill-user alone, create-session=0 (the caller     *)
(* goes to master); l3's service may instead carry an unknown key, which  *)
(* parse_argv refuses.                                                    *)
Arg(k, v) == [key |-> k, val |-> v]
CommonArgvs ==
    {<<>>, <<Arg("kill-session", "1")>>, <<Arg("controllers", "cpu"), Arg("create-session", "0")>>}
MCServices ==
    [l \in MCLogins |->
        CommonArgvs \cup IF l = l3 THEN {<<Arg("kill-user", "1"), Arg("kill", "yes")>>}
                                   ELSE {<<Arg("kill-user", "no"), Arg("kill-user", "yes")>>}]
=============================================================================
