----------------------------- MODULE ManagerBus -----------------------------
(* The methods of org.freedesktop.systemd1.Manager that change the         *)
(* manager's state, from bus_manager_message_handler (dbus-manager.c):     *)
(* Reload, Reexecute, Exit, Subscribe and Unsubscribe.  A handler takes the *)
(* manager's bus fields and one method call and gives the new fields, the  *)
(* reply it sends at once (or none), and whether its assert fired.         *)
(*                                                                         *)
(* The fields are those of struct Manager the handlers touch:              *)
(*   exit_code       MANAGER_RUNNING, or what the main loop is to do;       *)
(*   queued_message  the stashed Reload reply, or NoMessage;                *)
(*   subscribed      the set of subscribed bus clients;                     *)
(*   running_as_init m->running_as == MANAGER_INIT.                         *)
(* The stashed reply carries, as history, whether manager_reload has run   *)
(* since it was stashed.                                                   *)
(*                                                                         *)
(* The read-only methods (GetUnit, ListUnits, Dump, Introspect, ...) and    *)
(* the job methods change nothing this module keeps; out-of-memory paths   *)
(* are left out (see the README).                                          *)
EXTENDS Naturals

CONSTANT NoMessage

Methods == {"Reload", "Reexecute", "Exit", "Subscribe", "Unsubscribe"}

(* A reply on the bus: to whom, for which method, success or error. *)
Reply(c, meth, ok, after_reload) ==
    [client |-> c, method |-> meth, ok |-> ok, after_reload |-> after_reload]

Handled(m, reply) == [mgr |-> m, reply |-> reply, aborted |-> FALSE]

(* A mutant: Reload replies at once instead of stashing the reply. *)
reload_handler_reply_now(m, c) ==
    IF m.queued_message # NoMessage
    THEN [mgr |-> m, reply |-> NoMessage, aborted |-> TRUE]
    ELSE Handled([m EXCEPT !.exit_code = "reload"], Reply(c, "Reload", TRUE, FALSE))

(* Reload: assert(!m->queued_message), then stash the reply, to be sent    *)
(* once the reload is done, and ask the main loop to reload.               *)
reload_handler(m, c) ==
    IF m.queued_message # NoMessage
    THEN [mgr |-> m, reply |-> NoMessage, aborted |-> TRUE]
    ELSE Handled([m EXCEPT !.queued_message = [client |-> c, reloaded |-> FALSE],
                           !.exit_code = "reload"],
                 NoMessage)

(* Reexecute: reply at once, then ask for the re-exec. *)
reexecute_handler(m, c) ==
    Handled([m EXCEPT !.exit_code = "reexecute"], Reply(c, "Reexecute", TRUE, FALSE))

(* Exit: refused with -ENOTSUP when running as init. *)
exit_handler(m, c) ==
    IF m.running_as_init
    THEN Handled(m, Reply(c, "Exit", FALSE, FALSE))
    ELSE Handled([m EXCEPT !.exit_code = "exit"], Reply(c, "Exit", TRUE, FALSE))

(* Subscribe: set_put of the sender's name; a name already in the set is   *)
(* -EEXIST and an error reply.                                             *)
subscribe_handler(m, c) ==
    IF c \in m.subscribed
    THEN Handled(m, Reply(c, "Subscribe", FALSE, FALSE))
    ELSE Handled([m EXCEPT !.subscribed = @ \cup {c}], Reply(c, "Subscribe", TRUE, FALSE))

(* Unsubscribe: set_remove; a name not in the set is -ENOENT. *)
unsubscribe_handler(m, c) ==
    IF c \notin m.subscribed
    THEN Handled(m, Reply(c, "Unsubscribe", FALSE, FALSE))
    ELSE Handled([m EXCEPT !.subscribed = @ \ {c}], Reply(c, "Unsubscribe", TRUE, FALSE))

bus_manager_message_handler(m, msg) ==
    CASE msg.method = "Reload"      -> reload_handler(m, msg.client)
      [] msg.method = "Reexecute"   -> reexecute_handler(m, msg.client)
      [] msg.method = "Exit"        -> exit_handler(m, msg.client)
      [] msg.method = "Subscribe"   -> subscribe_handler(m, msg.client)
      [] msg.method = "Unsubscribe" -> unsubscribe_handler(m, msg.client)

=============================================================================
