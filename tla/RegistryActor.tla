--------------------------- MODULE RegistryActor ---------------------------
(***************************************************************************)
(* The GlobalRegistry in its actor form (src/python/actors/registry.py,   *)
(* class GlobalRegistry), hosted by a Manager as its docstring shows       *)
(* (lines 51-56: manager.manage("GlobalRegistry", registry)).  Callers     *)
(* fast_send registry requests to it; its worker pops the mailbox and      *)
(* dispatches each envelope.  The actor's own init/end start and stop the  *)
(* heartbeat-monitor thread.                                               *)
(*                                                                         *)
(* The runtime (Actor.process_message, fast_send) is not in this source   *)
(* tree.  Its dispatch follows the spec (4.3: the handler keyed by the     *)
(* message's kind; no handler, the envelope is dropped, not a fault) and   *)
(* the naming that src/python/tests/test_actor.py (lines 88-105) checks:   *)
(* a message of class Ping goes to on_ping, on_<class name in lower case>. *)
(* fast_send waits on a one-shot reply slot up to its timeout (spec 4.2,  *)
(* 5); a reply arriving after the timeout is dropped.                      *)
(*                                                                         *)
(* The tables of the registry are left out: they change only inside the    *)
(* handlers, so the monitor thread's sweeps (lines 127-158) find nothing;  *)
(* only its start and stop are kept.                                       *)
(***************************************************************************)
EXTENDS Naturals, Sequences

CONSTANTS
    Callers,   \* threads that fast_send one request each to the registry
    Kinds      \* the request kinds they send

\* Message classes of registry_messages.py that GlobalRegistry has a
\* handler for (lines 184-263), and each handler's method name.
HandlerNames ==
    [RegisterActor   |-> "_on_register",
     UnregisterActor |-> "_on_unregister",
     LookupActor     |-> "_on_lookup",
     Heartbeat       |-> "_on_heartbeat",
     StartManager    |-> "_on_start_manager",
     StopManager     |-> "_on_stop_manager",
     RestartManager  |-> "_on_restart_manager"]

\* The methods a GlobalRegistry has whose name a dispatch may look up: its
\* own handlers; Actor contributes no on_ method for these kinds.
Methods == {HandlerNames[k] : k \in DOMAIN HandlerNames}

\* process_message: "on_" + the class name in lower case.
DispatchName ==
    [RegisterActor   |-> "on_registeractor",
     UnregisterActor |-> "on_unregisteractor",
     LookupActor     |-> "on_lookupactor",
     Heartbeat       |-> "on_heartbeat",
     StartManager    |-> "on_startmanager",
     StopManager     |-> "on_stopmanager",
     RestartManager  |-> "on_restartmanager"]

ASSUME Kinds \subseteq DOMAIN HandlerNames

VARIABLES
    running,   \* GlobalRegistry._running
    monitor,   \* heartbeat-monitor thread: "none", "sleeping", "stopped"
    mailbox,   \* the registry actor's mailbox: envelopes [kind, slot]
    callPc     \* caller -> "idle", "waiting", "answered", "timedout"

vars == <<running, monitor, mailbox, callPc>>

\* GlobalRegistry.__init__ (lines 62-85): no monitor thread, not running.
Init ==
    /\ running = FALSE
    /\ monitor = "none"
    /\ mailbox = << >>
    /\ callPc = [c \in Callers |-> "idle"]

\* init (lines 109-118): _running = True and the monitor thread starts.
RegistryInit ==
    /\ monitor = "none"
    /\ running' = TRUE
    /\ monitor' = "sleeping"
    /\ UNCHANGED <<mailbox, callPc>>

\* end (lines 120-125): _running = False, then join(timeout=2.0).  The
\* monitor sleeps 1 s per round (lines 129-131), so the join returns with
\* the thread gone.
RegistryEnd ==
    /\ running
    /\ running' = FALSE
    /\ monitor' = "stopped"
    /\ UNCHANGED <<mailbox, callPc>>

\* fast_send(msg, timeout): enqueue an envelope with a fresh reply slot.
FastSend(c, k) ==
    /\ callPc[c] = "idle"
    /\ mailbox' = Append(mailbox, [kind |-> k, slot |-> c])
    /\ callPc' = [callPc EXCEPT ![c] = "waiting"]
    /\ UNCHANGED <<running, monitor>>

\* The worker pops the head envelope and dispatches it by name: a method
\* of that name runs and replies to the slot (dropped if its caller has
\* timed out); with none the envelope is dropped (spec 4.3).
Dispatch ==
    LET env == Head(mailbox)
        c   == env.slot
    IN  /\ mailbox # << >>
        /\ mailbox' = Tail(mailbox)
        /\ IF DispatchName[env.kind] \in Methods /\ callPc[c] = "waiting"
           THEN callPc' = [callPc EXCEPT ![c] = "answered"]
           ELSE UNCHANGED callPc
        /\ UNCHANGED <<running, monitor>>

\* fast_send's wait on the slot expires: Timeout is raised.
CallTimeout(c) ==
    /\ callPc[c] = "waiting"
    /\ callPc' = [callPc EXCEPT ![c] = "timedout"]
    /\ UNCHANGED <<running, mailbox, monitor>>

Next ==
    \/ RegistryInit \/ RegistryEnd \/ Dispatch
    \/ \E c \in Callers, k \in Kinds : FastSend(c, k)
    \/ \E c \in Callers : CallTimeout(c)

(* The worker pops its mailbox while the manager runs; a fast_send's       *)
(* timeout expires.  Callers and the hosting program are not forced on.     *)
Spec ==
    /\ Init /\ [][Next]_vars
    /\ WF_vars(Dispatch)
    /\ \A c \in Callers : WF_vars(CallTimeout(c))

TypeOK ==
    /\ running \in BOOLEAN
    /\ monitor \in {"none", "sleeping", "stopped"}
    /\ mailbox \in Seq([kind : Kinds, slot : Callers])
    /\ callPc \in [Callers -> {"idle", "waiting", "answered", "timedout"}]

-----------------------------------------------------------------------------
(* The registry actor serves its clients (class docstring, lines 41-49:   *)
(* "Provides sync lookup for actors by name"; spec 4.7): whenever the      *)
(* worker dispatches a request whose caller is still waiting on its reply  *)
(* slot, the handler GlobalRegistry defines for that kind (lines 184-263)  *)
(* runs and answers it.  Callers that already timed out are excused.       *)
RequestsAnswered ==
    [][mailbox # << >> /\ Dispatch
        => LET c == Head(mailbox).slot
           IN  callPc[c] = "waiting" => callPc'[c] = "answered"]_vars

=============================================================================
