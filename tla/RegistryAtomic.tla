--------------------------- MODULE RegistryAtomic ---------------------------
(***************************************************************************)
(* The GlobalRegistry as the spec intends it (spec 4.7: "all four maps are *)
(* protected by a single lock"): every request handler of run_registry and *)
(* every pass of the heartbeat sweeper is one atomic step.  Each action is *)
(* the whole handler of src/python/actors/registry.py; the environment may  *)
(* send any request at any time, so the model covers every request order  *)
(* the managers' RegistryClients can produce.                              *)
(***************************************************************************)
EXTENDS RegistryState

vars == <<registry, managerActors, heartbeats, reply, fresh>>

Init ==
    /\ registry = << >>
    /\ managerActors = << >>
    /\ heartbeats = << >>
    /\ reply = NoReply
    /\ fresh = {}

-----------------------------------------------------------------------------
(* Mutants: plausible slips in the handlers, used to show that the         *)
(* properties detect them.                                                 *)

\* register forgets "Registration counts as heartbeat" (line 397)
RegisterNoHeartbeat(m, n) ==
    \/ /\ n \in DOMAIN registry
       /\ reply' = Reply("RegistrationFailed", n, NULL, FALSE)
       /\ UNCHANGED <<registry, managerActors, heartbeats, fresh>>
    \/ /\ n \notin DOMAIN registry
       /\ registry' = Put(registry, n, m)
       /\ managerActors' = Put(managerActors, m, ActorsOf(m) \cup {n})
       /\ reply' = Reply("RegistrationOk", n, NULL, FALSE)
       /\ fresh' = fresh \cup {<<n, m>>}
       /\ UNCHANGED heartbeats

\* register forgets to record the name under its manager (lines 394-396)
RegisterNoOwnerSet(m, n) ==
    \/ /\ n \in DOMAIN registry
       /\ reply' = Reply("RegistrationFailed", n, NULL, FALSE)
       /\ UNCHANGED <<registry, managerActors, heartbeats, fresh>>
    \/ /\ n \notin DOMAIN registry
       /\ registry' = Put(registry, n, m)
       /\ heartbeats' = Put(heartbeats, m, 0)
       /\ reply' = Reply("RegistrationOk", n, NULL, FALSE)
       /\ fresh' = fresh \cup {<<n, m>>}
       /\ UNCHANGED managerActors

\* the sweep drops the manager but not its actors (lines 152-155 missing)
SweepKeepRows ==
    LET stale == {m \in DOMAIN heartbeats : IsStale(m)}
    IN  /\ stale # {}
        /\ managerActors' = Restrict(managerActors, DOMAIN managerActors \ stale)
        /\ heartbeats' = Restrict(heartbeats, DOMAIN heartbeats \ stale)
        /\ UNCHANGED <<registry, reply, fresh>>

\* unregister marks the entry None instead of popping it (line 403)
UnregisterToNone(n) ==
    /\ registry' = IF n \in DOMAIN registry THEN Put(registry, n, NULL) ELSE registry
    /\ managerActors' =
           IF n \in DOMAIN registry /\ registry[n] \in DOMAIN managerActors
           THEN [managerActors EXCEPT ![registry[n]] = @ \ {n}]
           ELSE managerActors
    /\ reply' = Reply("RegistrationOk", n, NULL, FALSE)
    /\ fresh' = {p \in fresh : p[1] # n}
    /\ UNCHANGED heartbeats

\* unregister pops the entry but leaves the name in its manager's set
\* (lines 404-405 missing)
UnregisterKeepSet(n) ==
    /\ registry' = Drop(registry, n)
    /\ reply' = Reply("RegistrationOk", n, NULL, FALSE)
    /\ fresh' = {p \in fresh : p[1] # n}
    /\ UNCHANGED <<managerActors, heartbeats>>

-----------------------------------------------------------------------------
(* The request handlers of run_registry.                                   *)

\* RegisterActor (lines 378-399): refuse a taken name, else insert the
\* entry, add it to its manager's set and refresh the manager's heartbeat.
Register(m, n) ==
    \/ /\ n \in DOMAIN registry
       /\ reply' = Reply("RegistrationFailed", n, NULL, FALSE)
       /\ UNCHANGED <<registry, managerActors, heartbeats, fresh>>
    \/ /\ n \notin DOMAIN registry
       /\ registry' = Put(registry, n, m)
       /\ managerActors' = Put(managerActors, m, ActorsOf(m) \cup {n})
       /\ heartbeats' = Put(heartbeats, m, 0)
       /\ reply' = Reply("RegistrationOk", n, NULL, FALSE)
       /\ fresh' = fresh \cup {<<n, m>>}

\* UnregisterActor (lines 401-407): pop the entry, discard it from its
\* manager's set if that set still exists; always RegistrationOk.
Unregister(n) ==
    /\ registry' = Drop(registry, n)
    /\ managerActors' =
           IF n \in DOMAIN registry /\ registry[n] \in DOMAIN managerActors
           THEN [managerActors EXCEPT ![registry[n]] = @ \ {n}]
           ELSE managerActors
    /\ reply' = Reply("RegistrationOk", n, NULL, FALSE)
    /\ fresh' = {p \in fresh : p[1] # n}
    /\ UNCHANGED heartbeats

\* LookupActor (lines 409-424): endpoint and online bit, or None/False.
Lookup(n) ==
    /\ reply' = IF n \in DOMAIN registry
                THEN Reply("LookupResult", n, registry[n], IsOnline(registry[n]))
                ELSE Reply("LookupResult", n, NULL, FALSE)
    /\ UNCHANGED <<registry, managerActors, heartbeats, fresh>>

\* Heartbeat (lines 426-429): last_heartbeat[manager] = now.
Heartbeat(m) ==
    /\ heartbeats' = Put(heartbeats, m, 0)
    /\ reply' = Reply("HeartbeatAck", NULL, NULL, FALSE)
    /\ UNCHANGED <<registry, managerActors, fresh>>

\* One pass of the monitor thread, _check_heartbeats (lines 133-144) with
\* _unregister_manager (lines 146-158) for every stale manager: pop its
\* set, delete every name of that set, pop its heartbeat.
Sweep ==
    LET stale  == {m \in DOMAIN heartbeats : IsStale(m)}
        doomed == UNION {ActorsOf(m) : m \in stale}
    IN  /\ stale # {}
        /\ registry' = Restrict(registry, DOMAIN registry \ doomed)
        /\ managerActors' = Restrict(managerActors, DOMAIN managerActors \ stale)
        /\ heartbeats' = Restrict(heartbeats, DOMAIN heartbeats \ stale)
        /\ UNCHANGED <<reply, fresh>>

\* One tick of time.monotonic(); afterwards no registration is "immediate".
Tick ==
    /\ Elapse
    /\ fresh' = {}
    /\ UNCHANGED <<registry, managerActors, reply>>

Next ==
    \/ \E m \in Managers, n \in Names : Register(m, n)
    \/ \E n \in Names : Unregister(n)
    \/ \E n \in Names : Lookup(n)
    \/ \E m \in Managers : Heartbeat(m)
    \/ Sweep
    \/ Tick

(* Time passes and the monitor thread wakes every second while the process *)
(* runs; no request is ever forced to arrive.                              *)
Spec == Init /\ [][Next]_vars /\ WF_vars(Sweep) /\ WF_vars(Tick)

TypeOK == RegistryTypeOK

-----------------------------------------------------------------------------
NS == INSTANCE NameService WITH names <- registry, answer <- reply

(* The registry implements the name service it promises (spec I2, I4):     *)
(* every handler and every sweep is a step of NameService under the        *)
(* mapping names <- registry.  In particular the sweep, which deletes the  *)
(* names listed in _manager_actors of the stale managers (lines 146-158),  *)
(* removes exactly the names those managers own, and a refused or looked-  *)
(* up name reports its current owner.                                      *)
NameServiceRefined == NS!NSSpec

=============================================================================
