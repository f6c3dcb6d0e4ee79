--------------------------- MODULE RegistryServer ---------------------------
(***************************************************************************)
(* The standalone registry process, run_registry                          *)
(* (src/python/actors/registry.py lines 326-450), as the two threads that  *)
(* really run in it: the main thread serving the REP socket, and the       *)
(* daemon "heartbeat-monitor" thread started by GlobalRegistry.init        *)
(* (lines 109-118).  Both touch _registry, _manager_actors and _heartbeats *)
(* with no lock.                                                           *)
(*                                                                         *)
(* Atomicity.  Each single dict or set operation is atomic under the GIL. *)
(* CPython (3.10 and later) switches threads only after a call returns, at *)
(* function entry and at loop back-edges, so each action below is the code *)
(* from one such switch point to the next.  Older interpreters switch at   *)
(* almost every bytecode, so every interleaving below is possible on them  *)
(* as well.                                                                 *)
(***************************************************************************)
EXTENDS RegistryState

VARIABLES
    srv,  \* main thread: pc and the locals of the request being served
    mon,  \* monitor thread: pc and the locals of _check_heartbeats
    up    \* the registry process is alive

vars == <<registry, managerActors, heartbeats, reply, fresh, srv, mon, up>>

SrvPCs == {"idle", "reg_set", "reg_hb", "unreg_discard",
           "look_check", "look_read"}

MonPCs == {"sleep", "scan", "pop", "del", "hb", "dead"}

SrvIdle == [pc |-> "idle", m |-> NULL, n |-> NULL, owner |-> NULL]

MonSleep == [pc |-> "sleep", size |-> 0, seen |-> {}, stale |-> {},
             cur |-> NULL, names |-> {}]

Init ==
    /\ registry = << >>
    /\ managerActors = << >>
    /\ heartbeats = << >>
    /\ reply = NoReply
    /\ fresh = {}
    /\ srv = SrvIdle
    /\ mon = MonSleep
    /\ up = TRUE

TypeOK ==
    /\ RegistryTypeOK
    /\ srv \in [pc : SrvPCs, m : Managers \cup {NULL}, n : Names \cup {NULL},
                owner : Managers \cup {NULL}]
    /\ mon \in [pc : MonPCs, size : 0..Cardinality(Managers),
                seen : SUBSET Managers, stale : SUBSET Managers,
                cur : Managers \cup {NULL}, names : SUBSET Names]
    /\ up \in BOOLEAN

-----------------------------------------------------------------------------
(* Main thread: the body of "while running" for one request.               *)

Serve(pc, m, n, owner) == srv' = [pc |-> pc, m |-> m, n |-> n, owner |-> owner]

Answer(r) == /\ reply' = r
             /\ srv' = SrvIdle

\* RegisterActor, lines 378-393: the name test and the insert of the entry,
\* then (no switch point in between) the manager test and, when the
\* manager has a set, set.add.  A new set is built by a call to set(), a
\* switch point before it is stored.
RegRow(m, n) ==
    /\ srv.pc = "idle"
    /\ \/ /\ n \in DOMAIN registry
          /\ Answer(Reply("RegistrationFailed", n, NULL, FALSE))
          /\ UNCHANGED <<registry, managerActors>>
       \/ /\ n \notin DOMAIN registry
          /\ registry' = Put(registry, n, m)
          /\ IF m \in DOMAIN managerActors
             THEN /\ managerActors' = [managerActors EXCEPT ![m] = @ \cup {n}]
                  /\ Serve("reg_hb", m, n, NULL)
             ELSE /\ Serve("reg_set", m, n, NULL)
                  /\ UNCHANGED managerActors
          /\ UNCHANGED reply
    /\ UNCHANGED <<heartbeats, fresh>>

\* lines 395-396: store the new set and add the name to it.
RegSet ==
    /\ srv.pc = "reg_set"
    /\ managerActors' = Put(managerActors, srv.m, {srv.n})
    /\ Serve("reg_hb", srv.m, srv.n, NULL)
    /\ UNCHANGED <<registry, heartbeats, reply, fresh>>

\* lines 397-399: registration counts as a heartbeat; RegistrationOk.
RegHb ==
    /\ srv.pc = "reg_hb"
    /\ heartbeats' = Put(heartbeats, srv.m, 0)
    /\ Answer(Reply("RegistrationOk", srv.n, NULL, FALSE))
    /\ fresh' = fresh \cup {<<srv.n, srv.m>>}
    /\ UNCHANGED <<registry, managerActors>>

\* UnregisterActor, line 403: _registry.pop(actor_name, None).
UnregPop(n) ==
    /\ srv.pc = "idle"
    /\ registry' = Drop(registry, n)
    /\ Serve("unreg_discard", NULL, n,
             IF n \in DOMAIN registry THEN registry[n] ELSE NULL)
    /\ fresh' = {p \in fresh : p[1] # n}
    /\ UNCHANGED <<managerActors, heartbeats, reply>>

\* lines 404-407: discard from the owner's set if it still exists.
UnregDiscard ==
    /\ srv.pc = "unreg_discard"
    /\ managerActors' =
           IF srv.owner # NULL /\ srv.owner \in DOMAIN managerActors
           THEN [managerActors EXCEPT ![srv.owner] = @ \ {srv.n}]
           ELSE managerActors
    /\ Answer(Reply("RegistrationOk", srv.n, NULL, FALSE))
    /\ UNCHANGED <<registry, heartbeats, fresh>>

\* LookupActor, line 411: _registry.get(actor_name); absent -> None/False.
LookGet(n) ==
    /\ srv.pc = "idle"
    /\ IF n \in DOMAIN registry
       THEN /\ Serve("look_check", NULL, n, registry[n])
            /\ UNCHANGED reply
       ELSE Answer(Reply("LookupResult", n, NULL, FALSE))
    /\ UNCHANGED <<registry, managerActors, heartbeats, fresh>>

\* is_manager_online, lines 162-163: no heartbeat entry -> offline.
LookCheck ==
    /\ srv.pc = "look_check"
    /\ IF srv.owner \in DOMAIN heartbeats
       THEN /\ Serve("look_read", NULL, srv.n, srv.owner)
            /\ UNCHANGED reply
       ELSE Answer(Reply("LookupResult", srv.n, srv.owner, FALSE))
    /\ UNCHANGED <<registry, managerActors, heartbeats, fresh>>

\* line 164: time.monotonic() - self._heartbeats[manager_id].  The call to
\* time.monotonic() is a switch point between the test of line 162 and the
\* subscript; if the monitor popped the entry meanwhile, the KeyError is
\* not a zmq.ZMQError (line 442), leaves the loop and ends the process.
LookRead ==
    /\ srv.pc = "look_read"
    /\ \/ /\ srv.owner \in DOMAIN heartbeats
          /\ Answer(Reply("LookupResult", srv.n, srv.owner,
                          IsOnline(srv.owner)))
          /\ UNCHANGED up
       \/ /\ srv.owner \notin DOMAIN heartbeats
          /\ up' = FALSE
          /\ UNCHANGED <<srv, reply>>
    /\ UNCHANGED <<registry, managerActors, heartbeats, fresh>>

\* Heartbeat, lines 426-429.
HbStore(m) ==
    /\ srv.pc = "idle"
    /\ heartbeats' = Put(heartbeats, m, 0)
    /\ Answer(Reply("HeartbeatAck", NULL, NULL, FALSE))
    /\ UNCHANGED <<registry, managerActors, fresh>>

-----------------------------------------------------------------------------
(* Monitor thread: _heartbeat_monitor, _check_heartbeats,                  *)
(* _unregister_manager (lines 127-158).                                     *)

\* lines 129-135: wake up, read now, start iterating _heartbeats.items().
MonScanStart ==
    /\ mon.pc = "sleep"
    /\ mon' = [MonSleep EXCEPT !.pc = "scan",
                               !.size = Cardinality(DOMAIN heartbeats)]
    /\ UNCHANGED <<registry, managerActors, heartbeats, reply, fresh, srv>>

\* lines 138-140, one iteration (a loop back-edge is a switch point).  The
\* dict iterator raises RuntimeError when the dict changed size since the
\* iteration began; nothing catches it, and the monitor thread ends.
MonScanStep ==
    /\ mon.pc = "scan"
    /\ \/ /\ Cardinality(DOMAIN heartbeats) # mon.size
          /\ mon' = [mon EXCEPT !.pc = "dead"]
       \/ /\ Cardinality(DOMAIN heartbeats) = mon.size
          /\ \E k \in DOMAIN heartbeats \ mon.seen :
                mon' = [mon EXCEPT !.seen = @ \cup {k},
                                   !.stale = IF IsStale(k) THEN @ \cup {k} ELSE @]
       \/ /\ Cardinality(DOMAIN heartbeats) = mon.size
          /\ DOMAIN heartbeats \subseteq mon.seen
          /\ mon' = IF mon.stale = {} THEN MonSleep ELSE [mon EXCEPT !.pc = "pop"]
    /\ UNCHANGED <<registry, managerActors, heartbeats, reply, fresh, srv>>

\* lines 142-149: for the next stale manager, pop its set of actors.
MonPop ==
    /\ mon.pc = "pop"
    /\ \E m \in mon.stale :
          /\ managerActors' = Drop(managerActors, m)
          /\ mon' = [mon EXCEPT !.pc = "del", !.cur = m, !.stale = @ \ {m},
                                !.names = ActorsOf(m)]
    /\ UNCHANGED <<registry, heartbeats, reply, fresh, srv>>

\* lines 152-155, one iteration: delete the name if it is still registered,
\* whoever owns it now.
MonDel ==
    /\ mon.pc = "del"
    /\ \/ /\ mon.names = {}
          /\ mon' = [mon EXCEPT !.pc = "hb"]
          /\ UNCHANGED registry
       \/ \E n \in mon.names :
             /\ registry' = Drop(registry, n)
             /\ mon' = [mon EXCEPT !.names = @ \ {n}]
    /\ UNCHANGED <<managerActors, heartbeats, reply, fresh, srv>>

\* line 158: pop the heartbeat entry; on to the next stale manager.
MonHb ==
    /\ mon.pc = "hb"
    /\ heartbeats' = Drop(heartbeats, mon.cur)
    /\ mon' = IF mon.stale = {} THEN MonSleep
              ELSE [mon EXCEPT !.pc = "pop", !.cur = NULL, !.names = {}]
    /\ UNCHANGED <<registry, managerActors, reply, fresh, srv>>

-----------------------------------------------------------------------------

\* Time passes.  A request and a sweep each take microseconds (the scan
\* reads "now" once, line 135), so ticks fall only between them: every
\* interleaving found below happens within one instant.
Tick ==
    /\ srv.pc = "idle"
    /\ mon.pc \in {"sleep", "dead"}
    /\ Elapse
    /\ fresh' = {}
    /\ UNCHANGED <<registry, managerActors, reply, srv, mon>>

ServerStep ==
    \/ /\ \/ \E m \in Managers, n \in Names : RegRow(m, n)
          \/ RegSet \/ RegHb
          \/ \E n \in Names : UnregPop(n)
          \/ UnregDiscard
          \/ \E n \in Names : LookGet(n)
          \/ LookCheck
          \/ \E m \in Managers : HbStore(m)
       /\ UNCHANGED up
    \/ LookRead

MonitorStep == MonScanStart \/ MonScanStep \/ MonPop \/ MonDel \/ MonHb

\* The process has exited: nothing happens any more.
Halted == ~up /\ UNCHANGED vars

Next ==
    \/ up /\ ServerStep /\ UNCHANGED mon
    \/ up /\ MonitorStep /\ UNCHANGED up
    \/ up /\ Tick /\ UNCHANGED up
    \/ Halted

(* Both threads are scheduled fairly and time passes while the process    *)
(* lives; requests are not forced to arrive.                               *)
Spec == Init /\ [][Next]_vars
        /\ WF_vars(up /\ MonitorStep /\ UNCHANGED up)
        /\ WF_vars(up /\ Tick /\ UNCHANGED up)
        /\ WF_vars(up /\ (RegSet \/ RegHb \/ UnregDiscard \/ LookCheck \/ LookRead)
                      /\ UNCHANGED <<mon, up>>)

-----------------------------------------------------------------------------
(* Properties only the thread-level model can break.                      *)

(* Spec section 7: malformed or racing requests are logged and dropped;   *)
(* the registry never crashes.  The main loop only catches zmq.ZMQError    *)
(* (line 442), so any other exception ends the process.                    *)
RegistryStaysUp == up

(* Spec I4 (cascading decay): whenever both threads are between            *)
(* operations, every registered row can still be reached by the decay      *)
(* cascade (RowsReachableByDecay): its owner has a heartbeat entry and the *)
(* row is in the owner's set.  A row that is not reachable is never swept. *)
Quiescent == srv.pc = "idle" /\ mon.pc \in {"sleep", "dead"}

QuiescentRowsReachable == Quiescent => RowsReachableByDecay

=============================================================================
