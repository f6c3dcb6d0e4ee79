--------------------------- MODULE RegistryState ---------------------------
(***************************************************************************)
(* The state of the GlobalRegistry (src/python/actors/registry.py) that   *)
(* both the atomic model (RegistryAtomic) and the thread-level model       *)
(* (RegistryServer) share: the three tables, the last reply the server     *)
(* sent, and a history variable used by the properties.                    *)
(*                                                                         *)
(* Abstractions.  An endpoint is the endpoint of the manager that         *)
(* registered the name, so an entry is just its owning manager.  Time is  *)
(* kept as the age of each heartbeat in ticks, capped at MaxAge: the code  *)
(* only ever compares "now - last_hb" with HEARTBEAT_TIMEOUT_S (line 139  *)
(* with >, line 165 with <), so every age above the timeout behaves alike. *)
(***************************************************************************)
EXTENDS Naturals, FiniteSets, Functions, TLC

CONSTANTS
    Managers,          \* manager ids (model values)
    Names,             \* actor names (model values)
    HeartbeatTimeout,  \* HEARTBEAT_TIMEOUT_S, in ticks
    NULL               \* None

ASSUME /\ HeartbeatTimeout \in Nat \ {0}
       /\ NULL \notin Managers \cup Names

VARIABLES
    registry,       \* _registry: actor_name -> manager_id of its ActorEntry
    managerActors,  \* _manager_actors: manager_id -> set of actor_names
    heartbeats,     \* _heartbeats: manager_id -> ticks since its last heartbeat
    reply,          \* the last reply the server sent on its REP socket
    fresh           \* history: <<name, manager>> acknowledged with
                    \* RegistrationOk, not unregistered, no tick since

MaxAge == HeartbeatTimeout + 1

Ages == 0..MaxAge

ReplyTypes == {"None", "RegistrationOk", "RegistrationFailed",
               "LookupResult", "HeartbeatAck"}

\* One record shape for every reply of run_registry (lines 376-440).
Reply(type, n, ep, online) ==
    [type |-> type, name |-> n, endpoint |-> ep, online |-> online]

NoReply == Reply("None", NULL, NULL, FALSE)

PartialFns(D, R) == UNION {[S -> R] : S \in SUBSET D}

\* dict insert or overwrite, dict.pop
Put(f, k, v) == (k :> v) @@ f
Drop(f, k)   == Restrict(f, DOMAIN f \ {k})

ActorsOf(m) == IF m \in DOMAIN managerActors THEN managerActors[m] ELSE {}

\* is_manager_online (lines 160-165): elapsed < HEARTBEAT_TIMEOUT_S
IsOnline(m) == m \in DOMAIN heartbeats /\ heartbeats[m] < HeartbeatTimeout

\* the staleness test of _check_heartbeats (line 139): now - last_hb > timeout
IsStale(m) == heartbeats[m] > HeartbeatTimeout

\* Time passes: every heartbeat gets one tick older (time.monotonic()).
Elapse ==
    heartbeats' = [m \in DOMAIN heartbeats |->
                     IF heartbeats[m] < MaxAge THEN heartbeats[m] + 1
                                               ELSE MaxAge]

RegistryTypeOK ==
    /\ registry \in PartialFns(Names, Managers)
    /\ managerActors \in PartialFns(Managers, SUBSET Names)
    /\ heartbeats \in PartialFns(Managers, Ages)
    /\ reply \in [type : ReplyTypes, name : Names \cup {NULL},
                  endpoint : Managers \cup {NULL}, online : BOOLEAN]
    /\ fresh \subseteq Names \X Managers

-----------------------------------------------------------------------------
(* Properties shared by both models.                                       *)

(* Spec law 4 ("registration counts as an implicit heartbeat"): a lookup   *)
(* answered before any time has passed since manager m was told            *)
(* RegistrationOk for n (and n was not unregistered since) reports n at m's *)
(* endpoint and online.  The register handler (lines 378-399) and the      *)
(* sweeper (_check_heartbeats, lines 133-158) must agree for this to hold. *)
FreshRegistrationVisible ==
    reply.type = "LookupResult" =>
        \A m \in Managers :
            <<reply.name, m>> \in fresh =>
                reply.endpoint = m /\ reply.online

(* Every registered row can be reached by the decay cascade: its owner     *)
(* has a heartbeat entry that the sweeper will age out, and the row is in  *)
(* the owner's set that _unregister_manager (lines 146-158) walks.          *)
RowsReachableByDecay ==
    \A n \in DOMAIN registry :
        /\ registry[n] \in DOMAIN heartbeats
        /\ n \in ActorsOf(registry[n])

(* Spec I4 / law 3: a row whose owner is offline is eventually removed,    *)
(* unless its owner comes back online first.                               *)
OfflineRow(n) == n \in DOMAIN registry /\ ~IsOnline(registry[n])

DecayCompletes ==
    \A n \in Names : OfflineRow(n) ~> ~OfflineRow(n)

=============================================================================
