---------------------------- MODULE NameService ----------------------------
(***************************************************************************)
(* What the global registry promises its clients (spec section 3, I2 and   *)
(* I4; section 4.7), with no heartbeat clock and no monitor thread: a      *)
(* name is bound to at most one manager, first come first served; a bound  *)
(* name changes only by an explicit release or by the decay of its owner,  *)
(* and a decay removes every name of the decayed managers at once; a       *)
(* lookup answers with the current binding.                                *)
(*                                                                         *)
(* The registry models (RegistryAtomic) are checked against this module    *)
(* with names <- registry and answer <- reply.                             *)
(***************************************************************************)
EXTENDS Naturals, Functions, TLC

CONSTANTS Managers, Names, NULL

VARIABLES
    names,   \* name -> owning manager
    answer   \* the last answer given to a client

nsVars == <<names, answer>>

Answer(type, n, owner, online) ==
    [type |-> type, name |-> n, endpoint |-> owner, online |-> online]

NSInit ==
    /\ names = << >>
    /\ answer = Answer("None", NULL, NULL, FALSE)

\* A free name is bound to the manager that asks first.
Bind(m, n) ==
    /\ n \notin DOMAIN names
    /\ names' = (n :> m) @@ names
    /\ answer' = Answer("RegistrationOk", n, NULL, FALSE)

\* A bound name is refused to everybody, its owner included.
Refuse(n) ==
    /\ n \in DOMAIN names
    /\ answer' = Answer("RegistrationFailed", n, NULL, FALSE)
    /\ UNCHANGED names

\* Releasing a name always succeeds, bound or not.
Release(n) ==
    /\ names' = Restrict(names, DOMAIN names \ {n})
    /\ answer' = Answer("RegistrationOk", n, NULL, FALSE)

\* A lookup reports the current owner; whether it is online is the clock's
\* business, but an unbound name is never online.
Resolve(n) ==
    /\ \/ /\ n \in DOMAIN names
          /\ \E online \in BOOLEAN :
                 answer' = Answer("LookupResult", n, names[n], online)
       \/ /\ n \notin DOMAIN names
          /\ answer' = Answer("LookupResult", n, NULL, FALSE)
    /\ UNCHANGED names

Ack ==
    /\ answer' = Answer("HeartbeatAck", NULL, NULL, FALSE)
    /\ UNCHANGED names

\* Some managers decay: all of their names go, nobody else's.
Decay(S) ==
    /\ S # {}
    /\ names' = Restrict(names, {n \in DOMAIN names : names[n] \notin S})
    /\ UNCHANGED answer

\* The registry shuts down: every binding is gone (spec 3, lifecycles).
Shutdown ==
    /\ names' = << >>
    /\ answer' = Answer("None", NULL, NULL, FALSE)

NSNext ==
    \/ \E m \in Managers, n \in Names : Bind(m, n)
    \/ \E n \in Names : Refuse(n) \/ Release(n) \/ Resolve(n)
    \/ Ack
    \/ \E S \in SUBSET Managers : Decay(S)
    \/ Shutdown

NSSpec == NSInit /\ [][NSNext]_nsVars

=============================================================================
