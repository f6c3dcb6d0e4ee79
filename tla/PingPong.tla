------------------------------ MODULE PingPong ------------------------------
(***************************************************************************)
(* The registry examples (src/registry/examples/registry_pong.py and       *)
(* registry_ping.py) run as two processes beside the registry, each with   *)
(* its own RegistryClient (module RegistryClient, both threads).           *)
(*                                                                         *)
(* The pong process starts its heartbeat, registers "pong" and, if that    *)
(* succeeds, starts its manager.  The ping process is launched after it;   *)
(* it starts its heartbeat and its manager, whose synthetic Start makes    *)
(* PingActor.on_start look "pong" up and send Ping(1); every Pong(k) with  *)
(* k < Rounds is answered with Ping(k+1) and Pong(Rounds) terminates the   *)
(* ping process.                                                           *)
(*                                                                         *)
(* The actor runtime (Manager, Actor, RemoteActorRef, ZmqSender) is not in *)
(* this source tree; its part here follows the spec: Start is dispatched   *)
(* first, an exception escaping a Start handler marks the actor dead and   *)
(* the manager runs on (4.3), run() returns only after terminate(), a      *)
(* reply to a remote sender goes back to it over the wire (4.2, 4.5).      *)
(***************************************************************************)
EXTENDS RegistryClient

CONSTANTS
    PingManager, PongManager,  \* "PingManager", "PongManager"
    PongName,                  \* "pong"
    Rounds                     \* the count that ends the game (5 in the code)

ASSUME /\ Managers = {PingManager, PongManager}
       /\ PongName \in Names
       /\ Rounds \in Nat \ {0}

VARIABLES
    pongPc,  \* pong process: "start", "registering", "running", "exited"
             \* (main returned 1 or raised), "stopped" (returned 0 after Ctrl+C)
    pingPc,  \* ping process: "off", "starting", "looking", "pinging",
             \*   "done", "failed" (terminated), "dead" (actor dead, hangs)
    toPong,  \* count of the Ping on its way to pong, 0 if none
    toPing,  \* count of the Pong on its way to ping, 0 if none
    pings,   \* Ping messages sent so far
    pongs    \* Pong messages sent so far

ppVars  == <<pongPc, pingPc, toPong, toPing, pings, pongs>>
ppAll   == <<allVars, ppVars>>

\* A process's client threads run while the process does.  A terminated
\* ping process and an exited pong process take their daemon heartbeat
\* threads with them.
Alive(m) ==
    IF m = PongManager THEN pongPc \notin {"exited", "stopped"}
                       ELSE pingPc \notin {"off", "done", "failed"}

PPInit ==
    /\ SystemInit
    /\ pongPc = "start"
    /\ pingPc = "off"
    /\ toPong = 0 /\ toPing = 0
    /\ pings = 0 /\ pongs = 0

-----------------------------------------------------------------------------
(* Mutants: plausible slips in the examples.                               *)

\* on_pong stops one round late: `> 5` for `>= 5` (line 83)
PingOnPongLate ==
    /\ pingPc = "pinging"
    /\ toPing > 0
    /\ toPing' = 0
    /\ IF toPing > Rounds
       THEN pingPc' = "done" /\ UNCHANGED <<toPong, pings>>
       ELSE toPong' = toPing + 1 /\ pings' = pings + 1 /\ UNCHANGED pingPc
    /\ UNCHANGED <<allVars, pongPc, pongs>>

\* on_ping forgets self.reply (line 52)
PongOnPingNoReply ==
    /\ pongPc = "running"
    /\ toPong > 0
    /\ toPong' = 0
    /\ UNCHANGED <<allVars, pongPc, pingPc, toPing, pings, pongs>>

-----------------------------------------------------------------------------
(* registry_pong.py main (lines 55-115).                                   *)

\* start_heartbeat (line 78) ran at launch; register("pong", ...) (line 85)
PongRegister ==
    /\ pongPc = "start"
    /\ AppCall(PongManager, "register", PongName)
    /\ pongPc' = "registering"
    /\ UNCHANGED <<pingPc, toPong, toPing, pings, pongs>>

\* register returned: on RegistrationOk mgr.init() (line 101); a
\* RegistryError returns 1 (lines 88-90) and any other exception, the
\* ZMQError of a wedged socket included, ends the process just the same.
PongStarted ==
    /\ pongPc = "registering"
    /\ appPc[PongManager] = "idle"
    /\ pongPc' = IF appRes[PongManager] = "ok" THEN "running" ELSE "exited"
    /\ UNCHANGED <<allVars, pingPc, toPong, toPing, pings, pongs>>

\* PongActor.on_ping (lines 50-52): reply Pong(count) to the remote sender.
PongOnPing ==
    /\ pongPc = "running"
    /\ toPong > 0
    /\ toPong' = 0
    /\ toPing' = toPong
    /\ pongs' = pongs + 1
    /\ UNCHANGED <<allVars, pongPc, pingPc, pings>>

\* Ctrl+C: signal_handler calls handle.terminate() (lines 93-95), run()
\* returns and close() stops the heartbeat and closes the socket, then
\* mgr.end() (lines 105-113).  Nothing unregisters "pong".
PongShutdown ==
    /\ pongPc = "running"
    /\ pongPc' = "stopped"
    /\ UNCHANGED <<allVars, pingPc, toPong, toPing, pings, pongs>>

-----------------------------------------------------------------------------
(* registry_ping.py: main (lines 92-149) and PingActor (lines 44-89).      *)

\* The ping process is launched once pong has finished starting up
\* (the usage notes of lines 5-6); start_heartbeat (line 115).
PingLaunch ==
    /\ pingPc = "off"
    /\ pongPc \in {"running", "exited", "stopped"}
    /\ pingPc' = "starting"
    /\ UNCHANGED <<allVars, pongPc, toPong, toPing, pings, pongs>>

\* mgr.init() (line 136) dispatches Start: on_start looks "pong" up (line 59).
PingOnStart ==
    /\ pingPc = "starting"
    /\ AppCall(PingManager, "lookup", PongName)
    /\ pingPc' = "looking"
    /\ UNCHANGED <<pongPc, toPong, toPing, pings, pongs>>

\* lookup returned (lines 59-78): send Ping(1) to the endpoint found, or
\* terminate on ActorNotFoundError, ActorOfflineError or any RegistryError.
\* A ZMQError is none of these: it escapes on_start and the actor is dead.
PingLookedUp ==
    /\ pingPc = "looking"
    /\ appPc[PingManager] = "idle"
    /\ \/ /\ appRes[PingManager] = "found"
          /\ pingPc' = "pinging"
          /\ toPong' = 1
          /\ pings' = pings + 1
       \/ /\ appRes[PingManager] \in {"notfound", "offline", "timeout", "unexpected"}
          /\ pingPc' = "failed"
          /\ UNCHANGED <<toPong, pings>>
       \/ /\ appRes[PingManager] = "zmqerror"
          /\ pingPc' = "dead"
          /\ UNCHANGED <<toPong, pings>>
    /\ UNCHANGED <<allVars, pongPc, toPing, pongs>>

\* PingActor.on_pong (lines 80-89): Pong(Rounds) terminates, else Ping(k+1).
PingOnPong ==
    /\ pingPc = "pinging"
    /\ toPing > 0
    /\ toPing' = 0
    /\ IF toPing >= Rounds
       THEN pingPc' = "done" /\ UNCHANGED <<toPong, pings>>
       ELSE toPong' = toPing + 1 /\ pings' = pings + 1 /\ UNCHANGED pingPc
    /\ UNCHANGED <<allVars, pongPc, pongs>>

-----------------------------------------------------------------------------
ClientThreads(m) ==
    \/ HbSend(m) \/ HbRecv(m) \/ HbTimeout(m) \/ HbWake(m)
    \/ AppSend(m) \/ AppRecv(m) \/ AppTimeout(m)

ExampleStep ==
    \/ PongRegister \/ PongStarted \/ PongOnPing
    \/ PingLaunch \/ PingOnStart \/ PingLookedUp \/ PingOnPong

Example == ExampleStep \/ PongShutdown

PPNext ==
    \/ \E m \in Managers : Alive(m) /\ ClientThreads(m) /\ UNCHANGED ppVars
    \/ \E m \in Managers : Serve(m) /\ UNCHANGED ppVars
    \/ (ServerTimeStep \/ Crash \/ Restart) /\ UNCHANGED ppVars
    \/ Example

(* The client and registry fairness of RegistryClient, for live processes; *)
(* every example step that is enabled is eventually taken (a worker pops   *)
(* its mailbox, a pushed message is delivered, the operator launches ping),*)
(* except the operator's Ctrl+C to pong, which may never come.             *)
PPSpec ==
    /\ PPInit
    /\ [][PPNext]_ppAll
    /\ \A m \in Managers :
           /\ WF_ppAll(Serve(m) /\ UNCHANGED ppVars)
           /\ SF_ppAll(Alive(m) /\ HbSend(m) /\ UNCHANGED ppVars)
           /\ SF_ppAll(Alive(m) /\ AppSend(m) /\ UNCHANGED ppVars)
           /\ WF_ppAll(Alive(m) /\ (HbRecv(m) \/ HbTimeout(m)) /\ UNCHANGED ppVars)
           /\ WF_ppAll(Alive(m) /\ (AppRecv(m) \/ AppTimeout(m)) /\ UNCHANGED ppVars)
           /\ WF_ppAll(Alive(m) /\ HbWake(m) /\ UNCHANGED ppVars)
    /\ WF_ppAll(ServerTimeStep /\ UNCHANGED ppVars)
    /\ WF_ppAll(Restart /\ UNCHANGED ppVars)
    /\ WF_ppAll(ExampleStep)

PingPongTypeOK ==
    /\ ClientTypeOK
    /\ pongPc \in {"start", "registering", "running", "exited", "stopped"}
    /\ pingPc \in {"off", "starting", "looking", "pinging", "done", "failed", "dead"}
    /\ toPong \in 0..Rounds /\ toPing \in 0..Rounds
    /\ pings \in 0..Rounds /\ pongs \in 0..Rounds

-----------------------------------------------------------------------------
(* Spec scenario S2: a ping process that completes has exchanged exactly   *)
(* Rounds Ping and Rounds Pong messages (on_pong's `>= 5`, line 83, and    *)
(* on_ping's single reply, line 52, together).                             *)
ExactlyRoundsExchanged ==
    pingPc = "done" => pings = Rounds /\ pongs = Rounds

(* Once ping has found pong and sent Ping(1), and while the pong process  *)
(* runs, the game runs to the end unless pong is shut down: every Ping is  *)
(* answered to its remote sender and every Pong below Rounds is followed   *)
(* by the next Ping (on_ping line 52, on_pong lines 83-89).                *)
GameCompletesWithPong ==
    (pingPc = "pinging" /\ pongPc = "running")
        ~> (pingPc = "done" \/ pongPc = "stopped")

(* Spec scenario S2: a ping process that has found "pong" in the registry  *)
(* completes the game, unless the operator stops pong with Ctrl+C (lines   *)
(* 93-113).  A pong whose register raised (lines 85-90) has left its row   *)
(* behind in the registry, so ping may find it although no pong runs.      *)
GameCompletes ==
    (pingPc = "pinging" /\ pongPc # "stopped")
        ~> (pingPc = "done" \/ pongPc = "stopped")

(* Spec 4.3 and registry_ping.py lines 57-78: on_start either starts the   *)
(* game or terminates the process on a registry error, so the ping         *)
(* process never hangs in mgr.run() after its lookup.                      *)
OnStartConcludes ==
    pingPc = "looking" ~> pingPc \in {"pinging", "done", "failed"}

=============================================================================
