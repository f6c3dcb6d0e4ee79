--------------------------- MODULE RegistryClient ---------------------------
(***************************************************************************)
(* Every manager's RegistryClient (src/python/actors/registry_client.py)   *)
(* talking to the registry process over ZMQ REQ/REP.  A client has two     *)
(* threads that share one REQ socket behind _socket_lock: the heartbeat    *)
(* thread (_heartbeat_loop) and the application thread that calls          *)
(* register / lookup / lookup_allow_offline.  The registry answers each    *)
(* request with one atomic handler of RegistryAtomic and may crash and be  *)
(* restarted, losing its tables and the requests it had taken in.         *)
(*                                                                         *)
(* The REQ socket is a strict state machine: send is legal only when the   *)
(* previous reply has been received, otherwise it raises ZMQError (EFSM);  *)
(* recv waits at most RCVTIMEO (line 96) and then raises zmq.Again,        *)
(* leaving the socket still waiting for its reply.                         *)
(***************************************************************************)
EXTENDS RegistryAtomic

CONSTANT MaxCrashes   \* bound on registry process crashes

ASSUME MaxCrashes \in Nat

VARIABLES
    up,       \* the registry process is running
    crashes,  \* crashes so far (bounded by MaxCrashes)
    req,      \* req[m]: request of m's socket not yet taken by the registry
    rep,      \* rep[m]: reply waiting in m's socket
    sock,     \* sock[m]: "none" (self._socket is None), "ready", "wait"
    lock,     \* lock[m]: holder of _socket_lock: "free", "hb", "app"
    hbPc,     \* hbPc[m]: heartbeat thread: "send", "recv", "sleep"
    appPc,    \* appPc[m]: application thread: "idle", "send", "recv"
    appCall,  \* appCall[m]: the current call [op, name]
    appGot,   \* appGot[m]: the reply the current call received
    appRes    \* appRes[m]: how the last call ended

serverVars == <<registry, managerActors, heartbeats, reply, fresh>>
clientVars == <<req, rep, sock, lock, hbPc, appPc, appCall, appGot, appRes>>
allVars    == <<serverVars, up, crashes, clientVars>>

Ops     == {"register", "lookup", "lookup_allow_offline"}
Results == {"none", "ok", "failed", "found", "notfound", "offline",
            "timeout", "zmqerror", "unexpected"}

Request(type, m, n) == [type |-> type, m |-> m, n |-> n]

\* the request message each operation puts on the socket (lines 150, 185, 220)
RequestFor(m, call) ==
    IF call.op = "register" THEN Request("RegisterActor", m, call.name)
                            ELSE Request("LookupActor", m, call.name)

NoCall == [op |-> "register", name |-> NULL]

ClientInit ==
    /\ up = TRUE
    /\ crashes = 0
    /\ req = [m \in Managers |-> NULL]
    /\ rep = [m \in Managers |-> NULL]
    /\ sock = [m \in Managers |-> "none"]
    /\ lock = [m \in Managers |-> "free"]
    /\ hbPc = [m \in Managers |-> "send"]
    /\ appPc = [m \in Managers |-> "idle"]
    /\ appCall = [m \in Managers |-> NoCall]
    /\ appGot = [m \in Managers |-> NoReply]
    /\ appRes = [m \in Managers |-> "none"]

SystemInit == Init /\ ClientInit

-----------------------------------------------------------------------------
(* Classification of a reply by the calling method.                        *)

\* register (lines 161-169)
RegisterResult(r) ==
    CASE r.type = "RegistrationOk"     -> "ok"
      [] r.type = "RegistrationFailed" -> "failed"
      [] OTHER                         -> "unexpected"

\* lookup (lines 192-202) and lookup_allow_offline (lines 227-235)
LookupResult(op, r) ==
    CASE r.type # "LookupResult"                        -> "unexpected"
      [] r.endpoint = NULL                              -> "notfound"
      [] ~r.online /\ op = "lookup"                     -> "offline"
      [] OTHER                                          -> "found"

Classify(call, r) ==
    IF call.op = "register" THEN RegisterResult(r) ELSE LookupResult(call.op, r)

-----------------------------------------------------------------------------
(* The registry process: one request at a time, each handled atomically.   *)

\* run_registry's loop body (lines 367-440): take m's request, run the
\* handler, send its reply back to m's socket.
Serve(m) ==
    /\ up
    /\ req[m] # NULL
    /\ \/ req[m].type = "RegisterActor" /\ Register(req[m].m, req[m].n)
       \/ req[m].type = "LookupActor"   /\ Lookup(req[m].n)
       \/ req[m].type = "Heartbeat"     /\ Heartbeat(req[m].m)
    /\ req' = [req EXCEPT ![m] = NULL]
    /\ rep' = [rep EXCEPT ![m] = reply']
    /\ UNCHANGED <<up, crashes, sock, lock, hbPc, appPc, appCall, appGot, appRes>>

\* The monitor thread and the clock run only while the process is up.
ServerTimeStep ==
    /\ up
    /\ Sweep \/ Tick
    /\ UNCHANGED <<up, crashes, clientVars>>

\* The registry process dies.  Nothing is persisted: a restarted process
\* starts from empty tables (run_registry creates a new GlobalRegistry).
\* Requests it had already taken in are lost; requests still queued on the
\* clients' side are delivered to the next process.
Crash ==
    /\ up
    /\ crashes < MaxCrashes
    /\ up' = FALSE
    /\ crashes' = crashes + 1
    /\ registry' = << >> /\ managerActors' = << >> /\ heartbeats' = << >>
    /\ reply' = NoReply /\ fresh' = {}
    /\ \E lost \in SUBSET {m \in Managers : req[m] # NULL} :
           req' = [m \in Managers |-> IF m \in lost THEN NULL ELSE req[m]]
    /\ UNCHANGED <<rep, sock, lock, hbPc, appPc, appCall, appGot, appRes>>

Restart ==
    /\ ~up
    /\ up' = TRUE
    /\ UNCHANGED <<serverVars, crashes, clientVars>>

-----------------------------------------------------------------------------
(* Mutants: plausible slips in the client, used to show that the           *)
(* properties detect them.                                                 *)

\* the heartbeat is built without its manager_id (line 131)
HbSendNoManager(m) ==
    /\ hbPc[m] = "send"
    /\ lock[m] = "free"
    /\ \/ /\ sock[m] # "wait"
          /\ sock' = [sock EXCEPT ![m] = "wait"]
          /\ req' = [req EXCEPT ![m] = Request("Heartbeat", NULL, NULL)]
          /\ lock' = [lock EXCEPT ![m] = "hb"]
          /\ hbPc' = [hbPc EXCEPT ![m] = "recv"]
       \/ /\ sock[m] = "wait"
          /\ hbPc' = [hbPc EXCEPT ![m] = "sleep"]
          /\ UNCHANGED <<sock, req, lock>>
    /\ UNCHANGED <<serverVars, up, crashes, rep, appPc, appCall, appGot, appRes>>

\* the socket is made ZMQ_REQ_RELAXED to get past EFSM, without
\* ZMQ_REQ_CORRELATE: a send is accepted while a reply is still owed
AppSendRelaxed(m) ==
    /\ appPc[m] = "send"
    /\ lock[m] = "free"
    /\ sock' = [sock EXCEPT ![m] = "wait"]
    /\ req' = [req EXCEPT ![m] = RequestFor(m, appCall[m])]
    /\ lock' = [lock EXCEPT ![m] = "app"]
    /\ appPc' = [appPc EXCEPT ![m] = "recv"]
    /\ UNCHANGED <<serverVars, up, crashes, rep, hbPc, appCall, appGot, appRes>>

\* the socket gets no RCVTIMEO (line 96): recv never gives up
AppTimeoutNever(m) == FALSE /\ UNCHANGED allVars

\* the heartbeat's recv has no RCVTIMEO either (line 96 missing)
HbTimeoutNever(m) == FALSE /\ UNCHANGED allVars

-----------------------------------------------------------------------------
(* The heartbeat thread, _heartbeat_loop (lines 127-137).  Every exception *)
(* of _send_recv is swallowed (lines 133-135) and the loop sleeps on.      *)

\* with self._socket_lock: _get_socket(); send_json(...)  (lines 102-104).
\* A send on a socket still waiting for a reply raises ZMQError (EFSM); the
\* with-block releases the lock and the exception is swallowed.
HbSend(m) ==
    /\ hbPc[m] = "send"
    /\ lock[m] = "free"
    /\ \/ /\ sock[m] # "wait"
          /\ sock' = [sock EXCEPT ![m] = "wait"]
          /\ req' = [req EXCEPT ![m] = Request("Heartbeat", m, NULL)]
          /\ lock' = [lock EXCEPT ![m] = "hb"]
          /\ hbPc' = [hbPc EXCEPT ![m] = "recv"]
       \/ /\ sock[m] = "wait"
          /\ hbPc' = [hbPc EXCEPT ![m] = "sleep"]
          /\ UNCHANGED <<sock, req, lock>>
    /\ UNCHANGED <<serverVars, up, crashes, rep, appPc, appCall, appGot, appRes>>

\* recv_json returns the reply (line 105); the reply is not looked at.
HbRecv(m) ==
    /\ hbPc[m] = "recv"
    /\ rep[m] # NULL
    /\ rep' = [rep EXCEPT ![m] = NULL]
    /\ sock' = [sock EXCEPT ![m] = "ready"]
    /\ lock' = [lock EXCEPT ![m] = "free"]
    /\ hbPc' = [hbPc EXCEPT ![m] = "sleep"]
    /\ UNCHANGED <<serverVars, up, crashes, req, appPc, appCall, appGot, appRes>>

\* recv_json raises zmq.Again after RCVTIMEO with no reply; the socket keeps
\* waiting for the reply that may still come.
HbTimeout(m) ==
    /\ hbPc[m] = "recv"
    /\ rep[m] = NULL
    /\ lock' = [lock EXCEPT ![m] = "free"]
    /\ hbPc' = [hbPc EXCEPT ![m] = "sleep"]
    /\ UNCHANGED <<serverVars, up, crashes, req, rep, sock, appPc, appCall,
                   appGot, appRes>>

\* _running: set by start_heartbeat when the client starts (lines 107-118),
\* cleared by stop_heartbeat, which only close() calls here.
HbRunning(m) == appPc[m] \notin {"closing", "closed"}

\* time.sleep(HEARTBEAT_INTERVAL_S), then `while self._running` (lines 129,
\* 137): the next iteration, or the thread ends.
HbWake(m) ==
    /\ hbPc[m] = "sleep"
    /\ hbPc' = [hbPc EXCEPT ![m] = IF HbRunning(m) THEN "send" ELSE "stopped"]
    /\ UNCHANGED <<serverVars, up, crashes, req, rep, sock, lock, appPc,
                   appCall, appGot, appRes>>

-----------------------------------------------------------------------------
(* The application thread: register (139-169), lookup (171-202),           *)
(* lookup_allow_offline (204-235), each one _send_recv round trip.         *)

AppCall(m, op, n) ==
    /\ appPc[m] = "idle"
    /\ appPc' = [appPc EXCEPT ![m] = "send"]
    /\ appCall' = [appCall EXCEPT ![m] = [op |-> op, name |-> n]]
    /\ appGot' = [appGot EXCEPT ![m] = NoReply]
    /\ UNCHANGED <<serverVars, up, crashes, req, rep, sock, lock, hbPc, appRes>>

\* Acquire _socket_lock and send.  On a socket still waiting for a reply the
\* ZMQError (EFSM) is not zmq.Again, so it escapes the method unconverted.
AppSend(m) ==
    /\ appPc[m] = "send"
    /\ lock[m] = "free"
    /\ \/ /\ sock[m] # "wait"
          /\ sock' = [sock EXCEPT ![m] = "wait"]
          /\ req' = [req EXCEPT ![m] = RequestFor(m, appCall[m])]
          /\ lock' = [lock EXCEPT ![m] = "app"]
          /\ appPc' = [appPc EXCEPT ![m] = "recv"]
          /\ UNCHANGED appRes
       \/ /\ sock[m] = "wait"
          /\ appPc' = [appPc EXCEPT ![m] = "idle"]
          /\ appRes' = [appRes EXCEPT ![m] = "zmqerror"]
          /\ UNCHANGED <<sock, req, lock>>
    /\ UNCHANGED <<serverVars, up, crashes, rep, hbPc, appCall, appGot>>

\* recv_json returns; the method classifies the reply.
AppRecv(m) ==
    /\ appPc[m] = "recv"
    /\ rep[m] # NULL
    /\ appGot' = [appGot EXCEPT ![m] = rep[m]]
    /\ appRes' = [appRes EXCEPT ![m] = Classify(appCall[m], rep[m])]
    /\ rep' = [rep EXCEPT ![m] = NULL]
    /\ sock' = [sock EXCEPT ![m] = "ready"]
    /\ lock' = [lock EXCEPT ![m] = "free"]
    /\ appPc' = [appPc EXCEPT ![m] = "idle"]
    /\ UNCHANGED <<serverVars, up, crashes, req, hbPc, appCall>>

\* zmq.Again after RCVTIMEO becomes TimeoutError (lines 158-159, 189-190).
AppTimeout(m) ==
    /\ appPc[m] = "recv"
    /\ rep[m] = NULL
    /\ appRes' = [appRes EXCEPT ![m] = "timeout"]
    /\ lock' = [lock EXCEPT ![m] = "free"]
    /\ appPc' = [appPc EXCEPT ![m] = "idle"]
    /\ UNCHANGED <<serverVars, up, crashes, req, rep, sock, hbPc, appCall, appGot>>

\* close() begins with stop_heartbeat (lines 120-125, 239): _running =
\* False, then join(timeout=3.0), which returns whether or not the thread
\* has ended (a recv may block it for RCVTIMEO = 5 s).
AppClose(m) ==
    /\ appPc[m] = "idle"
    /\ appPc' = [appPc EXCEPT ![m] = "closing"]
    /\ UNCHANGED <<serverVars, up, crashes, req, rep, sock, lock, hbPc,
                   appCall, appGot, appRes>>

\* with self._socket_lock: close the socket, _socket = None (lines 240-243).
\* A reply still due to the closed socket can never reach the client; the
\* request still queued on it (at most a heartbeat that timed out) is taken
\* as never delivered.  A heartbeat thread still past its loop test creates
\* a new socket later.
AppCloseSocket(m) ==
    /\ appPc[m] = "closing"
    /\ lock[m] = "free"
    /\ sock' = [sock EXCEPT ![m] = "none"]
    /\ req' = [req EXCEPT ![m] = NULL]
    /\ rep' = [rep EXCEPT ![m] = NULL]
    /\ appPc' = [appPc EXCEPT ![m] = "closed"]
    /\ UNCHANGED <<serverVars, up, crashes, lock, hbPc,
                   appCall, appGot, appRes>>

-----------------------------------------------------------------------------
ClientStep(m) ==
    \/ HbSend(m) \/ HbRecv(m) \/ HbTimeout(m) \/ HbWake(m)
    \/ \E op \in Ops, n \in Names : AppCall(m, op, n)
    \/ AppSend(m) \/ AppRecv(m) \/ AppTimeout(m)
    \/ AppClose(m) \/ AppCloseSocket(m)

SystemNext ==
    \/ \E m \in Managers : ClientStep(m) \/ Serve(m)
    \/ ServerTimeStep
    \/ Crash
    \/ Restart

(* Threads run and the registry serves whatever is queued; a recv ends by  *)
(* its reply or by RCVTIMEO; a crashed registry is restarted.  Lock waits  *)
(* are strongly fair: each thread holds _socket_lock for one round trip    *)
(* and the heartbeat thread then sleeps, so the lock is free again and     *)
(* again.  Nobody is forced to call the client.                            *)
SystemSpec ==
    /\ SystemInit
    /\ [][SystemNext]_allVars
    /\ \A m \in Managers :
           /\ WF_allVars(Serve(m))
           /\ SF_allVars(HbSend(m)) /\ SF_allVars(AppSend(m))
           /\ WF_allVars(HbRecv(m) \/ HbTimeout(m))
           /\ WF_allVars(AppRecv(m) \/ AppTimeout(m))
           /\ WF_allVars(HbWake(m))
           /\ WF_allVars(AppCloseSocket(m))
    /\ WF_allVars(ServerTimeStep)
    /\ WF_allVars(Restart)

ClientTypeOK ==
    /\ RegistryTypeOK
    /\ up \in BOOLEAN
    /\ crashes \in 0..MaxCrashes
    /\ req \in [Managers -> {NULL} \cup
                 [type : {"RegisterActor", "LookupActor", "Heartbeat"},
                  m : Managers, n : Names \cup {NULL}]]
    /\ rep \in [Managers -> {NULL} \cup
                 [type : ReplyTypes, name : Names \cup {NULL},
                  endpoint : Managers \cup {NULL}, online : BOOLEAN]]
    /\ sock \in [Managers -> {"none", "ready", "wait"}]
    /\ lock \in [Managers -> {"free", "hb", "app"}]
    /\ hbPc \in [Managers -> {"send", "recv", "sleep", "stopped"}]
    /\ appPc \in [Managers -> {"idle", "send", "recv", "closing", "closed"}]
    /\ appCall \in [Managers -> [op : Ops, name : Names \cup {NULL}]]
    /\ appRes \in [Managers -> Results]

-----------------------------------------------------------------------------
(* The reply a call returns answers that call: a register gets a          *)
(* registration reply for its own name, a lookup a LookupResult for its   *)
(* own name.  _send_recv (lines 100-105) never checks this; it holds only  *)
(* because _socket_lock serialises the two threads and the REQ socket      *)
(* refuses a new send until the old reply is read, even after a timeout.   *)
Answers(call, r) ==
    /\ r.name = call.name
    /\ IF call.op = "register"
       THEN r.type \in {"RegistrationOk", "RegistrationFailed"}
       ELSE r.type = "LookupResult"

ReplyMatchesRequest ==
    \A m \in Managers :
        appGot[m] # NoReply => Answers(appCall[m], appGot[m])

(* Every register / lookup call returns, with a result or an error: the    *)
(* lock is always released and recv is bounded by RCVTIMEO (line 96), even *)
(* when the registry crashed with the request.                             *)
CallsReturn ==
    \A m \in Managers : appPc[m] = "send" ~> appPc[m] = "idle"

(* close() returns: it waits for _socket_lock, which the heartbeat thread  *)
(* holds through its whole recv, and only RCVTIMEO (line 96) bounds that   *)
(* wait when the registry crashed holding the heartbeat (lines 100-105,    *)
(* 237-243).                                                               *)
ClientCloses ==
    \A m \in Managers : appPc[m] = "closing" ~> appPc[m] = "closed"

(* Spec 4.6: register and lookup fail with AlreadyRegistered, NotFound,    *)
(* Offline or Timeout; a transport failure surfaces as Timeout.  The code  *)
(* lets the EFSM ZMQError of a send after a timeout escape instead.        *)
ErrorsAsSpecified ==
    \A m \in Managers : appRes[m] \notin {"zmqerror", "unexpected"}

(* Spec 4.6 / 4.7: the heartbeat loop keeps heart-beating through failures *)
(* ("failures are logged but do not halt the loop"), so while the registry *)
(* stays up, a manager's heartbeats keep reaching it until it is closed.  *)
HeartbeatsKeepArriving ==
    \A m \in Managers :
        <>[]HbRunning(m) =>
            []<>(<<Serve(m) /\ req[m].type = "Heartbeat">>_allVars)

=============================================================================
