----------------------------- MODULE Dispatcher -----------------------------
(***************************************************************************)
(* The main thread of the home program: it probes the remote server, lets  *)
(* ThreadPool start the workers, and then accepts connections.  It chooses *)
(* the worker of the next connection when it starts the accept, counts the *)
(* connection when it comes, and posts the rest of the work to that        *)
(* worker's thread.                                                        *)
(***************************************************************************)
EXTENDS ThreadPool, FiniteSetsExt

CONSTANT Socket     \* the connections that clients make

\* The home server's constructor.
ASSUME DispatcherAssumption == InitialStatus = {0}

VARIABLES
  probe,          \* checkSeverAlive: "pending", "up", "down"
  armed,          \* worker of the outstanding async_accept, 0 if none is
  sessionSize,    \* of each worker
  on,             \* worker of each accepted socket, 0 before
  state           \* socket: "none", "posted", "started", "closed"

dispatcherVars == <<vars, probe, armed, sessionSize, on, state>>

DispatcherInit ==
  /\ Init
  /\ probe = "pending"
  /\ armed = 0
  /\ sessionSize = [w \in Worker |-> 0]
  /\ on = [s \in Socket |-> 0]
  /\ state = [s \in Socket |-> "none"]
-----------------------------------------------------------------------------
\* The first of the workers whose counter is smallest.
getThreadWorker(size) ==
  Min({w \in Worker : \A v \in Worker : size[w] <= size[v]})

\* One TCP connect.  If it fails nothing is left to run.
checkSeverAlive ==
  /\ probe = "pending"
  /\ probe' \in {"up", "down"}
  /\ UNCHANGED <<vars, armed, sessionSize, on, state>>

\* startThreadPool, called by the probe's handler; it ends in work().
startThreadPool ==
  /\ probe = "up"
  /\ Next
  /\ armed' = IF mainPc # "work" /\ mainPc' = "work"
                THEN getThreadWorker(sessionSize) ELSE armed
  /\ UNCHANGED <<probe, sessionSize, on, state>>

\* Defect: the next accept is started before the connection is counted.
accept_ArmsFirst(s) ==
  /\ armed # 0
  /\ state[s] = "none"
  /\ sessionSize' = [sessionSize EXCEPT ![armed] = @ + 1]
  /\ on' = [on EXCEPT ![s] = armed]
  /\ state' = [state EXCEPT ![s] = "posted"]
  /\ armed' = getThreadWorker(sessionSize)
  /\ UNCHANGED <<vars, probe>>

\* The accept's handler: s goes to the worker that was chosen for it.
accept(s) ==
  /\ armed # 0
  /\ state[s] = "none"
  /\ sessionSize' = [sessionSize EXCEPT ![armed] = @ + 1]
  /\ on' = [on EXCEPT ![s] = armed]
  /\ state' = [state EXCEPT ![s] = "posted"]
  /\ armed' = getThreadWorker(sessionSize')
  /\ UNCHANGED <<vars, probe>>

\* Defect: after an error no accept is started.
acceptFails_Returns ==
  /\ armed # 0
  /\ armed' = 0
  /\ UNCHANGED <<vars, probe, sessionSize, on, state>>

\* The handler after an error (no file descriptor left, say).
acceptFails ==
  /\ armed # 0
  /\ armed' = getThreadWorker(sessionSize)
  /\ UNCHANGED <<vars, probe, sessionSize, on, state>>

\* The posted handler registers and starts the session.  It runs in the
\* worker's thread, so never in the middle of the worker's connect handler.
registerSession(s) ==
  /\ state[s] = "posted"
  /\ workerPc[on[s]] # "counted"
  /\ state' = [state EXCEPT ![s] = "started"]
  /\ UNCHANGED <<vars, probe, armed, sessionSize, on>>

\* closeSession: the worker's counter is left alone.
closeSession(s) ==
  /\ state[s] = "started"
  /\ state' = [state EXCEPT ![s] = "closed"]
  /\ UNCHANGED <<vars, probe, armed, sessionSize, on>>

DispatcherNext ==
  \/ checkSeverAlive \/ startThreadPool \/ acceptFails
  \/ \E s \in Socket : accept(s) \/ registerSession(s) \/ closeSession(s)

DispatcherSpec == DispatcherInit /\ [][DispatcherNext]_dispatcherVars

\* The workers' threads run what is posted to them; a client's connection is
\* accepted in the end, accept not failing each time.
DispatcherFairSpec ==
  /\ DispatcherSpec
  /\ \A s \in Socket :
       SF_dispatcherVars(accept(s)) /\ WF_dispatcherVars(registerSession(s))
  /\ \A w \in Worker : WF_dispatcherVars(startThreadPool /\ WorkerStep(w))
-----------------------------------------------------------------------------
DispatcherTypeOK ==
  /\ TypeOK
  /\ probe \in {"pending", "up", "down"}
  /\ armed \in Worker \cup {0}
  /\ sessionSize \in [Worker -> Nat]
  /\ on \in [Socket -> Worker \cup {0}]
  /\ state \in [Socket -> {"none", "posted", "started", "closed"}]

Of(w) == {s \in Socket : on[s] = w}

\* A session calls its worker's time wheel and UDP socket as soon as it
\* starts: when it does, on the worker's thread, that worker is connected and
\* ticking, although the main thread may have gone on, and posted the session,
\* while the worker had only reported in.
StartedOnReadyWorker ==
  \A s \in Socket :
    state[s] \in {"started", "closed"} => workerPc[on[s]] = "notified"

\* The worker of a connection is chosen when its accept is started, which may
\* be long before it comes: still it is then a worker that was given no more
\* connections than any other.  These are all the connections ever accepted,
\* not the sessions that are left of them: nothing counts sessions that end.
ChosenHasFewest ==
  armed # 0 =>
    \A w \in Worker : Cardinality(Of(armed)) <= Cardinality(Of(w))

\* Once the main thread works, every client gets its session, whatever the
\* accepts that fail meanwhile.
ClientsServed ==
  \A s \in Socket : (mainPc = "work") ~> (state[s] \in {"started", "closed"})
=============================================================================
