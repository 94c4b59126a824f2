----------------------------- MODULE ThreadPool -----------------------------
(***************************************************************************)
(* server::startThreadPool and worker::start: the main thread starts the   *)
(* workers and sleeps on a condition variable until all have reported in   *)
(* through the atomic counter sonThreadStatus_.  The workers change the    *)
(* counter and notify without taking lock_.  Both programs start this way. *)
(***************************************************************************)
EXTENDS Integers, FiniteSets

CONSTANTS
  threadSize_,      \* number of workers (4)
  InitialStatus,    \* values sonThreadStatus_ may start with
  ConnectMayFail    \* may a worker's UDP async_connect fail? (home only)

ASSUME ThreadPoolAssumption ==
  /\ threadSize_ \in Nat \ {0}
  /\ InitialStatus \subseteq Int
  /\ ConnectMayFail \in BOOLEAN

Worker == 1 .. threadSize_

VARIABLES
  mainPc,             \* "spawn", "check", "falsified", "asleep", "work"
  workerPc,           \* "none", "starting", "counted", "notified", "failed"
  sonThreadStatus_

vars == <<mainPc, workerPc, sonThreadStatus_>>

\* The home server's constructor sets sonThreadStatus_ to 0; the remote
\* server's leaves it uninitialised.
Init ==
  /\ mainPc = "spawn"
  /\ workerPc = [w \in Worker |-> "none"]
  /\ sonThreadStatus_ \in InitialStatus
-----------------------------------------------------------------------------
\* The loop of startThreadPool: the next worker's thread begins to run.
spawn ==
  /\ mainPc = "spawn"
  /\ \E w \in Worker :
       /\ workerPc[w] = "none"
       /\ \A v \in 1 .. (w - 1) : workerPc[v] # "none"
       /\ workerPc' = [workerPc EXCEPT ![w] = "starting"]
       /\ mainPc' = IF w = threadSize_ THEN "check" ELSE "spawn"
  /\ UNCHANGED sonThreadStatus_

\* conditionVariable.wait evaluates the predicate ...
check ==
  /\ mainPc = "check"
  /\ mainPc' = IF sonThreadStatus_ = threadSize_ THEN "work" ELSE "falsified"
  /\ UNCHANGED <<workerPc, sonThreadStatus_>>

\* ... and, when it is false, puts the thread to sleep.
sleep ==
  /\ mainPc = "falsified"
  /\ mainPc' = "asleep"
  /\ UNCHANGED <<workerPc, sonThreadStatus_>>

\* The standard allows a wait to return without a notification.
wakeSpuriously ==
  /\ mainPc = "asleep"
  /\ mainPc' = "check"
  /\ UNCHANGED <<workerPc, sonThreadStatus_>>

\* The worker's socket is ready: it reports in ...
report(w) ==
  /\ workerPc[w] = "starting"
  /\ workerPc' = [workerPc EXCEPT ![w] = "counted"]
  /\ sonThreadStatus_' = sonThreadStatus_ + 1
  /\ UNCHANGED mainPc

\* Defect: the worker reports in before it looks at the result.
connectFails_Reports(w) ==
  /\ ConnectMayFail
  /\ workerPc[w] = "starting"
  /\ workerPc' = [workerPc EXCEPT ![w] = "failed"]
  /\ sonThreadStatus_' = sonThreadStatus_ + 1
  /\ UNCHANGED mainPc

\* ... or its connect failed, which is only logged ...
connectFails(w) ==
  /\ ConnectMayFail
  /\ workerPc[w] = "starting"
  /\ workerPc' = [workerPc EXCEPT ![w] = "failed"]
  /\ UNCHANGED <<mainPc, sonThreadStatus_>>

\* Defect: the notification counts again.
notify_Counts(w) ==
  /\ workerPc[w] = "counted"
  /\ workerPc' = [workerPc EXCEPT ![w] = "notified"]
  /\ mainPc' = IF mainPc = "asleep" THEN "check" ELSE mainPc
  /\ sonThreadStatus_' = sonThreadStatus_ + 1

\* ... and, having reported in, starts its time wheel and calls notify_one,
\* which wakes the main thread if it is asleep and is forgotten if it is not.
notify(w) ==
  /\ workerPc[w] = "counted"
  /\ workerPc' = [workerPc EXCEPT ![w] = "notified"]
  /\ mainPc' = IF mainPc = "asleep" THEN "check" ELSE mainPc
  /\ UNCHANGED sonThreadStatus_

MainStep == spawn \/ check \/ sleep
WorkerStep(w) == report(w) \/ connectFails(w) \/ notify(w)

Next == MainStep \/ wakeSpuriously \/ \E w \in Worker : WorkerStep(w)

Spec == Init /\ [][Next]_vars

\* Every thread runs; a spurious wake-up is never owed.
FairSpec ==
  /\ Spec
  /\ WF_vars(MainStep)
  /\ \A w \in Worker : WF_vars(WorkerStep(w))
-----------------------------------------------------------------------------
Ready(w) == workerPc[w] \in {"counted", "notified"}

\* Each ready worker has been counted once: the counter cannot pass the one
\* value that the predicate of the wait compares it with.
TypeOK ==
  /\ mainPc \in {"spawn", "check", "falsified", "asleep", "work"}
  /\ workerPc \in [Worker -> {"none", "starting", "counted", "notified",
                              "failed"}]
  /\ \E i \in InitialStatus :
       sonThreadStatus_ = i + Cardinality({w \in Worker : Ready(w)})

\* "Listening starts only when the child threads are ready" (server.cpp:19);
\* the remote server says the same of its main thread (server.h:20).
WorkOnlyWhenReady == mainPc = "work" => \A w \in Worker : Ready(w)

\* The other half of the comment at server.cpp:19: once the child threads are
\* ready, listening starts.
ReadyThenWork == (\A w \in Worker : Ready(w)) ~> (mainPc = "work")
=============================================================================
