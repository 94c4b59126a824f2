-------------------------- MODULE DispatcherProofs --------------------------
(***************************************************************************)
(* The home server starts to listen only when every worker has reported    *)
(* in, because its counter starts at 0; no session starts on a worker that *)
(* is not ready; and the load stays level: for any number of workers and   *)
(* connections.  First the start-up, which is ThreadPool's part of the     *)
(* state; then who may accept, post and run when.                          *)
(***************************************************************************)
EXTENDS Dispatcher, FiniteSetTheorems, WellFoundedInduction, TLAPS

ReadySet == {w \in Worker : Ready(w)}

\* The inductive invariant for a counter that starts at 0.
PoolInv ==
  /\ workerPc \in [Worker -> {"none", "starting", "counted", "notified",
                              "failed"}]
  /\ mainPc \in {"spawn", "check", "falsified", "asleep", "work"}
  /\ sonThreadStatus_ = Cardinality(ReadySet)
  /\ WorkOnlyWhenReady

\* The workers are as many as threadSize_ says.
LEMMA Workers ==
  /\ threadSize_ \in Nat \ {0}
  /\ IsFiniteSet(Worker) /\ Cardinality(Worker) = threadSize_
<1>1. threadSize_ \in Nat \ {0}
  BY ThreadPoolAssumption DEF ThreadPoolAssumption
<1> QED
  BY <1>1, FS_Interval DEF Worker

LEMMA ReadyFinite == IsFiniteSet(ReadySet) /\ Cardinality(ReadySet) \in Nat
<1>1. ReadySet \in SUBSET Worker
  BY DEF ReadySet
<1> QED
  BY <1>1, Workers, FS_Subset, FS_CardinalityType

\* A counter that has reached threadSize_ has counted every worker.
LEMMA AllCounted ==
  ASSUME PoolInv, sonThreadStatus_ = threadSize_
  PROVE  \A w \in Worker : Ready(w)
<1>1. ReadySet \in SUBSET Worker /\ Cardinality(ReadySet) = Cardinality(Worker)
  BY Workers DEF PoolInv, ReadySet
<1>2. ReadySet = Worker
  BY <1>1, Workers, FS_Subset
<1> QED
  BY <1>2 DEF ReadySet

LEMMA PoolInit ==
  ASSUME InitialStatus = {0}
  PROVE  Init => PoolInv
<1> SUFFICES ASSUME Init PROVE PoolInv
  OBVIOUS
<1>1. ReadySet = {}
  BY DEF Init, ReadySet, Ready
<1>2. sonThreadStatus_ = Cardinality(ReadySet)
  BY <1>1, FS_EmptySet DEF Init
<1> QED
  BY <1>2 DEF Init, PoolInv, WorkOnlyWhenReady

\* A step that makes no worker ready leaves the count right.
LEMMA SameReady ==
  ASSUME PoolInv, \A w \in Worker : Ready(w)' <=> Ready(w),
         UNCHANGED sonThreadStatus_
  PROVE  sonThreadStatus_' = Cardinality(ReadySet')
<1>1. ReadySet' = ReadySet
  BY DEF ReadySet
<1> QED
  BY <1>1 DEF PoolInv

LEMMA PoolStep == PoolInv /\ [Next]_vars => PoolInv'
<1> SUFFICES ASSUME PoolInv, [Next]_vars PROVE PoolInv'
  OBVIOUS
<1>1. CASE spawn
  <2>1. PICK w \in Worker :
          /\ workerPc[w] = "none"
          /\ workerPc' = [workerPc EXCEPT ![w] = "starting"]
          /\ mainPc' \in {"check", "spawn"}
    BY <1>1 DEF spawn
  <2>2. \A v \in Worker : Ready(v)' <=> Ready(v)
    BY <2>1 DEF PoolInv, Ready
  <2>3. sonThreadStatus_' = Cardinality(ReadySet')
    BY <1>1, <2>2, SameReady DEF spawn
  <2> QED
    BY <2>1, <2>3 DEF PoolInv, WorkOnlyWhenReady
<1>2. CASE check
  <2>1. UNCHANGED <<workerPc, sonThreadStatus_>>
    BY <1>2 DEF check
  <2>2. sonThreadStatus_' = Cardinality(ReadySet')
    BY <2>1, SameReady DEF Ready
  <2>3. WorkOnlyWhenReady'
    BY <1>2, <2>1, AllCounted DEF check, WorkOnlyWhenReady, Ready
  <2> QED
    BY <1>2, <2>1, <2>2, <2>3 DEF PoolInv, check
<1>3. CASE sleep \/ wakeSpuriously
  <2>1. /\ UNCHANGED <<workerPc, sonThreadStatus_>>
        /\ mainPc' \in {"asleep", "check"}
    BY <1>3 DEF sleep, wakeSpuriously
  <2>2. sonThreadStatus_' = Cardinality(ReadySet')
    BY <2>1, SameReady DEF Ready
  <2> QED
    BY <2>1, <2>2 DEF PoolInv, WorkOnlyWhenReady
<1>4. ASSUME NEW w \in Worker, report(w) PROVE PoolInv'
  <2>1. /\ workerPc[w] = "starting"
        /\ workerPc' = [workerPc EXCEPT ![w] = "counted"]
        /\ sonThreadStatus_' = sonThreadStatus_ + 1 /\ UNCHANGED mainPc
    BY <1>4 DEF report
  <2>2. w \notin ReadySet /\ ReadySet' = ReadySet \cup {w}
    BY <2>1 DEF PoolInv, ReadySet, Ready
  <2>3. Cardinality(ReadySet \cup {w}) = Cardinality(ReadySet) + 1
    BY <2>2, ReadyFinite, FS_AddElement
  <2> QED
    BY <2>1, <2>2, <2>3 DEF PoolInv, WorkOnlyWhenReady, Ready
<1>5. ASSUME NEW w \in Worker, connectFails(w) PROVE PoolInv'
  <2>1. /\ workerPc[w] = "starting"
        /\ workerPc' = [workerPc EXCEPT ![w] = "failed"]
        /\ UNCHANGED <<mainPc, sonThreadStatus_>>
    BY <1>5 DEF connectFails
  <2>2. \A v \in Worker : Ready(v)' <=> Ready(v)
    BY <2>1 DEF PoolInv, Ready
  <2>3. sonThreadStatus_' = Cardinality(ReadySet')
    BY <2>1, <2>2, SameReady
  <2> QED
    BY <2>1, <2>2, <2>3 DEF PoolInv, WorkOnlyWhenReady
<1>6. ASSUME NEW w \in Worker, notify(w) PROVE PoolInv'
  <2>1. /\ workerPc[w] = "counted"
        /\ workerPc' = [workerPc EXCEPT ![w] = "notified"]
        /\ mainPc' \in {mainPc, "check"} /\ UNCHANGED sonThreadStatus_
    BY <1>6 DEF notify
  <2>2. \A v \in Worker : Ready(v)' <=> Ready(v)
    BY <2>1 DEF PoolInv, Ready
  <2>3. sonThreadStatus_' = Cardinality(ReadySet')
    BY <2>1, <2>2, SameReady
  <2> QED
    BY <2>1, <2>2, <2>3 DEF PoolInv, WorkOnlyWhenReady
<1>7. CASE UNCHANGED vars
  <2>1. sonThreadStatus_' = Cardinality(ReadySet')
    BY <1>7, SameReady DEF vars, Ready
  <2> QED
    BY <1>7, <2>1 DEF vars, PoolInv, WorkOnlyWhenReady, Ready
<1> QED
  BY <1>1, <1>2, <1>3, <1>4, <1>5, <1>6, <1>7 DEF Next, MainStep, WorkerStep

\* The acceptor starts after every worker has connected its UDP socket, even
\* when some worker's connect fails; it needs the counter to start at 0, as
\* the home server's constructor ensures.
THEOREM ListenAfterReady ==
  ASSUME InitialStatus = {0}
  PROVE  Spec => []WorkOnlyWhenReady
<1>1. PoolInv => WorkOnlyWhenReady
  BY DEF PoolInv
<1> QED
  BY <1>1, PoolInit, PoolStep, PTL DEF Spec

\* The counter is never more than the number of workers that reported in.
THEOREM PoolTypeOK ==
  ASSUME InitialStatus = {0}
  PROVE  Spec => []TypeOK
<1>1. PoolInv => TypeOK
  BY ReadyFinite DEF PoolInv, TypeOK, ReadySet
<1> QED
  BY <1>1, PoolInit, PoolStep, PTL DEF Spec
-----------------------------------------------------------------------------
\* The start-up's part of the state behaves as ThreadPool says.
LEMMA PoolStarts == DispatcherInit => PoolInv
BY PoolInit, DispatcherAssumption DEF DispatcherInit, DispatcherAssumption

LEMMA PoolStepsOrRests == [DispatcherNext]_dispatcherVars => [Next]_vars
BY DEF DispatcherNext, dispatcherVars, checkSeverAlive, startThreadPool,
       accept, acceptFails, registerSession, closeSession

\* Once the main thread works it goes on, and a ready worker stays ready.
LEMMA PoolMonotone ==
  ASSUME PoolInv, Next
  PROVE  /\ mainPc = "work" => mainPc' = "work"
         /\ \A w \in Worker :
              workerPc[w] = "notified" => workerPc'[w] = "notified"
BY DEF PoolInv, Next, MainStep, WorkerStep, spawn, check, sleep,
       wakeSpuriously, report, connectFails, notify
\* The dispatcher starts its workers as ThreadPool does.
THEOREM DispatcherStartsPool == DispatcherSpec => Spec
BY PoolStepsOrRests, PTL DEF DispatcherSpec, DispatcherInit, Spec
-----------------------------------------------------------------------------
\* Every set of naturals but the empty one has a least element.
LEMMA NatLeast ==
  ASSUME NEW S \in SUBSET Nat, S # {}
  PROVE  \E m \in S : \A k \in S : m <= k
<1> DEFINE R == OpToRel(<, Nat)
<1>1. IsWellFoundedOn(R, Nat)
  BY NatLessThanWellFounded
<1>2. \A x, y \in Nat : x < y => <<x, y>> \in R
  BY DEF OpToRel
<1> HIDE DEF R
<1>3. PICK m \in S : \A k \in S : ~ (<<k, m>> \in R)
  BY <1>1, WFMin
<1>4. \A k \in S : ~ (k < m)
  BY <1>2, <1>3, Zenon
<1>5. m \in Nat /\ \A k \in S : k \in Nat
  OBVIOUS
<1>6. \A k \in S : m <= k
  BY <1>4, <1>5
<1> QED
  BY <1>6

\* getThreadWorker finds a worker, and none has a smaller counter.
LEMMA LeastLoaded ==
  ASSUME NEW size \in [Worker -> Nat]
  PROVE  /\ getThreadWorker(size) \in Worker
         /\ \A v \in Worker : size[getThreadWorker(size)] <= size[v]
<1>1. Worker \in SUBSET Nat /\ 1 \in Worker
  BY ThreadPoolAssumption DEF ThreadPoolAssumption, Worker
<1> DEFINE Sizes == {size[w] : w \in Worker}
           Least == {w \in Worker : \A v \in Worker : size[w] <= size[v]}
<1>2. Sizes \in SUBSET Nat /\ Sizes # {}
  BY <1>1
<1>3. PICK m \in Sizes : \A k \in Sizes : m <= k
  BY <1>2, NatLeast
<1>4. PICK w \in Worker : size[w] = m
  BY <1>3
<1>5. w \in Least
  BY <1>3, <1>4
<1>6. Least \in SUBSET Nat /\ Least # {}
  BY <1>1, <1>5
<1>7. \E x \in Least : \A y \in Least : x <= y
  BY <1>6, NatLeast
<1>8. Min(Least) \in Least
  BY <1>7, Zenon DEF Min
<1> QED
  BY <1>8 DEF getThreadWorker
-----------------------------------------------------------------------------
\* What is known of the part of the state that ThreadPool does not have: who
\* was accepted and where, what is counted, and which accept is outstanding.
Kinds ==
  /\ probe \in {"pending", "up", "down"}
  /\ armed \in Worker \cup {0}
  /\ sessionSize \in [Worker -> Nat]
  /\ on \in [Socket -> Worker \cup {0}]
  /\ state \in [Socket -> {"none", "posted", "started", "closed"}]

\* Only the main thread that works accepts.
AcceptsWhenWorking ==
  /\ armed # 0 => mainPc = "work"
  /\ \A s \in Socket : state[s] # "none" => on[s] # 0 /\ mainPc = "work"
  /\ \A s \in Socket : state[s] = "none" => on[s] = 0

Counted ==
  \A w \in Worker : IsFiniteSet(Of(w)) /\ sessionSize[w] = Cardinality(Of(w))

\* The worker of the outstanding accept has a least counter.
ChosenLeast ==
  armed # 0 => \A v \in Worker : sessionSize[armed] <= sessionSize[v]

DispatcherInv ==
  /\ PoolInv /\ Kinds /\ AcceptsWhenWorking
  /\ StartedOnReadyWorker /\ Counted /\ ChosenLeast

\* No worker is numbered 0, which stands for none.
LEMMA WorkerNumbers == 0 \notin Worker /\ Worker \in SUBSET Nat
BY ThreadPoolAssumption DEF ThreadPoolAssumption, Worker

\* Before the start no worker runs and nothing has been accepted.
LEMMA DispatcherStarts == DispatcherInit => DispatcherInv
<1> SUFFICES ASSUME DispatcherInit PROVE DispatcherInv
  OBVIOUS
<1>1. Kinds /\ AcceptsWhenWorking /\ StartedOnReadyWorker
  BY DEF DispatcherInit, Kinds, AcceptsWhenWorking, StartedOnReadyWorker
<1>2. Counted
  <2>1. ASSUME NEW w \in Worker PROVE Of(w) = {}
    BY WorkerNumbers DEF DispatcherInit, Of
  <2> QED
    BY <2>1, FS_EmptySet DEF DispatcherInit, Counted
<1>3. ChosenLeast
  BY DEF DispatcherInit, ChosenLeast
<1> QED
  BY <1>1, <1>2, <1>3, PoolStarts DEF DispatcherInv

\* A step of the start-up: the accept is armed only when the main thread
\* begins to work.
LEMMA StartStep ==
  ASSUME DispatcherInv, startThreadPool
  PROVE  /\ Kinds' /\ AcceptsWhenWorking' /\ StartedOnReadyWorker'
         /\ Counted' /\ ChosenLeast'
<1>1. UNCHANGED <<probe, sessionSize, on, state>> /\ PoolInv /\ Next
  BY DEF startThreadPool, DispatcherInv
<1>2. /\ mainPc = "work" => mainPc' = "work"
      /\ \A w \in Worker :
           workerPc[w] = "notified" => workerPc'[w] = "notified"
  BY <1>1, PoolMonotone
<1>3. CASE mainPc # "work" /\ mainPc' = "work"
  <2>1. armed' = getThreadWorker(sessionSize)
    BY <1>3 DEF startThreadPool
  <2>2. /\ armed' \in Worker
        /\ \A v \in Worker : sessionSize[armed'] <= sessionSize[v]
    BY <2>1, LeastLoaded DEF DispatcherInv, Kinds
  <2> QED
    BY <1>1, <1>2, <1>3, <2>2 DEF DispatcherInv, Kinds, AcceptsWhenWorking,
       StartedOnReadyWorker, Counted, Of, ChosenLeast
<1>4. CASE ~ (mainPc # "work" /\ mainPc' = "work")
  <2>1. armed' = armed
    BY <1>4 DEF startThreadPool
  <2> QED
    BY <1>1, <1>2, <2>1 DEF DispatcherInv, Kinds, AcceptsWhenWorking,
       StartedOnReadyWorker, Counted, Of, ChosenLeast
<1> QED
  BY <1>3, <1>4

\* An accepted connection: the least counter goes up by one.
LEMMA AcceptStep ==
  ASSUME DispatcherInv, NEW s \in Socket, accept(s)
  PROVE  /\ Kinds' /\ AcceptsWhenWorking' /\ StartedOnReadyWorker'
         /\ Counted' /\ ChosenLeast'
<1> USE DEF DispatcherInv, Kinds, AcceptsWhenWorking
<1>1. /\ armed \in Worker /\ state[s] = "none" /\ on[s] = 0 /\ mainPc = "work"
      /\ sessionSize' = [sessionSize EXCEPT ![armed] = @ + 1]
      /\ on' = [on EXCEPT ![s] = armed]
      /\ state' = [state EXCEPT ![s] = "posted"]
      /\ armed' = getThreadWorker(sessionSize')
      /\ UNCHANGED <<vars, probe>>
  BY DEF accept
<1>2. armed # 0 /\ mainPc' = "work" /\ workerPc' = workerPc
  BY <1>1, WorkerNumbers DEF vars
<1>3. sessionSize' \in [Worker -> Nat]
  BY <1>1
<1>4. /\ armed' \in Worker
      /\ \A v \in Worker : sessionSize'[armed'] <= sessionSize'[v]
  BY <1>1, <1>3, LeastLoaded
<1>5. Kinds' /\ AcceptsWhenWorking'
  BY <1>1, <1>2, <1>3, <1>4
<1>6. StartedOnReadyWorker'
  BY <1>1, <1>2 DEF StartedOnReadyWorker
<1>7. Counted'
  <2>1. ASSUME NEW w \in Worker, w # armed
        PROVE  Of(w)' = Of(w) /\ sessionSize'[w] = sessionSize[w]
    BY <1>1, <2>1, WorkerNumbers DEF Of
  <2>2. ASSUME NEW w \in Worker, w = armed
        PROVE  IsFiniteSet(Of(w)') /\ sessionSize'[w] = Cardinality(Of(w)')
    <3>1. s \notin Of(w) /\ Of(w)' = Of(w) \cup {s}
      BY <1>1, <1>2, <2>2 DEF Of
    <3>2. sessionSize'[w] = sessionSize[w] + 1
      BY <1>1, <2>2
    <3>3. IsFiniteSet(Of(w)) /\ sessionSize[w] = Cardinality(Of(w))
      BY DEF Counted
    <3> QED
      BY <3>1, <3>2, <3>3, FS_AddElement
  <2>3. ASSUME NEW w \in Worker
        PROVE  IsFiniteSet(Of(w)') /\ sessionSize'[w] = Cardinality(Of(w)')
    <3>1. CASE w # armed
      BY <2>1, <3>1 DEF Counted
    <3> QED
      BY <2>2, <3>1
  <2> QED
    BY <2>3 DEF Counted, Of
<1>8. ChosenLeast'
  BY <1>4 DEF ChosenLeast
<1> QED
  BY <1>5, <1>6, <1>7, <1>8

\* An accept that failed: the next one is chosen again.
LEMMA AcceptFailsStep ==
  ASSUME DispatcherInv, acceptFails
  PROVE  /\ Kinds' /\ AcceptsWhenWorking' /\ StartedOnReadyWorker'
         /\ Counted' /\ ChosenLeast'
<1>1. /\ armed # 0 /\ armed' = getThreadWorker(sessionSize)
      /\ UNCHANGED <<vars, probe, sessionSize, on, state>>
  BY DEF acceptFails
<1>2. /\ armed' \in Worker
      /\ \A v \in Worker : sessionSize[armed'] <= sessionSize[v]
  BY <1>1, LeastLoaded DEF DispatcherInv, Kinds
<1> QED
  BY <1>1, <1>2 DEF vars, DispatcherInv, Kinds, AcceptsWhenWorking,
     StartedOnReadyWorker, Counted, Of, ChosenLeast

\* A posted session starts on a worker that has reported in, hence, its
\* connect handler being over, on one that has started its time wheel too.
LEMMA RegisterStep ==
  ASSUME DispatcherInv, NEW s \in Socket, registerSession(s)
  PROVE  /\ Kinds' /\ AcceptsWhenWorking' /\ StartedOnReadyWorker'
         /\ Counted' /\ ChosenLeast'
<1>1. /\ state[s] = "posted" /\ workerPc[on[s]] # "counted"
      /\ state' = [state EXCEPT ![s] = "started"]
      /\ UNCHANGED <<vars, probe, armed, sessionSize, on>>
  BY DEF registerSession
<1>2. on[s] \in Worker /\ mainPc = "work"
  BY <1>1 DEF DispatcherInv, Kinds, AcceptsWhenWorking
<1>3. workerPc[on[s]] = "notified"
  BY <1>1, <1>2 DEF DispatcherInv, PoolInv, WorkOnlyWhenReady, Ready
<1> QED
  BY <1>1, <1>3 DEF vars, DispatcherInv, Kinds, AcceptsWhenWorking,
     StartedOnReadyWorker, Counted, Of, ChosenLeast

\* The end of a session changes neither the counters nor the workers.
LEMMA CloseStep ==
  ASSUME DispatcherInv, NEW s \in Socket, closeSession(s)
  PROVE  /\ Kinds' /\ AcceptsWhenWorking' /\ StartedOnReadyWorker'
         /\ Counted' /\ ChosenLeast'
BY DEF closeSession, vars, DispatcherInv, Kinds, AcceptsWhenWorking,
   StartedOnReadyWorker, Counted, Of, ChosenLeast

\* Every step keeps the invariant.
LEMMA DispatcherStep ==
  DispatcherInv /\ [DispatcherNext]_dispatcherVars => DispatcherInv'
<1> SUFFICES ASSUME DispatcherInv, [DispatcherNext]_dispatcherVars
             PROVE  DispatcherInv'
  OBVIOUS
<1>1. PoolInv'
  BY PoolStepsOrRests, PoolStep, DispatcherAssumption
  DEF DispatcherInv, DispatcherAssumption
<1>2. CASE startThreadPool
  BY <1>1, <1>2, StartStep DEF DispatcherInv
<1>3. ASSUME NEW s \in Socket, accept(s) PROVE DispatcherInv'
  BY <1>1, <1>3, AcceptStep DEF DispatcherInv
<1>4. CASE acceptFails
  BY <1>1, <1>4, AcceptFailsStep DEF DispatcherInv
<1>5. ASSUME NEW s \in Socket, registerSession(s) PROVE DispatcherInv'
  BY <1>1, <1>5, RegisterStep DEF DispatcherInv
<1>6. ASSUME NEW s \in Socket, closeSession(s) PROVE DispatcherInv'
  BY <1>1, <1>6, CloseStep DEF DispatcherInv
<1>7. CASE checkSeverAlive
  BY <1>1, <1>7 DEF checkSeverAlive, vars, DispatcherInv, Kinds,
     AcceptsWhenWorking, StartedOnReadyWorker, Counted, Of, ChosenLeast
<1>8. CASE UNCHANGED dispatcherVars
  BY <1>1, <1>8 DEF dispatcherVars, vars, DispatcherInv, Kinds,
     AcceptsWhenWorking, StartedOnReadyWorker, Counted, Of, ChosenLeast
<1> QED
  BY <1>2, <1>3, <1>4, <1>5, <1>6, <1>7, <1>8 DEF DispatcherNext

\* The invariant holds in every behaviour.
THEOREM DispatcherInvariant == DispatcherSpec => []DispatcherInv
BY DispatcherStarts, DispatcherStep, PTL DEF DispatcherSpec

\* A session starts only on a worker whose UDP socket is connected and whose
\* time wheel turns, however many workers there are and however the threads
\* interleave while the main thread posts.
THEOREM SessionsStartOnReadyWorkers == DispatcherSpec => []StartedOnReadyWorker
BY DispatcherInvariant, PTL DEF DispatcherInv

\* Although each worker is chosen before the connection it is chosen for has
\* come, it is one that was given no more connections than any other.
THEOREM DispatcherChoosesFewest == DispatcherSpec => []ChosenHasFewest
<1>1. DispatcherInv => ChosenHasFewest
  <2> SUFFICES ASSUME DispatcherInv, armed # 0, NEW w \in Worker
               PROVE  Cardinality(Of(armed)) <= Cardinality(Of(w))
    BY DEF ChosenHasFewest
  <2>1. armed \in Worker /\ sessionSize[armed] <= sessionSize[w]
    BY DEF DispatcherInv, Kinds, ChosenLeast
  <2>2. /\ sessionSize[armed] = Cardinality(Of(armed))
        /\ sessionSize[w] = Cardinality(Of(w))
    BY <2>1 DEF DispatcherInv, Counted
  <2> QED
    BY <2>1, <2>2
<1> QED
  BY <1>1, DispatcherInvariant, PTL

\* The counter of the start-up counts the workers that reported in, and the
\* main thread's and the sessions' states are of their kinds.
THEOREM DispatcherTypes == DispatcherSpec => []DispatcherTypeOK
<1>1. PoolInv => TypeOK
  BY ReadyFinite, DispatcherAssumption
  DEF PoolInv, TypeOK, ReadySet, DispatcherAssumption
<1>2. DispatcherInv => DispatcherTypeOK
  BY <1>1 DEF DispatcherInv, Kinds, DispatcherTypeOK
<1> QED
  BY <1>2, DispatcherInvariant, PTL
=============================================================================
