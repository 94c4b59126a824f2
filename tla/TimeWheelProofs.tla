-------------------------- MODULE TimeWheelProofs --------------------------
(***************************************************************************)
(* The linked lists of the time wheel stay intact, for any number of       *)
(* sessions, any length of the wheel and any sequence of delays.           *)
(*                                                                         *)
(* TypeOK /\ ListsIntact is inductive: the history variables list, pos and *)
(* len say where each task is, and ListsIntact says that the pointers      *)
(* agree with them, so no induction over the links is needed.              *)
(***************************************************************************)
EXTENDS TimeWheel, TLAPS

\* The slots are not tasks, and neither NULL nor RunList is a slot.
LEMMA Distinct ==
  /\ Slot \subseteq Nat
  /\ RunList \notin Slot
  /\ NULL \notin Slot /\ NULL # RunList /\ NULL \notin Task
  /\ \A t \in Task : t \notin Slot /\ t # RunList
  /\ 0 \in Slot
BY TimeWheelAssumption DEF TimeWheelAssumption, Slot, RunList

\* A task is mounted at least one tick ahead, into a slot of the ring.
LEMMA TargetInSlot ==
  ASSUME currentTaskNumber_ \in Slot, NEW ms \in Nat
  PROVE  Ticks(ms) \in Nat /\ Target(ms) \in Slot
<1>1. DeltaTime \in Nat \ {0} /\ WheelLength \in Nat \ {0}
  BY TimeWheelAssumption DEF TimeWheelAssumption
<1>2. ms \div DeltaTime \in Int
  BY <1>1
<1>3. Ticks(ms) \in Nat
  BY <1>2 DEF Ticks
<1>4. currentTaskNumber_ + Ticks(ms) \in Nat
  BY <1>3, Distinct
<1> QED
  BY <1>1, <1>3, <1>4 DEF Target, Slot

\* The empty wheel.
LEMMA InitIntact == Init => TypeOK /\ ListsIntact
<1> SUFFICES ASSUME Init PROVE TypeOK /\ ListsIntact
  OBVIOUS
<1>1. TypeOK
  <2>1. /\ next \in [Task \cup Slot -> Task \cup {NULL}]
        /\ ahead \in [Task -> Task \cup Slot \cup {NULL}]
        /\ list \in [Task -> Slot \cup {RunList, NULL}]
    BY DEF Init
  <2>2. /\ status \in [Task -> {"raw", "open", "closed"}]
        /\ pos \in [Task -> Nat]
        /\ len \in [Slot \cup {RunList} -> Nat]
        /\ slack \in [Task -> Int]
    BY DEF Init
  <2> QED
    BY <2>1, <2>2, Distinct DEF Init, TypeOK
<1>2. ListsIntact
  BY Distinct
     DEF Init, ListsIntact, Placement, ForwardLinks, BackwardLinks, HeadOf
<1> QED
  BY <1>1, <1>2

\* mountTask's two cases come to the same: in a slot that is not empty, the
\* first task's ahead_ is the header, so the header is what it redirects.
LEMMA MountLinks ==
  ASSUME TypeOK, ListsIntact, NEW t \in Task, list[t] \notin Slot,
         NEW ms \in Nat,
         mountTask(t, ms, [next EXCEPT ![t] = NULL],
                   [ahead EXCEPT ![t] = NULL])
  PROVE  LET s == Target(ms)
         IN  /\ next' = [next EXCEPT ![t] = next[s], ![s] = t]
             /\ ahead' = [u \in Task |-> IF u = t THEN s
                                         ELSE IF u = next[s] THEN t
                                         ELSE ahead[u]]
<1> DEFINE s == Target(ms)
<1>1. s \in Slot
  BY TargetInSlot DEF TypeOK
<1> HIDE DEF s
<1>2. t # s /\ NULL \notin Task
  BY <1>1, Distinct
<1>3. CASE next[s] = NULL
  BY <1>1, <1>2, <1>3 DEF mountTask, TypeOK, s
<1>4. CASE next[s] # NULL
  <2>1. next[s] \in Task /\ list[next[s]] = s /\ pos[next[s]] = len[s]
    BY <1>1, <1>4 DEF ListsIntact, ForwardLinks, HeadOf
  <2>2. ahead[next[s]] = s /\ next[s] # t
    BY <1>1, <2>1 DEF ListsIntact, BackwardLinks
  <2> QED
    BY <1>1, <1>2, <1>4, <2>1, <2>2 DEF mountTask, TypeOK, s
<1> QED
  BY <1>3, <1>4 DEF s

\* Creating a session puts its task at the head of the list of some slot.
LEMMA StartIntact ==
  ASSUME TypeOK, ListsIntact, NEW t \in Task, NEW now \in Clock,
         NEW d \in 0 .. MaxDelay, start(t, now, d)
  PROVE  TypeOK' /\ ListsIntact'
<1> DEFINE s == Target(now + d)
<1> DEFINE f == next[s]
<1>1. now + d \in Nat /\ d \in Nat
  BY TimeWheelAssumption DEF TimeWheelAssumption
<1>2. s \in Slot /\ Ticks(d) \in Nat
  BY <1>1, TargetInSlot DEF TypeOK
<1>3. status[t] = "raw" /\ list[t] = NULL /\ ~ ticking
  BY DEF start, ListsIntact, Placement, TypeOK
<1>4. /\ next' = [next EXCEPT ![t] = f, ![s] = t]
      /\ ahead' = [u \in Task |-> IF u = t THEN s
                                  ELSE IF u = f THEN t ELSE ahead[u]]
  BY <1>1, <1>2, <1>3, MountLinks, Distinct DEF start
<1>5. /\ list' = [list EXCEPT ![t] = s]
      /\ pos' = [pos EXCEPT ![t] = len[s] + 1]
      /\ len' = [len EXCEPT ![s] = len[s] + 1]
      /\ slack' = [slack EXCEPT ![t] = Ticks(d)]
      /\ status' = [status EXCEPT ![t] = "open"]
      /\ UNCHANGED <<currentTaskNumber_, cursor, ticking, driven, ran>>
  BY DEF start, Mounted
<1> HIDE DEF s
<1>6. f \in Task \cup {NULL} /\ f # t /\ t # s
  BY <1>2, <1>3, Distinct
     DEF TypeOK, ListsIntact, ForwardLinks, HeadOf
<1>7. TypeOK'
  BY <1>2, <1>4, <1>5, <1>6 DEF TypeOK
<1>8. Placement'
  BY <1>2, <1>3, <1>5, Distinct DEF TypeOK, ListsIntact, Placement
<1>9. ForwardLinks'
  BY <1>2, <1>3, <1>4, <1>5, <1>6, Distinct
     DEF TypeOK, ListsIntact, Placement, ForwardLinks, HeadOf
<1>10. BackwardLinks'
  BY <1>2, <1>3, <1>4, <1>5, <1>6, Distinct
     DEF TypeOK, ListsIntact, Placement, ForwardLinks, BackwardLinks, HeadOf
<1> QED
  BY <1>7, <1>8, <1>9, <1>10 DEF ListsIntact

\* Removing the task of a session that closes joins its two neighbours.
LEMMA RemoveIntact ==
  ASSUME TypeOK, ListsIntact, NEW t \in Task, removeTask(t)
  PROVE  TypeOK' /\ ListsIntact'
<1> DEFINE l == list[t]
<1> DEFINE a == ahead[t]
<1> DEFINE f == next[t]
<1>1. l \in Slot /\ pos[t] \in 1 .. len[l] /\ ~ ticking
  BY Distinct DEF removeTask, TypeOK, ListsIntact, Placement
<1>2. IF pos[t] = len[l] THEN a = l
      ELSE a \in Task /\ list[a] = l /\ pos[a] = pos[t] + 1
  BY <1>1 DEF ListsIntact, BackwardLinks
<1>3. IF pos[t] = 1 THEN f = NULL
      ELSE f \in Task /\ list[f] = l /\ pos[f] = pos[t] - 1
  BY <1>1, Distinct DEF ListsIntact, ForwardLinks
<1>4. /\ status' = [status EXCEPT ![t] = "closed"]
      /\ next' = [next EXCEPT ![a] = f, ![t] = NULL]
      /\ ahead' = [u \in Task |-> IF u = t THEN NULL
                                  ELSE IF u = f THEN a ELSE ahead[u]]
      /\ list' = [list EXCEPT ![t] = NULL]
      /\ pos' = [u \in Task |-> IF list[u] = l /\ pos[u] > pos[t]
                                  THEN pos[u] - 1 ELSE pos[u]]
      /\ len' = [len EXCEPT ![l] = len[l] - 1]
      /\ UNCHANGED <<currentTaskNumber_, cursor, ticking, slack, driven, ran>>
  BY DEF removeTask
<1> HIDE DEF l, a, f
<1>5. a \in Task \cup Slot /\ f \in Task \cup {NULL} /\ a # t /\ f # t
  BY <1>1, <1>2, <1>3, Distinct DEF TypeOK
<1>6. TypeOK'
  BY <1>1, <1>4, <1>5 DEF TypeOK
<1>7. Placement'
  <2>1. \A u \in Task : status'[u] = "open" <=> list'[u] # NULL
    BY <1>1, <1>4 DEF TypeOK, ListsIntact, Placement
  <2>2. \A u \in Task : list'[u] # NULL => pos'[u] \in 1 .. len'[list'[u]]
    <3> SUFFICES ASSUME NEW u \in Task, list'[u] # NULL
                 PROVE  pos'[u] \in 1 .. len'[list'[u]]
      OBVIOUS
    <3>1. u # t /\ list'[u] = list[u] /\ pos[u] \in 1 .. len[list[u]]
      BY <1>4 DEF TypeOK, ListsIntact, Placement
    <3>2. list[u] = l => pos[u] # pos[t]
      BY <1>1, <3>1, Distinct DEF ListsIntact, Placement, l
    <3>3. /\ pos[u] \in Nat /\ pos[t] \in Nat /\ len[l] \in Nat
          /\ len[list[u]] \in Nat /\ pos[t] <= len[l]
      BY <1>1, <1>4, <3>1 DEF TypeOK
    <3>4. CASE list[u] = l
      <4>1. list'[u] = l /\ len'[l] = len[l] - 1
        BY <1>1, <1>4, <3>1, <3>4 DEF TypeOK
      <4>2. pos'[u] = IF pos[u] > pos[t] THEN pos[u] - 1 ELSE pos[u]
        BY <1>4, <3>4
      <4> QED
        BY <1>1, <3>1, <3>2, <3>3, <3>4, <4>1, <4>2
    <3>5. CASE list[u] # l
      BY <1>1, <1>4, <3>1, <3>5 DEF TypeOK
    <3> QED
      BY <3>4, <3>5
  <2>3. \A u, v \in Task :
          list'[u] # NULL /\ list'[u] = list'[v] /\ pos'[u] = pos'[v] => u = v
    <3> SUFFICES ASSUME NEW u \in Task, NEW v \in Task, list'[u] # NULL,
                        list'[u] = list'[v], pos'[u] = pos'[v]
                 PROVE  u = v
      OBVIOUS
    <3>1. /\ u # t /\ v # t /\ list'[u] = list[u] /\ list'[v] = list[v]
          /\ pos[u] \in Nat /\ pos[v] \in Nat /\ pos[t] \in Nat
      BY <1>4 DEF TypeOK
    <3>2. /\ list[u] = l => pos[u] # pos[t]
          /\ list[v] = l => pos[v] # pos[t]
      BY <1>1, <3>1, Distinct DEF ListsIntact, Placement, l
    <3>3. pos[u] = pos[v]
      BY <1>1, <1>4, <3>1, <3>2
    <3> QED
      BY <3>1, <3>3 DEF ListsIntact, Placement
  <2>4. ~ ticking' => len'[RunList] = 0 /\ cursor' = NULL
    BY <1>1, <1>4, Distinct DEF TypeOK, ListsIntact, Placement
  <2> QED
    BY <2>1, <2>2, <2>3, <2>4 DEF Placement
<1>8. ForwardLinks'
  BY <1>1, <1>2, <1>3, <1>4, <1>5, Distinct
     DEF TypeOK, ListsIntact, Placement, ForwardLinks, HeadOf, l
<1>9. BackwardLinks'
  BY <1>1, <1>2, <1>3, <1>4, <1>5, Distinct
     DEF TypeOK, ListsIntact, Placement, BackwardLinks, l
<1> QED
  BY <1>6, <1>7, <1>8, <1>9 DEF ListsIntact

\* A tick takes over the list of its slot.
LEMMA BeginIntact ==
  ASSUME TypeOK, ListsIntact, beginTick
  PROVE  TypeOK' /\ ListsIntact'
<1> DEFINE s == currentTaskNumber_
<1>1. s \in Slot /\ len[RunList] = 0 /\ \A t \in Task : list[t] # RunList
  BY Distinct DEF TypeOK, ListsIntact, Placement, beginTick
<1>2. TypeOK'
  BY <1>1, Distinct DEF TypeOK, beginTick
<1>3. Placement'
  BY <1>1, Distinct DEF TypeOK, ListsIntact, Placement, beginTick
<1>4. ForwardLinks'
  BY <1>1, Distinct
     DEF TypeOK, ListsIntact, Placement, ForwardLinks, HeadOf, beginTick
<1>5. BackwardLinks'
  BY <1>1, Distinct
     DEF TypeOK, ListsIntact, Placement, BackwardLinks, beginTick
<1> QED
  BY <1>2, <1>3, <1>4, <1>5 DEF ListsIntact

\* One round of the loop takes the head of the list that is being walked and
\* puts it at the head of another.
LEMMA RunIntact ==
  ASSUME TypeOK, ListsIntact, NEW d \in 0 .. MaxDelay, runTask(d)
  PROVE  TypeOK' /\ ListsIntact'
<1> DEFINE t == cursor
<1> DEFINE s == Target(Redrive(d))
<1> DEFINE f == next[s]
<1>1. Redrive(d) \in Nat
  BY TimeWheelAssumption DEF TimeWheelAssumption, Redrive
<1>2. s \in Slot /\ Ticks(Redrive(d)) \in Nat
  BY <1>1, TargetInSlot DEF TypeOK
<1>3. /\ t \in Task /\ list[t] = RunList /\ pos[t] = len[RunList]
      /\ len[RunList] \in Nat /\ len[RunList] > 0 /\ ticking
  BY Distinct
     DEF runTask, TypeOK, ListsIntact, ForwardLinks, HeadOf
<1>4. /\ next' = [next EXCEPT ![t] = f, ![s] = t]
      /\ ahead' = [u \in Task |-> IF u = t THEN s
                                  ELSE IF u = f THEN t ELSE ahead[u]]
  BY <1>1, <1>2, <1>3, MountLinks, Distinct DEF runTask
<1>5. /\ list' = [list EXCEPT ![t] = s]
      /\ pos' = [pos EXCEPT ![t] = len[s] + 1]
      /\ len' = [x \in Slot \cup {RunList} |->
                    IF x = RunList THEN len[x] - 1
                    ELSE IF x = s THEN len[x] + 1 ELSE len[x]]
      /\ slack' = [slack EXCEPT ![t] = Ticks(Redrive(d))]
      /\ cursor' = next[t]
      /\ driven' = driven \cup {t} /\ ran' = ran \cup {t}
      /\ UNCHANGED <<currentTaskNumber_, ticking, status>>
  BY <1>2, Distinct DEF runTask, Mounted, TypeOK
<1> HIDE DEF s, t
<1>6. f \in Task \cup {NULL} /\ f # t /\ t # s
  BY <1>2, <1>3, Distinct
     DEF TypeOK, ListsIntact, ForwardLinks, HeadOf
<1>7. TypeOK'
  <2>1. /\ next' \in [Task \cup Slot -> Task \cup {NULL}]
        /\ ahead' \in [Task -> Task \cup Slot \cup {NULL}]
    BY <1>2, <1>3, <1>4, <1>6 DEF TypeOK
  <2>2. list' \in [Task -> Slot \cup {RunList, NULL}]
    BY <1>2, <1>3, <1>5 DEF TypeOK
  <2>3. pos' \in [Task -> Nat] /\ slack' \in [Task -> Int]
    BY <1>2, <1>3, <1>5 DEF TypeOK
  <2>4. len' \in [Slot \cup {RunList} -> Nat]
    BY <1>2, <1>3, <1>5, Distinct DEF TypeOK
  <2>5. cursor' \in Task \cup {NULL}
    BY <1>3, <1>5 DEF TypeOK
  <2> QED
    BY <1>3, <1>5, <2>1, <2>2, <2>3, <2>4, <2>5 DEF TypeOK
<1>8. Placement'
  BY <1>2, <1>3, <1>5, Distinct DEF TypeOK, ListsIntact, Placement
<1>9. ForwardLinks'
  BY <1>2, <1>3, <1>4, <1>5, <1>6, Distinct
     DEF TypeOK, ListsIntact, Placement, ForwardLinks, HeadOf
<1>10. BackwardLinks'
  BY <1>2, <1>3, <1>4, <1>5, <1>6, Distinct
     DEF TypeOK, ListsIntact, Placement, ForwardLinks, BackwardLinks, HeadOf
<1> QED
  BY <1>7, <1>8, <1>9, <1>10 DEF ListsIntact

\* At the end of a tick nothing is left of the list that was walked.
LEMMA EndIntact ==
  ASSUME TypeOK, ListsIntact, endTick
  PROVE  TypeOK' /\ ListsIntact'
<1>1. NextSlot \in Slot
  BY TimeWheelAssumption DEF TimeWheelAssumption, TypeOK, NextSlot, Slot
<1>2. len[RunList] = 0
  BY Distinct DEF endTick, TypeOK, ListsIntact, ForwardLinks, HeadOf
<1>3. TypeOK'
  <2>1. slack' \in [Task -> Int]
    BY DEF endTick, TypeOK
  <2>2. currentTaskNumber_' \in Slot /\ ticking' \in BOOLEAN
    BY <1>1 DEF endTick
  <2>3. UNCHANGED <<next, ahead, cursor, status, list, pos, len, driven, ran>>
    BY DEF endTick, pointers
  <2> QED
    BY <2>1, <2>2, <2>3 DEF TypeOK
<1>4. ListsIntact'
  BY <1>2
     DEF endTick, TypeOK, ListsIntact, Placement, ForwardLinks,
         BackwardLinks, HeadOf, pointers
<1> QED
  BY <1>3, <1>4

\* Every step of the wheel keeps the lists intact.
LEMMA StepIntact == TypeOK /\ ListsIntact /\ [Next]_vars
                      => TypeOK' /\ ListsIntact'
<1> SUFFICES ASSUME TypeOK, ListsIntact, [Next]_vars
             PROVE  TypeOK' /\ ListsIntact'
  OBVIOUS
<1>1. CASE beginTick
  BY <1>1, BeginIntact
<1>2. ASSUME NEW d \in 0 .. MaxDelay, runTask(d)
      PROVE  TypeOK' /\ ListsIntact'
  BY <1>2, RunIntact
<1>3. CASE endTick
  BY <1>3, EndIntact
<1>4. ASSUME NEW t \in Task, removeTask(t)
      PROVE  TypeOK' /\ ListsIntact'
  BY <1>4, RemoveIntact
<1>5. ASSUME NEW t \in Task, NEW now \in Clock, NEW d \in 0 .. MaxDelay,
             start(t, now, d)
      PROVE  TypeOK' /\ ListsIntact'
  BY <1>5, StartIntact
<1>6. CASE UNCHANGED vars
  BY <1>6
     DEF vars, pointers, history, TypeOK, ListsIntact, Placement,
         ForwardLinks, BackwardLinks, HeadOf
<1> QED
  BY <1>1, <1>2, <1>3, <1>4, <1>5, <1>6 DEF Next, Tick

\* Type correctness of the wheel, for any constants that satisfy
\* TimeWheelAssumption.
THEOREM WheelTypeOK == Spec => []TypeOK
<1>1. TypeOK /\ ListsIntact /\ [Next]_vars => (TypeOK /\ ListsIntact)'
  BY StepIntact
<1> QED
  BY <1>1, InitIntact, PTL DEF Spec

\* The slots' lists stay disjoint, acyclic and doubly linked: registering,
\* removing and driving sessions in any order never breaks a link.
THEOREM WheelListsIntact == Spec => []ListsIntact
<1>1. TypeOK /\ ListsIntact /\ [Next]_vars => (TypeOK /\ ListsIntact)'
  BY StepIntact
<1> QED
  BY <1>1, InitIntact, PTL DEF Spec

\* removeTask's unchecked ahead_ dereference is safe wherever closeSession
\* can reach it.
THEOREM RemoveSafe == Spec => []RemoveFollowsLink
<1>1. TypeOK /\ ListsIntact => RemoveFollowsLink
  <2> SUFFICES ASSUME TypeOK, ListsIntact, NEW t \in Task, ~ ticking,
                      status[t] = "open"
               PROVE  ahead[t] # NULL /\ next[ahead[t]] = t
    BY DEF RemoveFollowsLink
  <2>1. list[t] \in Slot /\ pos[t] \in 1 .. len[list[t]]
    BY Distinct DEF TypeOK, ListsIntact, Placement
  <2>2. CASE pos[t] = len[list[t]]
    <3>1. ahead[t] = list[t]
      BY <2>1, <2>2 DEF ListsIntact, BackwardLinks
    <3>2. LET h == next[list[t]]
          IN  h \in Task /\ list[h] = list[t] /\ pos[h] = len[list[t]]
      BY <2>1, <2>2 DEF ListsIntact, ForwardLinks, HeadOf
    <3> QED
      BY <2>1, <2>2, <3>1, <3>2, Distinct DEF ListsIntact, Placement
  <2>3. CASE pos[t] # len[list[t]]
    <3>1. /\ ahead[t] \in Task /\ list[ahead[t]] = list[t]
          /\ pos[ahead[t]] = pos[t] + 1
      BY <2>1, <2>3 DEF ListsIntact, BackwardLinks
    <3>2. LET n == next[ahead[t]]
          IN  n \in Task /\ list[n] = list[t] /\ pos[n] = pos[t]
      BY <2>1, <3>1, Distinct DEF TypeOK, ListsIntact, ForwardLinks
    <3> QED
      BY <2>1, <3>1, <3>2, Distinct DEF ListsIntact, Placement
  <2> QED
    BY <2>2, <2>3
<1>2. TypeOK /\ ListsIntact /\ [Next]_vars => (TypeOK /\ ListsIntact)'
  BY StepIntact
<1> QED
  BY <1>1, <1>2, InitIntact, PTL DEF Spec

\* A task driven in the current tick is no longer in the list being walked.
RanLeft == ticking => \A t \in ran : list[t] # RunList

\* The loop of doCurrentTimeWheel never meets a session twice in one tick,
\* although it mounts sessions while it walks.
THEOREM DrivenOncePerTick == Spec => []OncePerTick
<1> DEFINE I == TypeOK /\ ListsIntact /\ RanLeft
<1>1. Init => I
  BY InitIntact DEF Init, RanLeft
<1>2. I /\ [Next]_vars => I'
  <2> SUFFICES ASSUME TypeOK, ListsIntact, RanLeft, [Next]_vars
               PROVE  RanLeft'
    BY StepIntact
  <2>1. CASE beginTick
    BY <2>1 DEF beginTick, RanLeft
  <2>2. ASSUME NEW d \in 0 .. MaxDelay, runTask(d)
        PROVE  RanLeft'
    <3>1. Redrive(d) \in Nat
      BY TimeWheelAssumption DEF TimeWheelAssumption, Redrive
    <3>2. Target(Redrive(d)) # RunList
      BY <3>1, TargetInSlot, Distinct DEF TypeOK
    <3> QED
      BY <2>2, <3>2 DEF runTask, Mounted, RanLeft, TypeOK
  <2>3. CASE endTick
    BY <2>3 DEF endTick, RanLeft
  <2>4. ASSUME NEW t \in Task, removeTask(t)
        PROVE  RanLeft'
    BY <2>4 DEF removeTask, RanLeft
  <2>5. ASSUME NEW t \in Task, NEW now \in Clock, NEW d \in 0 .. MaxDelay,
               start(t, now, d)
        PROVE  RanLeft'
    BY <2>5 DEF start, RanLeft
  <2>6. CASE UNCHANGED vars
    BY <2>6 DEF vars, history, RanLeft
  <2> QED
    BY <2>1, <2>2, <2>3, <2>4, <2>5, <2>6 DEF Next, Tick
<1>3. I => OncePerTick
  BY Distinct
     DEF RanLeft, OncePerTick, TypeOK, ListsIntact, ForwardLinks, HeadOf
<1> QED
  BY <1>1, <1>2, <1>3, PTL DEF Spec

\* What is between slot c and the slot n ticks further, less than a turn.
Ahead(c, n) == IF c + n >= WheelLength THEN c + n - WheelLength ELSE c + n

\* The slot a driven task is linked into is as many ticks away as its caller
\* asked for; what waits during a tick is not due in this tick.
SlackKept ==
  \A t \in driven :
    /\ status[t] # "raw"
    /\ list[t] \in Slot =>
         /\ slack[t] \in (IF ticking THEN 1 ELSE 0) .. (WheelLength - 1)
         /\ list[t] = Ahead(currentTaskNumber_, slack[t])
    /\ list[t] = RunList => slack[t] = 0

\* A delay driveSessionTimeClock may return is less than a turn of the wheel.
LEMMA RedriveTicks ==
  ASSUME TypeOK, NEW d \in 0 .. MaxDelay
  PROVE  LET n == Ticks(Redrive(d))
         IN  /\ n \in 1 .. (WheelLength - 1)
             /\ Target(Redrive(d)) = Ahead(currentTaskNumber_, n)
<1> DEFINE n == Ticks(Redrive(d))
<1>1. /\ WheelLength \in Nat \ {0} /\ DeltaTime \in Nat \ {0}
      /\ MaxDelay \in Nat /\ MaxDelay \div DeltaTime < WheelLength
      /\ 1 < WheelLength
  BY TimeWheelAssumption DEF TimeWheelAssumption
<1>2. n \in 1 .. (WheelLength - 1)
  <2>1. d \div DeltaTime <= MaxDelay \div DeltaTime /\ d \div DeltaTime \in Int
    BY <1>1
  <2>2. CASE d = 0
    <3>1. n = 1
      BY <1>1, <2>2 DEF Redrive, Ticks
    <3> QED
      BY <1>1, <3>1
  <2>3. CASE d # 0
    <3>1. Redrive(d) = d
      BY <1>1, <2>3 DEF Redrive
    <3> QED
      BY <1>1, <2>1, <3>1 DEF Ticks
  <2> QED
    BY <2>2, <2>3
<1> HIDE DEF n
<1>3. currentTaskNumber_ \in 0 .. (WheelLength - 1)
  BY DEF TypeOK, Slot
<1> QED
  BY <1>1, <1>2, <1>3 DEF Target, Ahead, n

\* Once a session has been driven, every later drive comes in the tick that
\* the delay returned by driveSessionTimeClock names.
THEOREM RedriveOnTime == Spec => []RedrivenOnTime
<1> DEFINE I == TypeOK /\ ListsIntact /\ SlackKept
<1>0. WheelLength \in Nat /\ 1 < WheelLength
  BY TimeWheelAssumption DEF TimeWheelAssumption
<1>1. Init => I
  BY InitIntact DEF Init, SlackKept
<1>2. I /\ [Next]_vars => I'
  <2> SUFFICES ASSUME TypeOK, ListsIntact, SlackKept, [Next]_vars
               PROVE  SlackKept'
    BY StepIntact
  <2>1. CASE beginTick
    <3>1. /\ UNCHANGED <<currentTaskNumber_, slack, driven>>
          /\ ~ ticking /\ ticking' /\ UNCHANGED status
          /\ list' = [t \in Task |-> IF list[t] = currentTaskNumber_
                                     THEN RunList ELSE list[t]]
      BY <2>1 DEF beginTick
    <3> SUFFICES ASSUME NEW t \in driven
                 PROVE  /\ list'[t] \in Slot =>
                             /\ slack[t] \in 1 .. (WheelLength - 1)
                             /\ list'[t] = Ahead(currentTaskNumber_, slack[t])
                        /\ list'[t] = RunList => slack[t] = 0
      BY <3>1 DEF SlackKept, Ahead
    <3>2. currentTaskNumber_ \in 0 .. (WheelLength - 1)
      BY DEF TypeOK, Slot
    <3>3. CASE list[t] \in Slot
      <4>1. /\ slack[t] \in 0 .. (WheelLength - 1)
            /\ list[t] = Ahead(currentTaskNumber_, slack[t])
        BY <3>1, <3>3 DEF SlackKept
      <4>2. list[t] = currentTaskNumber_ <=> slack[t] = 0
        BY <1>0, <3>2, <4>1 DEF Ahead
      <4> QED
        BY <3>1, <3>3, <4>1, <4>2, Distinct DEF TypeOK
    <3>4. CASE list[t] \notin Slot
      BY <3>1, <3>4, Distinct DEF TypeOK, SlackKept
    <3> QED
      BY <3>3, <3>4
  <2>2. ASSUME NEW d \in 0 .. MaxDelay, runTask(d)
        PROVE  SlackKept'
    <3>1. /\ Ticks(Redrive(d)) \in 1 .. (WheelLength - 1)
          /\ Target(Redrive(d)) = Ahead(currentTaskNumber_, Ticks(Redrive(d)))
      BY RedriveTicks
    <3>2. Redrive(d) \in Nat
      BY TimeWheelAssumption DEF TimeWheelAssumption, Redrive
    <3>3. Target(Redrive(d)) \in Slot /\ Target(Redrive(d)) # RunList
      BY <3>2, TargetInSlot, Distinct DEF TypeOK
    <3>4. status[cursor] # "raw"
      BY <2>2, Distinct
         DEF runTask, TypeOK, ListsIntact, Placement, ForwardLinks, HeadOf
    <3> QED
      BY <2>2, <3>1, <3>3, <3>4
         DEF runTask, Mounted, SlackKept, TypeOK, Ahead
  <2>3. CASE endTick
    <3>1. /\ UNCHANGED <<list, driven, status>> /\ ticking /\ ~ ticking'
          /\ currentTaskNumber_' = NextSlot
          /\ slack' = [t \in Task |-> IF list[t] \in Slot /\ slack[t] > -1
                                      THEN slack[t] - 1 ELSE slack[t]]
      BY <2>3 DEF endTick
    <3> SUFFICES ASSUME NEW t \in driven
                 PROVE  /\ list[t] \in Slot =>
                             /\ slack'[t] \in 0 .. (WheelLength - 1)
                             /\ list[t] = Ahead(NextSlot, slack'[t])
                        /\ list[t] = RunList => slack'[t] = 0
      BY <3>1 DEF SlackKept, Ahead
    <3>2. currentTaskNumber_ \in 0 .. (WheelLength - 1)
      BY DEF TypeOK, Slot
    <3>3. CASE list[t] \in Slot
      <4>1. /\ slack[t] \in 1 .. (WheelLength - 1)
            /\ list[t] = Ahead(currentTaskNumber_, slack[t])
        BY <3>1, <3>3 DEF SlackKept
      <4>2. slack'[t] = slack[t] - 1
        BY <3>1, <3>3, <4>1 DEF TypeOK
      <4> QED
        BY <1>0, <3>2, <3>3, <4>1, <4>2, Distinct DEF Ahead, NextSlot
    <3>4. CASE list[t] \notin Slot
      BY <3>1, <3>4 DEF TypeOK, SlackKept
    <3> QED
      BY <3>3, <3>4
  <2>4. ASSUME NEW t \in Task, removeTask(t)
        PROVE  SlackKept'
    BY <2>4, Distinct DEF removeTask, SlackKept, TypeOK, Ahead
  <2>5. ASSUME NEW t \in Task, NEW now \in Clock, NEW d \in 0 .. MaxDelay,
               start(t, now, d)
        PROVE  SlackKept'
    BY <2>5 DEF start, Mounted, SlackKept, TypeOK, Ahead
  <2>6. CASE UNCHANGED vars
    BY <2>6 DEF vars, history, SlackKept, Ahead
  <2> QED
    BY <2>1, <2>2, <2>3, <2>4, <2>5, <2>6 DEF Next, Tick
<1>3. I => RedrivenOnTime
  <2> SUFFICES ASSUME TypeOK, SlackKept, NEW t \in driven
               PROVE  /\ list[t] # NULL => slack[t] >= 0
                      /\ list[t] = RunList => slack[t] = 0
    BY DEF RedrivenOnTime
  <2> QED
    BY <1>0 DEF SlackKept, TypeOK
<1> QED
  BY <1>1, <1>2, <1>3, PTL DEF Spec
=============================================================================
