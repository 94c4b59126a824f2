----------------------------- MODULE TimeWheel -----------------------------
(***************************************************************************)
(* timeWheel/timeWheel.hpp as the workers use it: a ring of slots, each    *)
(* the head of a doubly linked list of tasks that lives inside the tasks   *)
(* (the sessions) themselves.  A slot's header begins with its next_ field *)
(* so that a task's ahead_ may point at a header as well as at a task;     *)
(* pointers are therefore members of Task \cup Slot \cup {NULL}.           *)
(*                                                                         *)
(* Everything here runs on one thread.  doCurrentTimeWheel is a loop, so   *)
(* it is split into its steps; no other handler runs while ticking holds.  *)
(***************************************************************************)
EXTENDS Integers

CONSTANTS
  Task,          \* the sessions that a worker ever creates
  NULL,
  WheelLength,   \* timeWheelLength_ (1000)
  DeltaTime,     \* deltaTime_, milliseconds per tick (3)
  MaxDelay,      \* the largest delay ikcp_check asks for, in ms (10)
  Clock          \* values getClockMs may return when a session starts

Slot == 0 .. (WheelLength - 1)
RunList == -1    \* stands for the list doCurrentTimeWheel is walking

ASSUME TimeWheelAssumption ==
  /\ WheelLength \in Nat \ {0}
  /\ DeltaTime \in Nat \ {0}
  /\ MaxDelay \in Nat
  /\ MaxDelay \div DeltaTime < WheelLength
  /\ 1 < WheelLength
  /\ Clock \subseteq Nat
  /\ Task \cap Int = {}
  /\ NULL \notin Task \cup Int

VARIABLES
  currentTaskNumber_,
  next,       \* next_ of every header and task
  ahead,      \* ahead_ of every task
  cursor,     \* currentTask of the running doCurrentTimeWheel
  ticking,    \* doCurrentTimeWheel is under way
  status,     \* "raw": not created, "open", "closed"
  \* history: where a task is linked, and when it should be driven
  list,       \* the slot whose list holds the task, or RunList, or NULL
  pos,        \* its position in that list, counted from the tail
  len,        \* length of every list
  slack,      \* ticks left until the time asked for; -1: overdue
  driven,     \* tasks driven at least once
  ran         \* tasks driven during the current tick

pointers == <<next, ahead>>
history  == <<list, pos, len, slack, driven, ran>>
vars == <<currentTaskNumber_, pointers, cursor, ticking, status, history>>

Init ==
  /\ currentTaskNumber_ = 0
  /\ next = [n \in Task \cup Slot |-> NULL]
  /\ ahead = [t \in Task |-> NULL]
  /\ cursor = NULL
  /\ ticking = FALSE
  /\ status = [t \in Task |-> "raw"]
  /\ list = [t \in Task |-> NULL]
  /\ pos = [t \in Task |-> 0]
  /\ len = [s \in Slot \cup {RunList} |-> 0]
  /\ slack = [t \in Task |-> 0]
  /\ driven = {}
  /\ ran = {}
-----------------------------------------------------------------------------
\* Defect: no minimum, so a short delay mounts into the current slot.
Ticks_NoMinimum(ms) == ms \div DeltaTime

\* next / deltaTime_, at least one tick.
Ticks(ms) == IF ms \div DeltaTime < 1 THEN 1 ELSE ms \div DeltaTime
Target(ms) == (currentTaskNumber_ + Ticks(ms)) % WheelLength

\* Defects: the old head, or the task in an empty slot, keeps its ahead_.
mountTask_OldHeadStays(t, ms, nx, ah) ==
  LET s == Target(ms)
      f == nx[s]
  IN  /\ next' = [nx EXCEPT ![s] = t, ![t] = f]
      /\ ahead' = [ah EXCEPT ![t] = s]
mountTask_NoHeader(t, ms, nx, ah) ==
  LET s == Target(ms)
      f == nx[s]
  IN  /\ next' = [nx EXCEPT ![s] = t, ![t] = f]
      /\ ahead' = IF f = NULL THEN ah ELSE [ah EXCEPT ![t] = ah[f], ![f] = t]

\* mountTask(t, ms) on the links nx and ah: t becomes the head of its slot.
mountTask(t, ms, nx, ah) ==
  LET s == Target(ms)
      f == nx[s]
  IN  IF f = NULL
        THEN /\ next' = [nx EXCEPT ![t] = NULL, ![s] = t]
             /\ ahead' = [ah EXCEPT ![t] = s]
        ELSE /\ next' = [nx EXCEPT ![ah[f]] = t, ![t] = f]
             /\ ahead' = [ah EXCEPT ![t] = ah[f], ![f] = t]

\* History of mountTask(t, ms): t is put in front of the list of its slot,
\* for a caller that wants to be driven in asked milliseconds.
Mounted(t, ms, asked, ln) ==
  LET s == Target(ms)
  IN  /\ list' = [list EXCEPT ![t] = s]
      /\ pos' = [pos EXCEPT ![t] = ln[s] + 1]
      /\ len' = [ln EXCEPT ![s] = ln[s] + 1]
      /\ slack' = [slack EXCEPT ![t] = Ticks(asked)]

\* registerTask for a new session and the mountTask of session::start, one
\* handler.  ikcp_check returns a point in time, now + d, not a delay, and
\* start passes it on as it is.
start(t, now, d) ==
  /\ ~ ticking
  /\ status[t] = "raw"
  /\ status' = [status EXCEPT ![t] = "open"]
  /\ mountTask(t, now + d, [next EXCEPT ![t] = NULL],
               [ahead EXCEPT ![t] = NULL])
  /\ Mounted(t, now + d, d, len)
  /\ UNCHANGED <<currentTaskNumber_, cursor, ticking, driven, ran>>

\* removeTask, called by closeSession (which guards it with sessionClose_).
removeTask(t) ==
  /\ ~ ticking
  /\ status[t] = "open"
  /\ status' = [status EXCEPT ![t] = "closed"]
  /\ next' = [next EXCEPT ![ahead[t]] = next[t], ![t] = NULL]
  /\ ahead' = [u \in Task |-> IF u = t THEN NULL
                              ELSE IF u = next[t] THEN ahead[t] ELSE ahead[u]]
  /\ list' = [list EXCEPT ![t] = NULL]
  /\ pos' = [u \in Task |-> IF list[u] = list[t] /\ pos[u] > pos[t]
                              THEN pos[u] - 1 ELSE pos[u]]
  /\ len' = [len EXCEPT ![list[t]] = @ - 1]
  /\ UNCHANGED <<currentTaskNumber_, cursor, ticking, slack, driven, ran>>

\* doCurrentTimeWheel takes the list of the current slot and empties the slot.
beginTick ==
  /\ ~ ticking
  /\ ticking' = TRUE
  /\ cursor' = next[currentTaskNumber_]
  /\ next' = [next EXCEPT ![currentTaskNumber_] = NULL]
  /\ list' = [t \in Task |-> IF list[t] = currentTaskNumber_ THEN RunList
                             ELSE list[t]]
  /\ len' = [len EXCEPT ![RunList] = len[currentTaskNumber_],
                        ![currentTaskNumber_] = 0]
  /\ ran' = {}
  /\ UNCHANGED <<currentTaskNumber_, ahead, status, pos, slack, driven>>

\* driveSessionTimeClock's answer to ikcp_check's d: never 0.
Redrive(d) == IF d <= 0 THEN 1 ELSE d

\* Defect: the loop reads next_ after the task has been mounted again.
runTask_LateNext(d) ==
  /\ ticking
  /\ cursor # NULL
  /\ mountTask(cursor, Redrive(d), [next EXCEPT ![cursor] = NULL],
               [ahead EXCEPT ![cursor] = NULL])
  /\ cursor' = next'[cursor]
  /\ Mounted(cursor, Redrive(d), Redrive(d), [len EXCEPT ![RunList] = @ - 1])
  /\ driven' = driven \cup {cursor}
  /\ ran' = ran \cup {cursor}
  /\ UNCHANGED <<currentTaskNumber_, ticking, status>>

\* One round of the loop: unlink the task, call driveSessionTimeClock, mount
\* the task again for the delay it returns.
runTask(d) ==
  /\ ticking
  /\ cursor # NULL
  /\ cursor' = next[cursor]
  /\ mountTask(cursor, Redrive(d), [next EXCEPT ![cursor] = NULL],
               [ahead EXCEPT ![cursor] = NULL])
  /\ Mounted(cursor, Redrive(d), Redrive(d), [len EXCEPT ![RunList] = @ - 1])
  /\ driven' = driven \cup {cursor}
  /\ ran' = ran \cup {cursor}
  /\ UNCHANGED <<currentTaskNumber_, ticking, status>>

\* Defects: an index one past the ring; the last slot is never served.
NextSlot_PastEnd ==
  IF currentTaskNumber_ + 1 > WheelLength THEN 0 ELSE currentTaskNumber_ + 1
NextSlot_SkipsLast ==
  IF currentTaskNumber_ + 2 >= WheelLength THEN 0 ELSE currentTaskNumber_ + 1

NextSlot ==
  IF currentTaskNumber_ + 1 >= WheelLength THEN 0 ELSE currentTaskNumber_ + 1

\* The end of the loop: on to the next slot, back to 0 after the last.
endTick ==
  /\ ticking
  /\ cursor = NULL
  /\ ticking' = FALSE
  /\ currentTaskNumber_' = NextSlot
  /\ slack' = [t \in Task |->
                 IF list[t] \in Slot /\ slack[t] > -1 THEN slack[t] - 1
                 ELSE slack[t]]
  /\ UNCHANGED <<pointers, cursor, status, list, pos, len, driven, ran>>

Tick == beginTick \/ (\E d \in 0 .. MaxDelay : runTask(d)) \/ endTick

Next ==
  \/ Tick
  \/ \E t \in Task :
       \/ removeTask(t)
       \/ \E now \in Clock, d \in 0 .. MaxDelay : start(t, now, d)

Spec == Init /\ [][Next]_vars

\* The steady_timer of startTimeWheel re-arms itself after every tick.
FairSpec == Spec /\ WF_vars(Tick)
-----------------------------------------------------------------------------
TypeOK ==
  /\ currentTaskNumber_ \in Slot
  /\ next \in [Task \cup Slot -> Task \cup {NULL}]
  /\ ahead \in [Task -> Task \cup Slot \cup {NULL}]
  /\ cursor \in Task \cup {NULL}
  /\ ticking \in BOOLEAN
  /\ status \in [Task -> {"raw", "open", "closed"}]
  /\ list \in [Task -> Slot \cup {RunList, NULL}]
  /\ pos \in [Task -> Nat]
  /\ len \in [Slot \cup {RunList} -> Nat]
  /\ slack \in [Task -> Int]
  /\ driven \in SUBSET Task
  /\ ran \in SUBSET Task

\* Every open task is in one list, no other task is, and the positions in a
\* list are distinct.
Placement ==
  /\ \A t \in Task : status[t] = "open" <=> list[t] # NULL
  /\ \A t \in Task : list[t] # NULL => pos[t] \in 1 .. len[list[t]]
  /\ \A t, u \in Task :
       list[t] # NULL /\ list[t] = list[u] /\ pos[t] = pos[u] => t = u
  /\ ~ ticking => len[RunList] = 0 /\ cursor = NULL

\* next_ walks a list from its head to its tail, one position at a time.
HeadOf(n, l) ==
  IF len[l] = 0 THEN n = NULL
  ELSE n \in Task /\ list[n] = l /\ pos[n] = len[l]
ForwardLinks ==
  /\ \A s \in Slot : HeadOf(next[s], s)
  /\ HeadOf(cursor, RunList)
  /\ \A t \in Task : list[t] # NULL =>
       IF pos[t] = 1 THEN next[t] = NULL
       ELSE /\ next[t] \in Task
            /\ list[next[t]] = list[t]
            /\ pos[next[t]] = pos[t] - 1

\* ahead_ of a task in a slot's list is the slot's header or its predecessor.
BackwardLinks ==
  \A t \in Task : list[t] \in Slot =>
    IF pos[t] = len[list[t]] THEN ahead[t] = list[t]
    ELSE /\ ahead[t] \in Task
         /\ list[ahead[t]] = list[t]
         /\ pos[ahead[t]] = pos[t] + 1

\* The linked lists of timeWheel.hpp stay disjoint, acyclic and doubly linked
\* under every order of mounts, removals and ticks.
ListsIntact == Placement /\ ForwardLinks /\ BackwardLinks

\* removeTask follows ahead_ without a null check: whenever closeSession may
\* call it, the task has one, and what it finds there points back.
RemoveFollowsLink ==
  \A t \in Task :
    ~ ticking /\ status[t] = "open" => ahead[t] # NULL /\ next[ahead[t]] = t

\* A session is driven at most once in a tick, although the loop mounts each
\* task again, in front of some slot's list, before it goes on to the next.
OncePerTick == ticking => cursor \notin ran

\* A session that has been driven is driven next exactly in the tick that the
\* delay returned by driveSessionTimeClock names: never early, never late.
RedrivenOnTime ==
  \A t \in driven :
    /\ list[t] # NULL => slack[t] >= 0
    /\ list[t] = RunList => slack[t] = 0

\* The comment of session::start ("compute the time of the next drive that is
\* really needed", server/session.cpp:34): a new session's first drive comes
\* at the time ikcp_check names.
FirstDriveOnTime ==
  \A t \in Task :
    /\ list[t] # NULL => slack[t] >= 0
    /\ list[t] = RunList => slack[t] = 0

\* However a session was mounted, it is driven again and again until it is
\* closed: KCP's retransmissions never stop.
DrivenForever == \A t \in Task :
  (status[t] = "open") ~> (t \in ran \/ status[t] = "closed")
=============================================================================
