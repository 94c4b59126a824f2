----------------------------- MODULE UdpIngress -----------------------------
(***************************************************************************)
(* The receive side of a worker: receiveUdpMessageFromRemoteServer of the  *)
(* home program and listen of the remote one.  One async_receive fills the *)
(* one udpReceiveBuffer; its handler decrypts in place, reads the session  *)
(* id where the plaintext should begin, whether or not decryption worked,  *)
(* and starts the next receive.  An exception that leaves a handler leaves *)
(* io_context::run and the thread too, and ends the program.               *)
(***************************************************************************)
EXTENDS Framing

CONSTANTS
  Programs,     \* which of "home" and "remote" to consider
  HomeId,       \* ids that home sessions draw
  JunkId,       \* 16-byte values that nobody drew
  Payload       \* sizes of KCP datagrams (24: an ack; 1250: the MTU)

IKCP_OVERHEAD == 24   \* ikcp_input ignores anything shorter
Id == HomeId \cup JunkId

ASSUME UdpIngressAssumption ==
  /\ Programs \subseteq {"home", "remote"}
  /\ HomeId \cap JunkId = {}
  /\ JunkId # {}
  /\ Payload \subseteq Nat
  /\ \A n \in Payload : n >= IKCP_OVERHEAD

VARIABLES
  program,       \* which program the worker belongs to
  receives,      \* async_receives outstanding, or completed and queued
  bufferId,      \* the 16 bytes of udpReceiveBuffer at keyAndIvOffSet
  sessionMap_,   \* ids the worker has a session for
  fed,           \* history: what ikcp_input took, of which session, whence
  terminated     \* the program ended by an exception that nobody catches

vars == <<program, receives, bufferId, sessionMap_, fed, terminated>>

\* A datagram as it arrives: whose it is, the KCP bytes it was sent with, the
\* bytes that arrived, and whether they are the bytes that were sent.
Sent(id, n) ==
  [id |-> id, sent |-> n, size |-> doEncrypt(sessionIdSize + n),
   authentic |-> TRUE]
Genuine == {Sent(id, n) : id \in HomeId, n \in Payload}
Damaged(g, n) == [id |-> g.id, sent |-> g.sent, size |-> n,
                  authentic |-> FALSE]
DamagedSize ==
  {0, keyAndIvOffSet, minLen - 1} \cup {g.size : g \in Genuine}
Datagram == Genuine \cup {Damaged(g, n) : g \in Genuine, n \in DamagedSize}

Init ==
  /\ program \in Programs
  /\ receives = 1
  /\ bufferId \in JunkId
  /\ sessionMap_ = {}
  /\ fed = {}
  /\ terminated = FALSE
-----------------------------------------------------------------------------
\* What the handler of d finds at keyAndIvOffSet: the id, if d decrypts; the
\* id of an earlier datagram, if d does not reach that far; else any bytes.
Header(d) ==
  IF d.authentic THEN {d.id}
  ELSE IF d.size <= keyAndIvOffSet THEN {bufferId} ELSE Id

\* inputToKcp of session id with the plaintext of d: len-sessionIdSize bytes,
\* a negative number when decryption failed.
inputToKcp(id, d) ==
  LET n == doDecrypt(d.size, d.authentic) - sessionIdSize
  IN  fed' = IF n >= IKCP_OVERHEAD
               THEN fed \cup {[session |-> id, took |-> n, of |-> d]}
               ELSE fed

\* Home: a datagram with an unknown id is ignored.
receiveUdpMessageFromRemoteServer(d) ==
  /\ program = "home"
  /\ receives > 0
  /\ bufferId' \in Header(d)
  /\ IF bufferId' \in sessionMap_ THEN inputToKcp(bufferId', d)
                                  ELSE UNCHANGED fed
  /\ UNCHANGED <<program, receives, sessionMap_, terminated>>

\* Remote: a datagram with an unknown id makes a session.
listen(d) ==
  /\ program = "remote"
  /\ receives > 0
  /\ d.size > 0
  /\ bufferId' \in Header(d)
  /\ sessionMap_' = sessionMap_ \cup {bufferId'}
  /\ inputToKcp(bufferId', d)
  /\ UNCHANGED <<program, receives, terminated>>

\* The constructor of that session opens a TCP socket, which throws when no
\* descriptor is left: neither the session nor the next receive comes to be.
listenThrows(d) ==
  /\ program = "remote"
  /\ receives > 0
  /\ d.size > 0
  /\ bufferId' \in Header(d) \ sessionMap_
  /\ receives' = receives - 1
  /\ terminated' = TRUE
  /\ UNCHANGED <<program, sessionMap_, fed>>

\* Defect: no return after the call of listen for an empty datagram.
listenEmpty_NoReturn(d) ==
  /\ program = "remote"
  /\ receives > 0
  /\ d.size = 0
  /\ receives' = receives + 1
  /\ UNCHANGED <<program, bufferId, sessionMap_, fed, terminated>>

\* Remote: an empty datagram only starts the next receive.
listenEmpty(d) ==
  /\ program = "remote"
  /\ receives > 0
  /\ d.size = 0
  /\ UNCHANGED vars

\* Defect: the remote worker logs the error and returns, as the home one does.
receiveFails_Returns ==
  /\ receives > 0
  /\ receives' = receives - 1
  /\ UNCHANGED <<program, bufferId, sessionMap_, fed, terminated>>

\* The receive fails, as after an ICMP error: the remote worker starts the
\* next one, the home worker does not.
receiveFails ==
  /\ receives > 0
  /\ receives' = IF program = "remote" THEN receives ELSE receives - 1
  /\ UNCHANGED <<program, bufferId, sessionMap_, fed, terminated>>

\* Home: registerSession draws a new id.
registerSession(id) ==
  /\ program = "home"
  /\ id \notin sessionMap_
  /\ sessionMap_' = sessionMap_ \cup {id}
  /\ UNCHANGED <<program, receives, bufferId, fed, terminated>>

\* getSessionId throws when getrandom fails.
registerSessionThrows ==
  /\ program = "home"
  /\ terminated' = TRUE
  /\ UNCHANGED <<program, receives, bufferId, sessionMap_, fed>>

Next ==
  /\ ~ terminated
  /\ \/ \E d \in Datagram :
          \/ receiveUdpMessageFromRemoteServer(d)
          \/ listen(d)
          \/ listenThrows(d)
          \/ listenEmpty(d)
     \/ \E id \in HomeId : registerSession(id)
     \/ registerSessionThrows
     \/ receiveFails

Spec == Init /\ [][Next]_vars
-----------------------------------------------------------------------------
\* Every path of a handler that starts the next receive (listen has three)
\* starts one: two outstanding would share udpReceiveBuffer.
TypeOK ==
  /\ program \in Programs
  /\ receives \in 0 .. 1
  /\ bufferId \in Id
  /\ sessionMap_ \in SUBSET Id
  /\ fed \in SUBSET [session : Id, took : Int, of : Datagram]
  /\ terminated \in BOOLEAN

\* Whatever datagrams arrive, and whatever receives fail, the remote worker
\* stops receiving only when the program ends.  (It may end: see listenThrows.)
RemoteListens == program = "remote" => (receives = 1 <=> ~ terminated)

\* Although neither handler looks at the result of doDecrypt, and both then
\* read an id from bytes that were not decrypted or that an earlier datagram
\* left behind, a session's KCP only takes what a datagram of that same
\* session carried, unaltered and whole: a failed decryption makes the length
\* negative, which ikcp_input refuses.
OnlyGenuineFed ==
  \A f \in fed :
    /\ f.of.authentic
    /\ f.session = f.of.id
    /\ f.took = f.of.sent
=============================================================================
