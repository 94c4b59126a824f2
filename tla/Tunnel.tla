------------------------------- MODULE Tunnel -------------------------------
(***************************************************************************)
(* One proxied connection end to end: a HomeSession and a RemoteSession    *)
(* joined by UDP.  The network and the two workers' UDP queues (which drop *)
(* when full) lose, duplicate and reorder datagrams; encryption is left to *)
(* the framing of the datagrams and does not change what arrives intact.   *)
(***************************************************************************)
EXTENDS Integers, Sequences, FiniteSets

CONSTANTS
  HighWater, MaxFrags, SocketsFail,
  HomeChunks,     \* bound: chunks the WiFi client sends
  RemoteChunks    \* bound: chunks the target server sends

ASSUME TunnelAssumption ==
  /\ HighWater \in Nat /\ HighWater > 1
  /\ MaxFrags \in Nat \ {0}
  /\ SocketsFail \in BOOLEAN
  /\ HomeChunks \in Nat /\ RemoteChunks \in Nat

VARIABLES
  \* the home session
  hKcp, hClose, hBusy, hCmd, hDeque, hInMap, hMounted, hRd, hWr, hChunks,
  clientGot, toRemote,
  \* the remote session
  rKcp, rClose, rBusy, rCmd, rEnable, rDeque, rInMap, rMounted, rConn, rRd,
  rWr, rEmptyPop, rChunks, targetGot, toHome

homeVars == <<hKcp, hClose, hBusy, hCmd, hDeque, hInMap, hMounted, hRd, hWr,
              hChunks, clientGot>>
remoteVars == <<rKcp, rClose, rBusy, rCmd, rEnable, rDeque, rInMap, rMounted,
                rConn, rRd, rWr, rEmptyPop, rChunks, targetGot>>
vars == <<homeVars, remoteVars, toRemote, toHome>>

\* The datagrams a side can send when its messages are msgs and first is the
\* number of its messages that precede Normal(1): segments, numbered as KCP
\* may number them, and acks of the other side's segments.
Datagram(msgs, first, acked) ==
  {d \in [type : {"push"}, sn : 1 .. (MaxFrags * Cardinality(msgs)),
          frg : 0 .. (MaxFrags - 1), msg : msgs] :
     d.sn \in (first + d.msg.data) .. (first + MaxFrags * d.msg.data)}
  \cup [type : {"ack"}, sn : 1 .. (MaxFrags * acked)]

K == INSTANCE Kcp
HomeMessage   == {K!NewSession} \cup {K!Normal(i) : i \in 1 .. HomeChunks}
RemoteMessage == {K!Normal(i) : i \in 1 .. RemoteChunks}
HomeDatagram   == Datagram(HomeMessage, 1, RemoteChunks)
RemoteDatagram == Datagram(RemoteMessage, 0, HomeChunks + 1)

Home == INSTANCE HomeSession WITH
  MaxChunks <- HomeChunks, PeerDatagram <- RemoteDatagram,
  kcp_ <- hKcp, sessionClose_ <- hClose, trafficBusy_ <- hBusy,
  currentCmdStatus_ <- hCmd, tcpDataWaitForSendDeque_ <- hDeque,
  inSessionMap <- hInMap, mounted <- hMounted, rd <- hRd, wr <- hWr,
  chunks <- hChunks

Remote == INSTANCE RemoteSession WITH
  MaxChunks <- RemoteChunks, PeerDatagram <- HomeDatagram,
  kcp_ <- rKcp, sessionClose_ <- rClose, trafficBusy_ <- rBusy,
  currentCmdStatus_ <- rCmd, enableToSendToTargetServer_ <- rEnable,
  tcpDataWaitForSendDeque_ <- rDeque, inSessionMap <- rInMap,
  mounted <- rMounted, conn <- rConn, rd <- rRd, wr <- rWr,
  emptyPop <- rEmptyPop, chunks <- rChunks

Init == Home!Init /\ Remote!Init
-----------------------------------------------------------------------------
\* Either session takes a step of its own.
HomeStep   == Home!Local /\ UNCHANGED <<remoteVars, toHome>>
RemoteStep == Remote!Local /\ UNCHANGED <<homeVars, toRemote>>

\* A datagram arrives; the network may keep a copy to deliver again.
ToRemote(d) ==
  /\ d \in toRemote
  /\ Remote!listen(d)
  /\ \E lost \in {{}, {d}} : toRemote' = toRemote \ lost
  /\ UNCHANGED homeVars

ToHome(d) ==
  /\ d \in toHome
  /\ Home!inputToKcp(d)
  /\ \E lost \in {{}, {d}} : toHome' = toHome \ lost
  /\ UNCHANGED remoteVars

Lose ==
  /\ \/ \E d \in toRemote : toRemote' = toRemote \ {d} /\ UNCHANGED toHome
     \/ \E d \in toHome : toHome' = toHome \ {d} /\ UNCHANGED toRemote
  /\ UNCHANGED <<homeVars, remoteVars>>

Next ==
  \/ HomeStep
  \/ RemoteStep
  \/ \E d \in HomeDatagram : ToRemote(d)
  \/ \E d \in RemoteDatagram : ToHome(d)
  \/ Lose

Spec == Init /\ [][Next]_vars

\* The work a session cannot put off for ever: its queued handlers, the
\* writes its TCP peer accepts, the handshake its target answers.
HomeWork ==
  /\ \/ Home!start
     \/ Home!receiveTcpFromWifiCilentMessage
     \/ Home!writeCompletes
     \/ Home!sendTcpToWifiClientMessage
  /\ UNCHANGED <<remoteVars, toHome>>
RemoteWork ==
  /\ \/ Remote!connectCompletes
     \/ Remote!handShakeWithtargetServer
     \/ Remote!receiveTcpFromTargetServerMessage
     \/ Remote!writeCompletes
     \/ Remote!sendTcpToTargetServerMessage
  /\ UNCHANGED <<homeVars, toRemote>>
HomeTimer ==
  Home!driveSessionTimeClock /\ UNCHANGED <<remoteVars, toHome>>
RemoteTimer ==
  Remote!driveSessionTimeClock /\ UNCHANGED <<homeVars, toRemote>>

\* Both io_context threads run every queued handler; the timer of the time
\* wheel re-arms itself for ever; a datagram that is sent again and again is
\* delivered at last.  Nothing obliges a TCP peer to send.
FairSpec ==
  /\ Spec
  /\ WF_vars(HomeWork) /\ WF_vars(RemoteWork)
  /\ WF_vars(HomeTimer) /\ WF_vars(RemoteTimer)
  /\ \A d \in HomeDatagram : SF_vars(ToRemote(d))
  /\ \A d \in RemoteDatagram : SF_vars(ToHome(d))
-----------------------------------------------------------------------------
\* Each direction implements the relay: chunks arrive in order, once, and
\* only if they were sent, whatever the network does and whoever closes.
Up   == INSTANCE Relay WITH sent <- hChunks, got <- targetGot
Down == INSTANCE Relay WITH sent <- rChunks, got <- clientGot
UpRelays   == Up!SafeSpec
DownRelays == Down!SafeSpec

\* While both TCP connections stay up every chunk is delivered, although the
\* network may lose any datagram any finite number of times and the flow
\* control may stop the reader: the abstract relay with its fairness.
UpDelivers   == Up!Spec
DownDelivers == Down!Spec
=============================================================================
