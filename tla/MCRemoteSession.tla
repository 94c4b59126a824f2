-------------------------- MODULE MCRemoteSession --------------------------
\* RemoteSession against every order, loss and repetition of the datagrams of
\* a home session: newSession, then two data messages, the second in two
\* segments; and of the acks.
EXTENDS RemoteSession

MCPeerDatagram ==
  {[type |-> "push", sn |-> 1, frg |-> 0, msg |-> NewSession],
   [type |-> "push", sn |-> 2, frg |-> 0, msg |-> Normal(1)],
   [type |-> "push", sn |-> 3, frg |-> 1, msg |-> Normal(2)],
   [type |-> "push", sn |-> 4, frg |-> 0, msg |-> Normal(2)]}
  \cup {Ack(sn) : sn \in 1 .. (MaxChunks * MaxFrags)}
=============================================================================
