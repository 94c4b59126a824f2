--------------------------- MODULE MCHomeSession ---------------------------
\* HomeSession against every order, loss and repetition of the datagrams of a
\* peer that sends two messages, the second in two segments, and may
\* acknowledge any segment at any time.
EXTENDS HomeSession

MCPeerDatagram ==
  {[type |-> "push", sn |-> 1, frg |-> 0, msg |-> Normal(1)],
   [type |-> "push", sn |-> 2, frg |-> 1, msg |-> Normal(2)],
   [type |-> "push", sn |-> 3, frg |-> 0, msg |-> Normal(2)]}
  \cup {Ack(sn) : sn \in 1 .. (1 + MaxChunks * MaxFrags)}
=============================================================================
