--------------------------- MODULE NativeHostProofs ---------------------------
(***************************************************************************)
(* What is proved of the link between a browser and the daemon, for any    *)
(* number of native hosts, calls of connect(), handlers and requests.      *)
(***************************************************************************)
EXTENDS NativeHost, SequenceTheorems, TLAPS

-----------------------------------------------------------------------------
(* Type correctness.                                                        *)

(* Every message that is sent is one. *)
LEMMA MessageType == \A k \in Kind, n \in Nat : Msg(k, n) \in Message
  BY DEF Msg, Message

(* What is sent keeps the type of a channel. *)
LEMMA SendType ==
    ASSUME NEW f \in [Host -> Messages], NEW h \in Host, NEW n \in Nat
    PROVE  /\ Append1(f, h, Msg("ask", n)) \in [Host -> Messages]
           /\ Append1(f, h, Msg("answer", n)) \in [Host -> Messages]
           /\ Append1(f, h, Msg("error", n)) \in [Host -> Messages]
  <1>1. ASSUME NEW k \in Kind PROVE Append1(f, h, Msg(k, n)) \in [Host -> Messages]
    <2>1. Msg(k, n) \in Message /\ f[h] \in Seq(Message)
      BY MessageType DEF Messages
    <2>2. Append(f[h], Msg(k, n)) \in Messages
      BY <2>1 DEF Messages
    <2> QED BY <2>2 DEF Append1
  <1> QED BY <1>1 DEF Kind

(* An empty channel, and what a new one starts with. *)
LEMMA FirstType ==
    <<>> \in Messages /\ <<Msg("ask", 1)>> \in Messages /\ <<Msg("answer", 1)>> \in Messages
  <1>1. Msg("ask", 1) \in Message /\ Msg("answer", 1) \in Message
    BY MessageType DEF Kind
  <1> QED BY <1>1 DEF Messages

(* The first message of a sequence, and the others. *)
LEMMA TailType ==
    ASSUME NEW ms \in Messages, ms # <<>>
    PROVE  Head(ms) \in Message /\ Tail(ms) \in Messages /\ Len(ms) \in Nat \ {0}
           /\ (Len(ms) # 1 => Tail(ms) # <<>>) /\ (Len(ms) = 1 => Tail(ms) = <<>>)
  <1>1. Head(ms) \in Message /\ Tail(ms) \in Messages /\ Len(Tail(ms)) = Len(ms) - 1
    BY HeadTailProperties DEF Messages
  <1>2. Len(ms) \in Nat \ {0} /\ Len(<<>>) = 0
    BY EmptySeq DEF Messages
  <1> QED BY <1>1, <1>2

(* Every step keeps the types. *)
LEMMA TypeStep ==
    ASSUME TypeOK, [Next]_vars
    PROVE  TypeOK'
  <1> USE DEF extension, pipes, process, daemons, history
  <1>te. ExtensionType BY DEF TypeOK
  <1>ts. PipeType BY DEF TypeOK
  <1>tp. ProcessType BY DEF TypeOK
  <1>td. DaemonType BY DEF TypeOK
  <1>ty. HistoryType BY DEF TypeOK
  <1>tl. Lifetimes BY DEF TypeOK
  <1>e. ASSUME UNCHANGED extension PROVE ExtensionType'
    BY <1>te, <1>e DEF ExtensionType
  <1>s. ASSUME UNCHANGED pipes PROVE PipeType'
    BY <1>ts, <1>s DEF PipeType
  <1>p. ASSUME UNCHANGED process PROVE ProcessType'
    BY <1>tp, <1>p DEF ProcessType
  <1>l. ASSUME UNCHANGED process PROVE Lifetimes'
    BY <1>tl, <1>l DEF Lifetimes
  <1>d. ASSUME UNCHANGED daemons PROVE DaemonType'
    BY <1>td, <1>d DEF DaemonType
  <1>y. ASSUME UNCHANGED history PROVE HistoryType'
    BY <1>ty, <1>y DEF HistoryType
  <1>1. ASSUME NEW h \in Host, ConnectDaemon(h) PROVE TypeOK'
    <2>1. ProcessType'
      BY <1>1, <1>tp DEF ConnectDaemon, ProcessType, Label, Messages
    <2>2. DaemonType'
      BY <1>1, <1>td, SendType, FirstType DEF ConnectDaemon, DaemonType
    <2>3. HistoryType'
      BY <1>1, <1>ty DEF ConnectDaemon, HistoryType
    <2>4. Lifetimes'
      BY <1>1, <1>tp, <1>tl DEF ConnectDaemon, Lifetimes, Label, ProcessType
    <2> QED
      BY <1>1, <1>e, <1>s, <2>1, <2>2, <2>3, <2>4 DEF TypeOK, ConnectDaemon
  <1>2. ASSUME NEW h \in Host, NoDaemon(h) PROVE TypeOK'
    <2>1. PipeType'
      BY <1>2, <1>ts, SendType, FirstType DEF NoDaemon, Exit, PipeType
    <2>2. ProcessType'
      BY <1>2, <1>tp DEF NoDaemon, Exit, ProcessType, Label, Messages
    <2>3. DaemonType'
      BY <1>2, <1>td DEF NoDaemon, Exit, DaemonType, Messages
    <2>4. Lifetimes'
      BY <1>2, <1>tp, <1>tl DEF NoDaemon, Exit, Lifetimes, Label, ProcessType
    <2> QED
      BY <1>2, <1>e, <1>y, <2>1, <2>2, <2>3, <2>4 DEF TypeOK, NoDaemon, Exit
  <1>3. ASSUME NEW h \in Host, Hello(h) PROVE TypeOK'
    <2>1. PipeType'
      BY <1>3, <1>ts, SendType, FirstType DEF Hello, PipeType
    <2>2. ProcessType'
      BY <1>3, <1>tp DEF Hello, ProcessType, Label, Messages
    <2>3. DaemonType'
      BY <1>3, <1>td, SendType, FirstType DEF Hello, DaemonType
    <2>4. Lifetimes'
      BY <1>3, <1>tp, <1>tl DEF Hello, Lifetimes, Label, ProcessType
    <2> QED
      BY <1>3, <1>e, <1>y, <2>1, <2>2, <2>3, <2>4 DEF TypeOK, Hello
  <1>4. ASSUME NEW h \in Host, HelloFails(h) PROVE TypeOK'
    <2>1. PipeType'
      BY <1>4, <1>ts, SendType, FirstType DEF HelloFails, Exit, PipeType
    <2>2. ProcessType'
      BY <1>4, <1>tp DEF HelloFails, Exit, ProcessType, Label, Messages
    <2>3. DaemonType'
      BY <1>4, <1>td DEF HelloFails, Exit, DaemonType, Messages
    <2>4. Lifetimes'
      BY <1>4, <1>tp, <1>tl DEF HelloFails, Exit, Lifetimes, Label, ProcessType
    <2> QED
      BY <1>4, <1>e, <1>y, <2>1, <2>2, <2>3, <2>4 DEF TypeOK, HelloFails, Exit
  <1>5. ASSUME NEW h \in Host, OutRead(h) PROVE TypeOK'
    <2>1. ProcessType'
      BY <1>5, <1>tp, <1>td DEF OutRead, ProcessType, DaemonType, Label
    <2>2. DaemonType'
      BY <1>5, <1>td DEF OutRead, DaemonType, Messages
    <2>3. Lifetimes'
      BY <1>5, <1>tp, <1>tl DEF OutRead, Lifetimes, Label, ProcessType
    <2> QED
      BY <1>5, <1>e, <1>s, <1>y, <2>1, <2>2, <2>3 DEF TypeOK, OutRead
  <1>6. ASSUME NEW h \in Host, OutReadFails(h) PROVE TypeOK'
    <2>1. ProcessType'
      BY <1>6, <1>tp DEF OutReadFails, OutEnds, ProcessType, Label, Messages
    <2>2. DaemonType'
      BY <1>6, <1>td DEF OutReadFails, OutEnds, DaemonType, Messages
    <2>3. Lifetimes'
      BY <1>6, <1>tp, <1>tl DEF OutReadFails, OutEnds, Lifetimes, Label, ProcessType
    <2> QED
      BY <1>6, <1>e, <1>s, <1>y, <2>1, <2>2, <2>3 DEF TypeOK, OutReadFails, OutEnds
  <1>7. ASSUME NEW h \in Host, OutWrite(h) PROVE TypeOK'
    <2>1. PipeType'
      <3>1. outBuf[h] \in Messages /\ outBuf[h] # <<>> /\ stdout[h] \in Messages
        BY <1>7, <1>tp, <1>ts, <1>tl DEF OutWrite, PipeType, ProcessType, Lifetimes
      <3>2. Head(outBuf[h]) \in Message
        BY <3>1, TailType
      <3>3. Append(stdout[h], Head(outBuf[h])) \in Messages
        BY <3>1, <3>2 DEF Messages
      <3> QED
        BY <1>7, <1>ts, <3>3 DEF OutWrite, PipeType, Append1
    <2>2. ProcessType'
      <3>1. CASE Len(outBuf[h]) = 1 /\ ~running[h]
        BY <1>7, <1>tp, <3>1, FirstType DEF OutWrite, OutEnds, ProcessType, Label
      <3>2. CASE ~(Len(outBuf[h]) = 1 /\ ~running[h])
        <4>1. Tail(outBuf[h]) \in Messages
          BY <1>7, <1>tp, <1>tl, TailType DEF OutWrite, ProcessType, Lifetimes
        <4> QED
          BY <1>7, <1>tp, <3>2, <4>1 DEF OutWrite, ProcessType, Label
      <3> QED
        BY <3>1, <3>2
    <2>3. DaemonType'
      <3>1. CASE Len(outBuf[h]) = 1 /\ ~running[h]
        BY <1>7, <1>td, <3>1, FirstType DEF OutWrite, OutEnds, DaemonType
      <3>2. CASE ~(Len(outBuf[h]) = 1 /\ ~running[h])
        BY <1>7, <1>td, <3>2 DEF OutWrite, DaemonType
      <3> QED
        BY <3>1, <3>2
    <2>4. Lifetimes'
      <3>1. CASE Len(outBuf[h]) = 1 /\ ~running[h]
        BY <1>7, <1>tp, <1>tl, <3>1 DEF OutWrite, OutEnds, Lifetimes, ProcessType
      <3>2. CASE ~(Len(outBuf[h]) = 1 /\ ~running[h])
        <4>1. Len(outBuf[h]) # 1 => Tail(outBuf[h]) # <<>>
          BY <1>7, <1>tp, <1>tl, TailType DEF OutWrite, ProcessType, Lifetimes
        <4> QED
          BY <1>7, <1>tp, <1>tl, <3>2, <4>1 DEF OutWrite, Lifetimes, ProcessType
      <3> QED
        BY <3>1, <3>2
    <2> QED
      BY <1>7, <1>e, <1>y, <2>1, <2>2, <2>3, <2>4 DEF TypeOK, OutWrite, OutEnds
  <1>8. ASSUME NEW h \in Host, OutKilled(h) PROVE TypeOK'
    <2>1. PipeType'
      BY <1>8, <1>ts DEF OutKilled, Killed, Exit, PipeType, Messages
    <2>2. ProcessType'
      BY <1>8, <1>tp DEF OutKilled, Killed, Exit, ProcessType, Label, Messages
    <2>3. DaemonType'
      BY <1>8, <1>td DEF OutKilled, Killed, Exit, DaemonType, Messages
    <2>4. Lifetimes'
      BY <1>8, <1>tp, <1>tl DEF OutKilled, Killed, Exit, Lifetimes, Label, ProcessType
    <2> QED
      BY <1>8, <1>e, <1>y, <2>1, <2>2, <2>3, <2>4 DEF TypeOK, OutKilled, Killed, Exit
  <1>9. ASSUME NEW h \in Host, OutFraming(h) PROVE TypeOK'
    <2>1. ProcessType'
      BY <1>9, <1>tp DEF OutFraming, OutEnds, ProcessType, Label, Messages
    <2>2. DaemonType'
      BY <1>9, <1>td DEF OutFraming, OutEnds, DaemonType, Messages
    <2>3. Lifetimes'
      BY <1>9, <1>tp, <1>tl DEF OutFraming, OutEnds, Lifetimes, Label, ProcessType
    <2> QED
      BY <1>9, <1>e, <1>s, <1>y, <2>1, <2>2, <2>3 DEF TypeOK, OutFraming, OutEnds
  <1>10. ASSUME NEW h \in Host, Join(h) PROVE TypeOK'
    <2>1. PipeType'
      BY <1>10, <1>ts DEF Join, Exit, PipeType, Messages
    <2>2. ProcessType'
      BY <1>10, <1>tp DEF Join, Exit, ProcessType, Label, Messages
    <2>3. DaemonType'
      BY <1>10, <1>td DEF Join, Exit, DaemonType, Messages
    <2>4. Lifetimes'
      BY <1>10, <1>tp, <1>tl DEF Join, Exit, Lifetimes, Label, ProcessType
    <2> QED
      BY <1>10, <1>e, <1>y, <2>1, <2>2, <2>3, <2>4 DEF TypeOK, Join, Exit
  <1>11. ASSUME NEW h \in Host, InRead(h) PROVE TypeOK'
    <2>1. PipeType'
      BY <1>11, <1>ts DEF InRead, PipeType, Messages
    <2>2. ProcessType'
      BY <1>11, <1>tp, <1>ts DEF InRead, ProcessType, PipeType
    <2>3. Lifetimes'
      BY <1>11, <1>tp, <1>tl DEF InRead, Lifetimes, Label, ProcessType
    <2> QED
      BY <1>11, <1>e, <1>d, <1>y, <2>1, <2>2, <2>3 DEF TypeOK, InRead
  <1>12. ASSUME NEW h \in Host, InEof(h) PROVE TypeOK'
    <2>1. ProcessType'
      BY <1>12, <1>tp DEF InEof, InEnds, ProcessType, Label, Messages
    <2>2. Lifetimes'
      BY <1>12, <1>tp, <1>tl DEF InEof, InEnds, Lifetimes, Label, ProcessType
    <2> QED
      BY <1>12, <1>e, <1>s, <1>d, <1>y, <2>1, <2>2 DEF TypeOK, InEof, InEnds
  <1>13. ASSUME NEW h \in Host, InWrite(h) PROVE TypeOK'
    <2>1. ProcessType'
      <3>1. Tail(inBuf[h]) \in Messages
        BY <1>13, <1>tp, <1>tl, TailType DEF InWrite, ProcessType, Lifetimes
      <3> QED
        BY <1>13, <1>tp, <3>1 DEF InWrite, ProcessType
    <2>2. DaemonType'
      <3>1. inBuf[h] \in Messages /\ inBuf[h] # <<>> /\ up[h] \in Messages
        BY <1>13, <1>tp, <1>td, <1>tl DEF InWrite, DaemonType, ProcessType, Lifetimes
      <3>2. Head(inBuf[h]) \in Message
        BY <3>1, TailType
      <3>3. Append(up[h], Head(inBuf[h])) \in Messages
        BY <3>1, <3>2 DEF Messages
      <3> QED
        BY <1>13, <1>td, <3>3 DEF InWrite, DaemonType, Append1
    <2>3. Lifetimes'
      <3>1. Len(inBuf[h]) \in Nat \ {0} /\ (Len(inBuf[h]) # 1 => Tail(inBuf[h]) # <<>>)
        <4>1. inBuf[h] \in Messages /\ inBuf[h] # <<>>
          BY <1>13, <1>tp, <1>tl DEF InWrite, ProcessType, Lifetimes
        <4> QED
          BY <4>1, TailType
      <3>2. inBuf'[h] = Tail(inBuf[h]) /\ (inbound'[h] = "write" => Len(inBuf[h]) # 1)
        BY <1>13, <1>tp, <3>1 DEF InWrite, ProcessType
      <3>3. \A g \in Host \ {h} : inbound'[g] = inbound[g] /\ inBuf'[g] = inBuf[g]
        BY <1>13, <1>tp DEF InWrite, ProcessType
      <3> QED
        BY <1>13, <1>tl, <3>1, <3>2, <3>3 DEF InWrite, Lifetimes
    <2> QED
      BY <1>13, <1>e, <1>s, <1>y, <2>1, <2>2, <2>3 DEF TypeOK, InWrite
  <1>14. ASSUME NEW h \in Host, InWriteFails(h) PROVE TypeOK'
    <2>1. ProcessType'
      BY <1>14, <1>tp DEF InWriteFails, InEnds, ProcessType, Label, Messages
    <2>2. Lifetimes'
      BY <1>14, <1>tp, <1>tl DEF InWriteFails, InEnds, Lifetimes, Label, ProcessType
    <2> QED
      BY <1>14, <1>e, <1>s, <1>d, <1>y, <2>1, <2>2 DEF TypeOK, InWriteFails, InEnds
  <1>15. ASSUME NEW h \in Host, Hear(h) PROVE TypeOK'
    <2>1. DaemonType'
      BY <1>15, <1>td DEF Hear, DaemonType, Messages
    <2> QED
      BY <1>15, <1>e, <1>s, <1>p, <1>y, <1>l, <2>1 DEF TypeOK, Hear
  <1>16. ASSUME NEW h \in Host, AskTabs(h) PROVE TypeOK'
    <2>1. DaemonType'
      <3>1. wrote[h] + 1 \in Nat
        BY <1>ty DEF HistoryType
      <3> QED
        BY <1>16, <1>td, <3>1, SendType DEF AskTabs, DaemonType
    <2>2. HistoryType'
      BY <1>16, <1>ty DEF AskTabs, HistoryType
    <2> QED
      BY <1>16, <1>e, <1>s, <1>p, <1>l, <2>1, <2>2 DEF TypeOK, AskTabs
  <1>17. ASSUME NEW h \in Host, Unserve(h) PROVE TypeOK'
    <2>1. DaemonType'
      BY <1>17, <1>td DEF Unserve, DaemonType, Messages
    <2>2. HistoryType'
      BY <1>17, <1>ty DEF Unserve, HistoryType
    <2> QED
      BY <1>17, <1>e, <1>s, <1>p, <1>l, <2>1, <2>2 DEF TypeOK, Unserve
  <1>18. ASSUME NEW h \in Host, Connect(h) PROVE TypeOK'
    <2>1. ExtensionType'
      <3>1. worker' \in BOOLEAN /\ enabled' \in BOOLEAN /\ timer' \in BOOLEAN
        BY <1>18, <1>te, Zenon DEF Connect, ExtensionType
      <3>2. port' \in Host \cup {None}
        BY <1>18, <1>te DEF Connect, ExtensionType
      <3>3. connects' \in 0..MaxConnects /\ jobs' \in 0..MaxJobs
        BY <1>18, <1>te, HostAssumption DEF Connect, ExtensionType
      <3> QED
        BY <3>1, <3>2, <3>3 DEF ExtensionType
    <2>2. PipeType'
      BY <1>18, <1>ts, SendType, FirstType DEF Connect, PipeType
    <2>3. ProcessType'
      BY <1>18, <1>tp DEF Connect, ProcessType, Label, Messages
    <2>4. HistoryType'
      BY <1>18, <1>ty DEF Connect, HistoryType
    <2>5. Lifetimes'
      BY <1>18, <1>tp, <1>tl DEF Connect, Lifetimes, Label, ProcessType
    <2> QED
      BY <1>18, <1>d, <2>1, <2>2, <2>3, <2>4, <2>5 DEF TypeOK, Connect
  <1>19. ASSUME NEW h \in Host, Receive(h) PROVE TypeOK'
    <2>1. ExtensionType'
      <3>1. worker' \in BOOLEAN /\ enabled' \in BOOLEAN /\ timer' \in BOOLEAN
        BY <1>19, <1>te, Zenon DEF Receive, ExtensionType
      <3>2. port' \in Host \cup {None}
        BY <1>19, <1>te DEF Receive, ExtensionType
      <3>3. connects' \in 0..MaxConnects /\ jobs' \in 0..MaxJobs
        BY <1>19, <1>te, HostAssumption DEF Receive, ExtensionType
      <3> QED
        BY <3>1, <3>2, <3>3 DEF ExtensionType
    <2>2. PipeType'
      <3>1. Tail(stdout[h]) \in Messages
        BY <1>19, <1>ts, TailType DEF Receive, PipeType
      <3> QED
        BY <1>19, <1>ts, <3>1 DEF Receive, PipeType
    <2> QED
      BY <1>19, <1>p, <1>d, <1>y, <1>l, <2>1, <2>2 DEF TypeOK, Receive
  <1>20. ASSUME NEW h \in Host, Disconnected(h) PROVE TypeOK'
    <2>1. ExtensionType'
      BY <1>20, <1>te DEF Disconnected, Disconnect, ScheduleReconnect, ExtensionType
    <2>2. PipeType'
      BY <1>20, <1>ts DEF Disconnected, Disconnect, ScheduleReconnect, PipeType, Messages
    <2>3. ProcessType'
      BY <1>20, <1>tp DEF Disconnected, Disconnect, ScheduleReconnect, ProcessType, Label, Messages
    <2>4. HistoryType'
      BY <1>20, <1>ty DEF Disconnected, Disconnect, ScheduleReconnect, HistoryType
    <2>5. Lifetimes'
      BY <1>20, <1>tp, <1>tl DEF Disconnected, Disconnect, ScheduleReconnect, Lifetimes, Label, ProcessType
    <2> QED
      BY <1>20, <1>d, <2>1, <2>2, <2>3, <2>4, <2>5 DEF TypeOK, Disconnected, Disconnect, ScheduleReconnect
  <1>21. ASSUME DaemonStops PROVE TypeOK'
    <2>1. DaemonType'
      BY <1>21, <1>td, SendType, FirstType DEF DaemonStops, DaemonType
    <2>2. HistoryType'
      BY <1>21, <1>ty DEF DaemonStops, HistoryType
    <2> QED
      BY <1>21, <1>e, <1>s, <1>p, <1>l, <2>1, <2>2 DEF TypeOK, DaemonStops
  <1>22. ASSUME DaemonStarts PROVE TypeOK'
    <2>1. DaemonType'
      BY <1>22, <1>td DEF DaemonStarts, DaemonType, Messages
    <2> QED
      BY <1>22, <1>e, <1>s, <1>p, <1>y, <1>l, <2>1 DEF TypeOK, DaemonStarts
  <1>23. ASSUME ConnectThrows PROVE TypeOK'
    <2>1. ExtensionType'
      <3>1. worker' \in BOOLEAN /\ enabled' \in BOOLEAN /\ timer' \in BOOLEAN
        BY <1>23, <1>te, Zenon DEF ConnectThrows, ScheduleReconnect, ExtensionType
      <3>2. port' \in Host \cup {None}
        BY <1>23, <1>te DEF ConnectThrows, ScheduleReconnect, ExtensionType
      <3>3. connects' \in 0..MaxConnects /\ jobs' \in 0..MaxJobs
        BY <1>23, <1>te, HostAssumption DEF ConnectThrows, ScheduleReconnect, ExtensionType
      <3> QED
        BY <3>1, <3>2, <3>3 DEF ExtensionType
    <2> QED
      BY <1>23, <1>s, <1>p, <1>d, <1>y, <1>l, <2>1 DEF TypeOK, ConnectThrows, ScheduleReconnect
  <1>24. ASSUME ConnectReturns PROVE TypeOK'
    <2>1. ExtensionType'
      <3>1. worker' \in BOOLEAN /\ enabled' \in BOOLEAN /\ timer' \in BOOLEAN
        BY <1>24, <1>te, Zenon DEF ConnectReturns, ExtensionType
      <3>2. port' \in Host \cup {None}
        BY <1>24, <1>te DEF ConnectReturns, ExtensionType
      <3>3. connects' \in 0..MaxConnects /\ jobs' \in 0..MaxJobs
        BY <1>24, <1>te, HostAssumption DEF ConnectReturns, ExtensionType
      <3> QED
        BY <3>1, <3>2, <3>3 DEF ExtensionType
    <2> QED
      BY <1>24, <1>s, <1>p, <1>d, <1>y, <1>l, <2>1 DEF TypeOK, ConnectReturns
  <1>25. ASSUME TimerFires PROVE TypeOK'
    <2>1. ExtensionType'
      <3>1. worker' \in BOOLEAN /\ enabled' \in BOOLEAN /\ timer' \in BOOLEAN
        BY <1>25, <1>te, Zenon DEF TimerFires, CallConnect, ExtensionType
      <3>2. port' \in Host \cup {None}
        BY <1>25, <1>te DEF TimerFires, CallConnect, ExtensionType
      <3>3. connects' \in 0..MaxConnects /\ jobs' \in 0..MaxJobs
        BY <1>25, <1>te, HostAssumption DEF TimerFires, CallConnect, ExtensionType
      <3> QED
        BY <3>1, <3>2, <3>3 DEF ExtensionType
    <2> QED
      BY <1>25, <1>s, <1>p, <1>d, <1>y, <1>l, <2>1 DEF TypeOK, TimerFires, CallConnect
  <1>26. ASSUME Alarm PROVE TypeOK'
    <2>1. ExtensionType'
      <3>1. worker' \in BOOLEAN /\ enabled' \in BOOLEAN /\ timer' \in BOOLEAN
        BY <1>26, <1>te, Zenon DEF Alarm, CallConnect, ExtensionType
      <3>2. port' \in Host \cup {None}
        BY <1>26, <1>te DEF Alarm, CallConnect, ExtensionType
      <3>3. connects' \in 0..MaxConnects /\ jobs' \in 0..MaxJobs
        BY <1>26, <1>te, HostAssumption DEF Alarm, CallConnect, ExtensionType
      <3> QED
        BY <3>1, <3>2, <3>3 DEF ExtensionType
    <2> QED
      BY <1>26, <1>s, <1>p, <1>d, <1>y, <1>l, <2>1 DEF TypeOK, Alarm, CallConnect
  <1>27. ASSUME Reconnect PROVE TypeOK'
    <2>1. ExtensionType'
      <3>1. worker' \in BOOLEAN /\ enabled' \in BOOLEAN /\ timer' \in BOOLEAN
        BY <1>27, <1>te, Zenon DEF Reconnect, CallConnect, Teardown, ExtensionType
      <3>2. port' \in Host \cup {None}
        BY <1>27, <1>te DEF Reconnect, CallConnect, Teardown, ExtensionType
      <3>3. connects' \in 0..MaxConnects /\ jobs' \in 0..MaxJobs
        BY <1>27, <1>te, HostAssumption DEF Reconnect, CallConnect, Teardown, ExtensionType
      <3> QED
        BY <3>1, <3>2, <3>3 DEF ExtensionType
    <2>2. PipeType'
      <3>1. CASE port = None
        BY <1>27, <1>ts, <3>1 DEF Reconnect, Teardown, PipeType
      <3>2. CASE port # None
        BY <1>27, <1>te, <1>ts, <3>2, FirstType DEF Reconnect, Teardown, Disconnect, ExtensionType, PipeType
      <3> QED
        BY <3>1, <3>2
    <2>3. ProcessType'
      BY <1>27, <1>tp DEF Reconnect, CallConnect, Teardown, Disconnect, ProcessType, Label, Messages
    <2>4. HistoryType'
      <3>1. CASE port = None
        BY <1>27, <1>ty, <3>1 DEF Reconnect, Teardown, HistoryType
      <3>2. CASE port # None
        BY <1>27, <1>te, <1>ty, <3>2 DEF Reconnect, Teardown, Disconnect, ExtensionType, HistoryType
      <3> QED
        BY <3>1, <3>2
    <2>5. Lifetimes'
      BY <1>27, <1>tp, <1>tl DEF Reconnect, CallConnect, Teardown, Disconnect, Lifetimes, Label, ProcessType
    <2> QED
      BY <1>27, <1>d, <2>1, <2>2, <2>3, <2>4, <2>5 DEF TypeOK, Reconnect, CallConnect, Teardown, Disconnect
  <1>28. ASSUME Unload PROVE TypeOK'
    <2>1. ExtensionType'
      <3>1. worker' \in BOOLEAN /\ enabled' \in BOOLEAN /\ timer' \in BOOLEAN
        BY <1>28, <1>te, Zenon DEF Unload, Teardown, ExtensionType
      <3>2. port' \in Host \cup {None}
        BY <1>28, <1>te DEF Unload, Teardown, ExtensionType
      <3>3. connects' \in 0..MaxConnects /\ jobs' \in 0..MaxJobs
        BY <1>28, <1>te, HostAssumption DEF Unload, Teardown, ExtensionType
      <3> QED
        BY <3>1, <3>2, <3>3 DEF ExtensionType
    <2>2. PipeType'
      <3>1. CASE port = None
        BY <1>28, <1>ts, <3>1 DEF Unload, Teardown, PipeType
      <3>2. CASE port # None
        BY <1>28, <1>te, <1>ts, <3>2, FirstType DEF Unload, Teardown, Disconnect, ExtensionType, PipeType
      <3> QED
        BY <3>1, <3>2
    <2>3. ProcessType'
      BY <1>28, <1>tp DEF Unload, Teardown, Disconnect, ProcessType, Label, Messages
    <2>4. HistoryType'
      <3>1. CASE port = None
        BY <1>28, <1>ty, <3>1 DEF Unload, Teardown, HistoryType
      <3>2. CASE port # None
        BY <1>28, <1>te, <1>ty, <3>2 DEF Unload, Teardown, Disconnect, ExtensionType, HistoryType
      <3> QED
        BY <3>1, <3>2
    <2>5. Lifetimes'
      BY <1>28, <1>tp, <1>tl DEF Unload, Teardown, Disconnect, Lifetimes, Label, ProcessType
    <2> QED
      BY <1>28, <1>d, <2>1, <2>2, <2>3, <2>4, <2>5 DEF TypeOK, Unload, Teardown, Disconnect
  <1>29. ASSUME Answer PROVE TypeOK'
    <2>1. ExtensionType'
      <3>1. worker' \in BOOLEAN /\ enabled' \in BOOLEAN /\ timer' \in BOOLEAN
        BY <1>29, <1>te, Zenon DEF Answer, ExtensionType
      <3>2. port' \in Host \cup {None}
        BY <1>29, <1>te DEF Answer, ExtensionType
      <3>3. connects' \in 0..MaxConnects /\ jobs' \in 0..MaxJobs
        BY <1>29, <1>te, HostAssumption DEF Answer, ExtensionType
      <3> QED
        BY <3>1, <3>2, <3>3 DEF ExtensionType
    <2>2. PipeType'
      <3>1. CASE port = None \/ main[port] = "exited"
        BY <1>29, <1>ts, <3>1 DEF Answer, PipeType
      <3>2. CASE ~(port = None \/ main[port] = "exited")
        <4>1. port \in Host /\ posted[port] + 1 \in Nat
          BY <1>te, <1>ty, <3>2 DEF ExtensionType, HistoryType
        <4> QED
          BY <1>29, <1>ts, <3>2, <4>1, SendType DEF Answer, PipeType
      <3> QED
        BY <3>1, <3>2
    <2>3. HistoryType'
      BY <1>29, <1>ty DEF Answer, HistoryType
    <2> QED
      BY <1>29, <1>p, <1>d, <1>l, <2>1, <2>2, <2>3 DEF TypeOK, Answer
  <1>30. ASSUME SendThrows PROVE TypeOK'
    <2>1. ExtensionType'
      <3>1. worker' \in BOOLEAN /\ enabled' \in BOOLEAN /\ timer' \in BOOLEAN
        BY <1>30, <1>te, Zenon DEF SendThrows, Teardown, ExtensionType
      <3>2. port' \in Host \cup {None}
        BY <1>30, <1>te DEF SendThrows, Teardown, ExtensionType
      <3>3. connects' \in 0..MaxConnects /\ jobs' \in 0..MaxJobs
        BY <1>30, <1>te, HostAssumption DEF SendThrows, Teardown, ExtensionType
      <3> QED
        BY <3>1, <3>2, <3>3 DEF ExtensionType
    <2>2. PipeType'
      <3>1. CASE port = None
        BY <1>30, <1>ts, <3>1 DEF SendThrows, Teardown, PipeType
      <3>2. CASE port # None
        BY <1>30, <1>te, <1>ts, <3>2, FirstType DEF SendThrows, Teardown, Disconnect, ExtensionType, PipeType
      <3> QED
        BY <3>1, <3>2
    <2>3. ProcessType'
      BY <1>30, <1>tp DEF SendThrows, Teardown, Disconnect, ProcessType, Label, Messages
    <2>4. HistoryType'
      <3>1. CASE port = None
        BY <1>30, <1>ty, <3>1 DEF SendThrows, Teardown, HistoryType
      <3>2. CASE port # None
        BY <1>30, <1>te, <1>ty, <3>2 DEF SendThrows, Teardown, Disconnect, ExtensionType, HistoryType
      <3> QED
        BY <3>1, <3>2
    <2>5. Lifetimes'
      BY <1>30, <1>tp, <1>tl DEF SendThrows, Teardown, Disconnect, Lifetimes, Label, ProcessType
    <2> QED
      BY <1>30, <1>d, <2>1, <2>2, <2>3, <2>4, <2>5 DEF TypeOK, SendThrows, Teardown, Disconnect
  <1>31. ASSUME UNCHANGED vars PROVE TypeOK'
    <2>1. UNCHANGED <<extension, pipes, process, daemons, history>>
      BY <1>31 DEF vars
    <2> QED
      BY <2>1, <1>e, <1>s, <1>p, <1>l, <1>d, <1>y DEF TypeOK
  <1> QED
    BY <1>1, <1>2, <1>3, <1>4, <1>5, <1>6, <1>7, <1>8, <1>9, <1>10, <1>11, <1>12, <1>13, <1>14, <1>15,
       <1>16, <1>17, <1>18, <1>19, <1>20, <1>21, <1>22, <1>23, <1>24, <1>25, <1>26, <1>27, <1>28, <1>29, <1>30, <1>31
    DEF Next, Worker, Main, Inbound, Serving

(* The initial states have them. *)
LEMMA TypeInit == Init => TypeOK
  <1> SUFFICES ASSUME Init PROVE TypeOK
    OBVIOUS
  <1>1. ExtensionType
    <2>1. worker \in BOOLEAN /\ enabled \in BOOLEAN /\ timer \in BOOLEAN
      BY DEF Init
    <2> QED
      BY <2>1, HostAssumption DEF Init, ExtensionType
  <1>2. PipeType
    BY FirstType DEF Init, PipeType
  <1>3. ProcessType /\ Lifetimes
    BY FirstType DEF Init, ProcessType, Label, Lifetimes
  <1>4. DaemonType
    BY FirstType DEF Init, DaemonType
  <1>5. HistoryType
    BY DEF Init, HistoryType
  <1> QED
    BY <1>1, <1>2, <1>3, <1>4, <1>5 DEF TypeOK

(* The variables keep their types, the inbound thread lives in a process that pumps, the      *)
(* process has its connection to the daemon only while its main thread does, and a pump that  *)
(* writes has something left of its chunk (run_native_host, pump), for any number of hosts.   *)
THEOREM HostTypeCorrect == Spec => []TypeOK
  BY TypeInit, TypeStep, PTL DEF Spec

-----------------------------------------------------------------------------
(* One port.                                                                *)

(* teardown closes the one port there may be. *)
LEMMA PortClosed ==
    ASSUME TypeOK, OnePort, Teardown
    PROVE  OnePort'
  <1>1. open \in [Host -> BOOLEAN] /\ port' = None
    BY DEF TypeOK, PipeType, Teardown
  <1>2. CASE port = None
    BY <1>1, <1>2, HostAssumption DEF OnePort, Teardown
  <1>3. CASE port # None
    BY <1>1, <1>3 DEF OnePort, Teardown, Disconnect
  <1> QED
    BY <1>2, <1>3

(* Every step keeps it to one. *)
LEMMA PortStep ==
    ASSUME TypeOK, OnePort, [Next]_vars
    PROVE  OnePort'
  <1> USE DEF extension, pipes, process, daemons, history
  <1>t. open \in [Host -> BOOLEAN]
    BY DEF TypeOK, PipeType
  <1>u. ASSUME UNCHANGED <<open, port>> PROVE OnePort'
    BY <1>u DEF OnePort
  <1>1. ASSUME NEW h \in Host, Connect(h) PROVE OnePort'
    <2>1. \A g \in Host : ~open[g]
      BY <1>1, HostAssumption DEF Connect, OnePort
    <2> QED
      BY <1>1, <1>t, <2>1 DEF Connect, OnePort
  <1>2. ASSUME NEW h \in Host, Disconnected(h) PROVE OnePort'
    BY <1>2, <1>t DEF Disconnected, Disconnect, OnePort
  <1>3. ASSUME Reconnect \/ Unload \/ SendThrows PROVE OnePort'
    BY <1>3, PortClosed DEF Reconnect, Unload, SendThrows
  <1>4. ASSUME NEW h \in Host, Main(h) \/ Inbound(h) PROVE UNCHANGED <<open, port>>
    BY <1>4 DEF Main, ConnectDaemon, NoDaemon, Hello, HelloFails, OutRead, OutReadFails,
                OutWrite, OutKilled, OutFraming, Join, Inbound, InRead, InEof, InWrite,
                InWriteFails
  <1>5. ASSUME NEW h \in Host, Serving(h) \/ AskTabs(h) \/ Receive(h) PROVE UNCHANGED <<open, port>>
    BY <1>5 DEF Serving, Hear, Unserve, AskTabs, Receive
  <1>6. ASSUME ConnectReturns \/ TimerFires \/ Answer \/ ConnectThrows \/ Alarm
               \/ DaemonStops \/ DaemonStarts
        PROVE  UNCHANGED <<open, port>>
    BY <1>6 DEF ConnectReturns, TimerFires, Answer, ConnectThrows, Alarm, DaemonStops,
                DaemonStarts
  <1>7. ASSUME UNCHANGED vars PROVE UNCHANGED <<open, port>>
    BY <1>7 DEF vars
  <1> QED
    BY <1>u, <1>1, <1>2, <1>3, <1>4, <1>5, <1>6, <1>7 DEF Next, Worker

(* However many calls of connect() are suspended in their await at once, the port in the      *)
(* extension's global is the only one open (connect, teardown and onDisconnect in             *)
(* background.js).                                                                            *)
THEOREM OnePortAtATime == Spec => []OnePort
  <1>1. Init => OnePort
    BY DEF Init, OnePort
  <1> QED
    BY <1>1, PortStep, HostTypeCorrect, PTL DEF Spec

-----------------------------------------------------------------------------
(* Sequences of consecutive messages.                                       *)

(* Both parts of a consecutive sequence are consecutive, and the second ends as the whole. *)
LEMMA PartsConsecutive ==
    ASSUME NEW a \in Messages, NEW b \in Messages, NEW n \in Nat, Consecutive(a \o b)
    PROVE  /\ Consecutive(a) /\ Consecutive(b)
           /\ EndsWith(a \o b, n) => EndsWith(b, n)
  <1>1. a \in Seq(Message) /\ b \in Seq(Message) /\ Len(a) \in Nat /\ Len(b) \in Nat
    BY LenProperties DEF Messages
  <1>2. /\ Len(a \o b) = Len(a) + Len(b)
        /\ \A i \in 1..(Len(a) + Len(b)) :
              (a \o b)[i] = IF i <= Len(a) THEN a[i] ELSE b[i - Len(a)]
    BY <1>1, ConcatProperties
  <1>3. Consecutive(a)
    <2> SUFFICES ASSUME NEW i \in 1..(Len(a) - 1) PROVE a[i + 1].at = a[i].at + 1
      BY DEF Consecutive
    <2>1. (a \o b)[i + 1] = a[i + 1] /\ (a \o b)[i] = a[i]
      BY <1>1, <1>2
    <2> QED
      BY <1>1, <1>2, <2>1 DEF Consecutive
  <1>4. \A i \in 1..Len(b) : (a \o b)[Len(a) + i] = b[i]
    BY <1>1, <1>2
  <1>5. Consecutive(b)
    <2> SUFFICES ASSUME NEW i \in 1..(Len(b) - 1) PROVE b[i + 1].at = b[i].at + 1
      BY DEF Consecutive
    <2>1. Len(a) + i \in 1..(Len(a \o b) - 1) /\ (Len(a) + i) + 1 = Len(a) + (i + 1)
      BY <1>1, <1>2
    <2>2. (a \o b)[(Len(a) + i) + 1].at = (a \o b)[Len(a) + i].at + 1
      BY <2>1 DEF Consecutive
    <2>3. i \in 1..Len(b) /\ i + 1 \in 1..Len(b)
      BY <1>1
    <2> QED
      BY <1>4, <2>1, <2>2, <2>3
  <1>6. ASSUME b # <<>> PROVE (a \o b)[Len(a \o b)] = b[Len(b)] /\ a \o b # <<>>
    <2>1. Len(b) \in 1..Len(b)
      BY <1>1, <1>6, EmptySeq
    <2> QED
      BY <1>1, <1>2, <1>4, <1>6, <2>1, ConcatEqualIffEmpty
  <1> QED
    BY <1>3, <1>5, <1>6 DEF EndsWith

(* The next message of a sender keeps its sequence consecutive. *)
LEMMA NextConsecutive ==
    ASSUME NEW ms \in Messages, NEW n \in Nat, NEW k \in Kind,
           Consecutive(ms), EndsWith(ms, n)
    PROVE  /\ Consecutive(Append(ms, Msg(k, n + 1)))
           /\ EndsWith(Append(ms, Msg(k, n + 1)), n + 1)
  <1> DEFINE m == Msg(k, n + 1)
  <1>1. m \in Message /\ m.at = n + 1
    BY MessageType DEF Msg
  <1> HIDE DEF m
  <1>2. /\ ms \in Seq(Message) /\ Len(ms) \in Nat
        /\ Len(Append(ms, m)) = Len(ms) + 1
        /\ \A i \in 1..Len(ms) : Append(ms, m)[i] = ms[i]
        /\ Append(ms, m)[Len(ms) + 1] = m
    BY <1>1 DEF Messages
  <1>3. EndsWith(Append(ms, m), n + 1)
    BY <1>1, <1>2 DEF EndsWith
  <1>4. ASSUME NEW i \in 1..Len(ms) PROVE Append(ms, m)[i + 1].at = Append(ms, m)[i].at + 1
    <2>1. CASE i = Len(ms)
      <3>1. ms # <<>>
        BY <1>2, EmptySeq
      <3> QED
        BY <1>1, <1>2, <2>1, <3>1 DEF EndsWith
    <2>2. CASE i # Len(ms)
      <3>1. i \in 1..(Len(ms) - 1) /\ i + 1 \in 1..Len(ms)
        BY <1>2, <2>2
      <3> QED
        BY <1>2, <3>1 DEF Consecutive
    <2> QED
      BY <2>1, <2>2
  <1>5. Consecutive(Append(ms, m))
    BY <1>2, <1>4 DEF Consecutive
  <1> QED
    BY <1>3, <1>5 DEF m

(* The hello of the host goes before the first message of a sender. *)
LEMMA HelloConsecutive ==
    ASSUME NEW ms \in Messages, NEW k \in Kind, NEW n \in Nat,
           Consecutive(ms), StartsWith(ms, 1)
    PROVE  /\ Consecutive(<<Msg(k, 0)>> \o ms)
           /\ EndsWith(ms, n) => EndsWith(<<Msg(k, 0)>> \o ms, n)
  <1> DEFINE m == Msg(k, 0)
  <1>1. m \in Message /\ m.at = 0
    BY MessageType DEF Msg
  <1> HIDE DEF m
  <1>2. /\ ms \in Seq(Message) /\ Len(ms) \in Nat \ {0} /\ ms[1].at = 1 /\ ms # <<>>
        /\ <<m>> \in Seq(Message) /\ Len(<<m>>) = 1 /\ <<m>>[1] = m
    BY <1>1, EmptySeq DEF Messages, StartsWith
  <1>3. /\ Len(<<m>> \o ms) = Len(ms) + 1
        /\ (<<m>> \o ms)[1] = m
        /\ \A i \in 1..Len(ms) : (<<m>> \o ms)[i + 1] = ms[i]
    <2>1. /\ Len(<<m>> \o ms) = Len(<<m>>) + Len(ms)
          /\ \A i \in 1..(Len(<<m>>) + Len(ms)) :
                (<<m>> \o ms)[i] = IF i <= Len(<<m>>) THEN <<m>>[i] ELSE ms[i - Len(<<m>>)]
      BY <1>2, ConcatProperties
    <2> QED
      BY <1>2, <2>1
  <1>4. ASSUME NEW i \in 1..Len(ms)
        PROVE  (<<m>> \o ms)[i + 1].at = (<<m>> \o ms)[i].at + 1
    <2>1. CASE i = 1
      BY <1>1, <1>2, <1>3, <2>1
    <2>2. CASE i # 1
      <3>1. i - 1 \in 1..(Len(ms) - 1) /\ i - 1 \in 1..Len(ms) /\ (i - 1) + 1 = i
        BY <1>2, <2>2
      <3>2. ms[(i - 1) + 1].at = ms[i - 1].at + 1
        BY <3>1 DEF Consecutive
      <3> QED
        BY <1>3, <3>1, <3>2
    <2> QED
      BY <2>1, <2>2
  <1>5. Consecutive(<<m>> \o ms)
    BY <1>2, <1>3, <1>4 DEF Consecutive
  <1>6. EndsWith(ms, n) => EndsWith(<<m>> \o ms, n)
    BY <1>2, <1>3 DEF EndsWith
  <1> QED
    BY <1>5, <1>6 DEF m

(* Channels in a row make a channel, however they are grouped. *)
LEMMA RowType == \A a, b \in Messages : a \o b \in Messages
  BY ConcatProperties DEF Messages

LEMMA Associative == \A a, b, c \in Messages : a \o (b \o c) = (a \o b) \o c
  BY ConcatAssociative, SMTT(60) DEF Messages

(* A message that goes from the head of one channel to the end of the one before moves     *)
(* nothing.                                                                                *)
LEMMA ShiftSame ==
    ASSUME NEW a \in Messages, NEW b \in Messages, NEW c \in Messages, b # <<>>
    PROVE  Append(a, Head(b)) \o (Tail(b) \o c) = a \o (b \o c)
  <1>1. \E h, t \in Messages : Append(a, Head(b)) = a \o h /\ b = h \o t /\ t = Tail(b)
    <2>1. <<Head(b)>> \in Messages /\ Tail(b) \in Messages
      BY TailType DEF Messages
    <2>2. Append(a, Head(b)) = a \o <<Head(b)>> /\ b = <<Head(b)>> \o Tail(b)
      BY TailType DEF Messages
    <2> QED
      BY <2>1, <2>2
  <1>2. PICK h \in Messages, t \in Messages :
            Append(a, Head(b)) = a \o h /\ b = h \o t /\ t = Tail(b)
    BY <1>1
  <1> DEFINE r == t \o c
  <1>3. r \in Messages
    BY RowType
  <1> HIDE DEF r
  <1>4. a \o (h \o r) = (a \o h) \o r
    <2>1. \A x, y \in Messages : a \o (x \o y) = (a \o x) \o y
      BY Associative, Zenon
    <2>2. \A y \in Messages : a \o (h \o y) = (a \o h) \o y
      BY <2>1, Zenon
    <2> QED
      BY <1>3, <2>2, Zenon
  <1>5. h \o r = (h \o t) \o c
    BY Associative, ZenonT(60) DEF r
  <1> QED
    BY <1>2, <1>4, <1>5, Zenon DEF r

(* A message at the end of the last channel is the last of all. *)
LEMMA AppendLast ==
    ASSUME NEW a \in Messages, NEW b \in Messages, NEW c \in Messages, NEW m \in Message
    PROVE  a \o (b \o Append(c, m)) = Append(a \o (b \o c), m)
  <1>1. a \in Seq(Message) /\ b \in Seq(Message) /\ c \in Seq(Message) /\ <<m>> \in Seq(Message)
    BY DEF Messages
  <1>2. b \o c \in Seq(Message) /\ a \o (b \o c) \in Seq(Message)
    BY <1>1, ConcatProperties
  <1>3. Append(c, m) = c \o <<m>> /\ Append(a \o (b \o c), m) = (a \o (b \o c)) \o <<m>>
    BY <1>1, <1>2
  <1> QED
    BY <1>1, <1>2, <1>3, ConcatAssociative

-----------------------------------------------------------------------------
(* The inductive invariants of the relay.                                    *)


LEMMA AppendAt ==
    ASSUME NEW f \in [Host -> Messages], NEW h \in Host, NEW m
    PROVE  /\ Append1(f, h, m)[h] = Append(f[h], m)
           /\ \A g \in Host \ {h} : Append1(f, h, m)[g] = f[g]
  BY DEF Append1

(* What is empty stays so until something is put there. *)
LEMMA EmptyStep ==
    ASSUME TypeOK, EmptyInv, [Next]_vars
    PROVE  EmptyInv'
  <1> USE DEF extension, pipes, process, daemons, history
  <1>t. PipeType /\ ProcessType /\ DaemonType
    BY DEF TypeOK
  <1>l. Lifetimes
    BY DEF TypeOK
  <1>1. ASSUME NEW h \in Host, ConnectDaemon(h) PROVE EmptyInv'
    BY <1>1, <1>t, <1>l DEF ConnectDaemon, EmptyInv, EmptyAt, Saying,
       PipeType, ProcessType, DaemonType, Lifetimes
  <1>2. ASSUME NEW h \in Host, NoDaemon(h) PROVE EmptyInv'
    <2>1. \A g \in Host \ {h} : stdout'[g] = stdout[g]
      BY <1>2, <1>t, AppendAt DEF NoDaemon, Exit, PipeType, DaemonType
    <2> QED
      BY <1>2, <1>t, <1>l, <2>1 DEF NoDaemon, Exit, EmptyInv, EmptyAt, Saying, ProcessType, Lifetimes,
         PipeType, DaemonType
  <1>3. ASSUME NEW h \in Host, Hello(h) PROVE EmptyInv'
    <2>1. \A g \in Host \ {h} : stdout'[g] = stdout[g] /\ up'[g] = up[g]
      BY <1>3, <1>t, AppendAt DEF Hello, PipeType, DaemonType
    <2> QED
      BY <1>3, <1>t, <1>l, <2>1 DEF Hello, EmptyInv, EmptyAt, Saying, ProcessType, Lifetimes,
         PipeType, DaemonType
  <1>4. ASSUME NEW h \in Host, HelloFails(h) PROVE EmptyInv'
    <2>1. \A g \in Host \ {h} : stdout'[g] = stdout[g]
      BY <1>4, <1>t, AppendAt DEF HelloFails, Exit, PipeType, DaemonType
    <2> QED
      BY <1>4, <1>t, <1>l, <2>1 DEF HelloFails, Exit, EmptyInv, EmptyAt, Saying, ProcessType, Lifetimes,
         PipeType, DaemonType
  <1>5. ASSUME NEW h \in Host, OutRead(h) PROVE EmptyInv'
    BY <1>5, <1>t, <1>l DEF OutRead, EmptyInv, EmptyAt, Saying,
       PipeType, ProcessType, DaemonType, Lifetimes
  <1>6. ASSUME NEW h \in Host, OutReadFails(h) PROVE EmptyInv'
    BY <1>6, <1>t, <1>l DEF OutReadFails, OutEnds, EmptyInv, EmptyAt, Saying,
       PipeType, ProcessType, DaemonType, Lifetimes
  <1>7. ASSUME NEW h \in Host, OutFraming(h) PROVE EmptyInv'
    BY <1>7, <1>t, <1>l DEF OutFraming, OutEnds, EmptyInv, EmptyAt, Saying,
       PipeType, ProcessType, DaemonType, Lifetimes
  <1>8. ASSUME NEW h \in Host, OutKilled(h) PROVE EmptyInv'
    BY <1>8, <1>t, <1>l DEF OutKilled, Killed, Exit, EmptyInv, EmptyAt, Saying,
       PipeType, ProcessType, DaemonType, Lifetimes
  <1>9. ASSUME NEW h \in Host, Join(h) PROVE EmptyInv'
    BY <1>9, <1>t, <1>l DEF Join, Exit, EmptyInv, EmptyAt, Saying,
       PipeType, ProcessType, DaemonType, Lifetimes
  <1>10. ASSUME NEW h \in Host, InRead(h) PROVE EmptyInv'
    BY <1>10, <1>t, <1>l DEF InRead, EmptyInv, EmptyAt, Saying,
       PipeType, ProcessType, DaemonType, Lifetimes
  <1>11. ASSUME NEW h \in Host, InEof(h) PROVE EmptyInv'
    BY <1>11, <1>t, <1>l DEF InEof, InEnds, EmptyInv, EmptyAt, Saying,
       PipeType, ProcessType, DaemonType, Lifetimes
  <1>12. ASSUME NEW h \in Host, InWriteFails(h) PROVE EmptyInv'
    BY <1>12, <1>t, <1>l DEF InWriteFails, InEnds, EmptyInv, EmptyAt, Saying,
       PipeType, ProcessType, DaemonType, Lifetimes
  <1>13. ASSUME NEW h \in Host, Hear(h) PROVE EmptyInv'
    BY <1>13, <1>t, <1>l DEF Hear, EmptyInv, EmptyAt, Saying,
       PipeType, ProcessType, DaemonType, Lifetimes
  <1>14. ASSUME NEW h \in Host, AskTabs(h) PROVE EmptyInv'
    <2>1. \A g \in Host \ {h} : down'[g] = down[g]
      BY <1>14, <1>t, AppendAt DEF AskTabs, PipeType, DaemonType
    <2> QED
      BY <1>14, <1>t, <1>l, <2>1 DEF AskTabs, EmptyInv, EmptyAt, Saying, ProcessType, Lifetimes,
         PipeType, DaemonType
  <1>15. ASSUME NEW h \in Host, Unserve(h) PROVE EmptyInv'
    BY <1>15, <1>t, <1>l DEF Unserve, EmptyInv, EmptyAt, Saying,
       PipeType, ProcessType, DaemonType, Lifetimes
  <1>16. ASSUME NEW h \in Host, Connect(h) PROVE EmptyInv'
    BY <1>16, <1>t, <1>l DEF Connect, EmptyInv, EmptyAt, Saying,
       PipeType, ProcessType, DaemonType, Lifetimes
  <1>17. ASSUME NEW h \in Host, Disconnected(h) PROVE EmptyInv'
    BY <1>17, <1>t, <1>l DEF Disconnected, Disconnect, EmptyInv, EmptyAt, Saying,
       PipeType, ProcessType, DaemonType, Lifetimes
  <1>18. ASSUME NEW h \in Host, OutWrite(h) PROVE EmptyInv'
    <2>1. \A g \in Host \ {h} : stdout'[g] = stdout[g]
      BY <1>18, <1>t, AppendAt DEF OutWrite, PipeType
    <2>2. CASE Len(outBuf[h]) = 1 /\ ~running[h]
      BY <1>18, <1>t, <1>l, <2>1, <2>2 DEF OutWrite, OutEnds, EmptyInv, EmptyAt, Saying,
         ProcessType, Lifetimes, PipeType, DaemonType
    <2>3. CASE ~(Len(outBuf[h]) = 1 /\ ~running[h])
      <3>1. Len(outBuf[h]) = 1 => Tail(outBuf[h]) = <<>>
        BY <1>18, <1>t, <1>l, TailType DEF OutWrite, ProcessType, Lifetimes
      <3>2. outBuf' = [outBuf EXCEPT ![h] = Tail(@)] /\ UNCHANGED daemons /\ open[h]
            /\ UNCHANGED <<open, inbound, inBuf, link>> /\ main[h] = "write"
        BY <1>18, <2>3 DEF OutWrite
      <3>3. main' = [main EXCEPT ![h] = IF Len(outBuf[h]) = 1 THEN "read" ELSE "write"]
        BY <1>18, <2>3 DEF OutWrite
      <3> QED
        BY <1>t, <1>l, <2>1, <3>1, <3>2, <3>3 DEF EmptyInv, EmptyAt, Saying, ProcessType,
           Lifetimes, PipeType, DaemonType
    <2> QED
      BY <2>2, <2>3
  <1>19. ASSUME NEW h \in Host, InWrite(h) PROVE EmptyInv'
    <2>1. Len(inBuf[h]) = 1 => Tail(inBuf[h]) = <<>>
      BY <1>19, <1>t, <1>l, TailType DEF InWrite, ProcessType, Lifetimes
    <2>2. inbound'[h] = "read" => inBuf'[h] = <<>>
      BY <1>19, <1>t, <2>1 DEF InWrite, ProcessType
    <2>3. \A g \in Host \ {h} : up'[g] = up[g] /\ inBuf'[g] = inBuf[g] /\ inbound'[g] = inbound[g]
      BY <1>19, <1>t, AppendAt DEF InWrite, ProcessType, DaemonType
    <2>4. inbound'[h] # "none"
      BY <1>19, <1>t DEF InWrite, ProcessType
    <2> QED
      BY <1>19, <1>t, <1>l, <2>2, <2>3, <2>4 DEF InWrite, EmptyInv, EmptyAt, Saying, Lifetimes
  <1>20. ASSUME NEW h \in Host, Receive(h) PROVE EmptyInv'
    BY <1>20, <1>t, <1>l DEF Receive, EmptyInv, EmptyAt, Saying,
       PipeType, ProcessType, DaemonType, Lifetimes
  <1>21. ASSUME DaemonStops PROVE EmptyInv'
    BY <1>21, <1>t, <1>l DEF DaemonStops, EmptyInv, EmptyAt, Saying,
       PipeType, ProcessType, DaemonType, Lifetimes
  <1>22. ASSUME Answer PROVE EmptyInv'
    BY <1>22, <1>t, <1>l DEF Answer, EmptyInv, EmptyAt, Saying,
       PipeType, ProcessType, DaemonType, Lifetimes
  <1>23. ASSUME Reconnect PROVE EmptyInv'
    BY <1>23, <1>t, <1>l DEF Reconnect, Teardown, Disconnect, EmptyInv, EmptyAt, Saying,
       PipeType, ProcessType, DaemonType, Lifetimes
  <1>24. ASSUME Unload PROVE EmptyInv'
    BY <1>24, <1>t, <1>l DEF Unload, Teardown, Disconnect, EmptyInv, EmptyAt, Saying,
       PipeType, ProcessType, DaemonType, Lifetimes
  <1>25. ASSUME SendThrows PROVE EmptyInv'
    BY <1>25, <1>t, <1>l DEF SendThrows, Teardown, Disconnect, EmptyInv, EmptyAt, Saying,
       PipeType, ProcessType, DaemonType, Lifetimes
  <1>26. ASSUME UNCHANGED <<open, stdin, stdout, main, inbound, running, outBuf, inBuf, link,
                           served, up, down>>
         PROVE  EmptyInv'
    BY <1>26 DEF EmptyInv, EmptyAt, Saying
  <1>27. ASSUME DaemonStarts \/ ConnectThrows \/ ConnectReturns \/ TimerFires \/ Alarm
                \/ UNCHANGED vars
         PROVE  EmptyInv'
    BY <1>26, <1>27 DEF DaemonStarts, ConnectThrows, ConnectReturns, TimerFires, Alarm, vars
  <1> QED
    BY <1>1, <1>2, <1>3, <1>4, <1>5, <1>6, <1>7, <1>8, <1>9, <1>10, <1>11, <1>12, <1>13, <1>14, <1>15,
       <1>16, <1>17, <1>18, <1>19, <1>20, <1>21, <1>22, <1>23, <1>24, <1>25, <1>27
    DEF Next, Worker, Main, Inbound, Serving

LEMMA EmptyInit == Init => EmptyInv
  BY DEF Init, EmptyInv, EmptyAt, Saying

-----------------------------------------------------------------------------
(* The way up.                                                              *)

LEMMA RowEmpty == \A ms \in Messages : ms \o <<>> = ms /\ <<>> \o ms = ms
  BY ConcatEmptySeq DEF Messages

LEMMA NoneOrOne ==
    /\ Consecutive(<<>>)
    /\ \A m \in Message, n \in Nat :
          Consecutive(<<m>>) /\ (m.at = n => EndsWith(<<m>>, n) /\ StartsWith(<<m>>, n))
  BY DEF Consecutive, EndsWith, StartsWith

(* A sender whose first message is under way has it in front when it sends another. *)
LEMMA StillFirst ==
    ASSUME NEW ms \in Messages, NEW m \in Message, NEW n \in Nat, StartsWith(ms, n)
    PROVE  StartsWith(Append(ms, m), n)
  <1>1. ms \in Seq(Message) /\ Len(ms) \in Nat \ {0}
    BY EmptySeq DEF Messages, StartsWith
  <1>2. Append(ms, m)[1] = ms[1] /\ Len(Append(ms, m)) = Len(ms) + 1
    BY <1>1
  <1> QED
    BY <1>1, <1>2 DEF StartsWith

(* A step that leaves the three channels of a host alone, and opens or starts nothing. *)
LEMMA UpQuiet ==
    ASSUME UpInv, UNCHANGED <<up, inBuf, stdin>>,
           \A g \in Host :
              /\ open'[g] /\ main'[g] # "exited" =>
                    open[g] /\ main[g] # "exited" /\ posted'[g] = posted[g]
              /\ open'[g] /\ Saying(g)' => open[g] /\ Saying(g)
    PROVE  UpInv'
  BY DEF UpInv, UpAt, Upward

(* A step that changes the channels of one host. *)
LEMMA UpOther ==
    ASSUME UpInv, NEW h \in Host, UpAt(h)',
           \A g \in Host \ {h} :
              /\ up'[g] = up[g] /\ inBuf'[g] = inBuf[g] /\ stdin'[g] = stdin[g]
              /\ open'[g] = open[g] /\ main'[g] = main[g] /\ posted'[g] = posted[g]
    PROVE  UpInv'
  <1>1. ASSUME NEW g \in Host \ {h} PROVE UpAt(g)'
    <2>1. UpAt(g)
      BY DEF UpInv
    <2> QED
      BY <2>1 DEF UpAt, Upward, Saying
  <1> QED
    BY <1>1 DEF UpInv

(* The process ends. *)
LEMMA UpExit ==
    ASSUME TypeOK, UpInv, NEW h \in Host, Exit(h), UNCHANGED <<up, open, posted>>
    PROVE  UpInv'
  <1>t. up \in [Host -> Messages] /\ inBuf \in [Host -> Messages] /\ stdin \in [Host -> Messages]
        /\ main \in [Host -> Label]
    BY DEF TypeOK, PipeType, ProcessType, DaemonType
  <1>1. Upward(h)' = up[h]
    <2>1. Upward(h)' = up[h] \o (<<>> \o <<>>)
      BY <1>t DEF Exit, Upward
    <2> QED
      BY <2>1, <1>t, RowEmpty, FirstType
  <1>2. Consecutive(up[h])
    BY <1>t, RowType, PartsConsecutive DEF UpInv, UpAt, Upward
  <1>3. main'[h] = IF open[h] THEN "exited" ELSE "none"
    BY <1>t DEF Exit
  <1>4. UpAt(h)'
    BY <1>1, <1>2, <1>3 DEF UpAt, Saying
  <1> QED
    BY <1>4, <1>t, UpOther DEF Exit

(* What the daemon takes, or loses when it stops, is the first part. *)
LEMMA UpTaken ==
    ASSUME TypeOK, UpInv, NEW S \in SUBSET Host, up' = [h \in Host |-> IF h \in S THEN <<>> ELSE up[h]],
           UNCHANGED <<inBuf, stdin, open, main, posted>>
    PROVE  UpInv'
  <1> SUFFICES ASSUME NEW h \in Host PROVE UpAt(h)'
    BY DEF UpInv
  <1>t. up[h] \in Messages /\ inBuf[h] \in Messages /\ stdin[h] \in Messages /\ posted[h] \in Nat
    BY DEF TypeOK, PipeType, ProcessType, DaemonType, HistoryType
  <1>u. UpAt(h)
    BY DEF UpInv
  <1>1. CASE h \in S
    <2>1. inBuf[h] \o stdin[h] \in Messages
      BY <1>t, RowType
    <2>2. Upward(h)' = inBuf[h] \o stdin[h]
      BY <1>1, <2>1, RowEmpty DEF Upward
    <2>3. /\ Consecutive(inBuf[h] \o stdin[h])
          /\ EndsWith(Upward(h), posted[h]) => EndsWith(inBuf[h] \o stdin[h], posted[h])
      BY <1>t, <1>u, <2>1, PartsConsecutive DEF UpAt, Upward
    <2> QED
      BY <1>u, <2>2, <2>3 DEF UpAt, Saying
  <1>2. CASE h \notin S
    BY <1>2, <1>u DEF UpAt, Upward, Saying
  <1> QED
    BY <1>1, <1>2

LEMMA UpHello ==
    ASSUME TypeOK, EmptyInv, UpInv, NEW h \in Host, Hello(h)
    PROVE  UpInv'
  <1>t. /\ up \in [Host -> Messages] /\ inBuf[h] \in Messages /\ stdin[h] \in Messages
        /\ main \in [Host -> Label] /\ posted[h] \in Nat
    BY DEF TypeOK, PipeType, ProcessType, DaemonType, HistoryType
  <1>1. inBuf[h] = <<>> /\ up[h] = <<>>
    BY DEF Hello, EmptyInv, EmptyAt, Saying, TypeOK, ProcessType, Lifetimes
  <1>2. up'[h] = <<Msg("answer", 0)>>
    <2>1. up'[h] = Append(up[h], Msg("answer", 0))
      BY <1>t, AppendAt DEF Hello
    <2> QED
      BY <1>1, <2>1
  <1>3. Upward(h) = stdin[h] /\ Upward(h)' = <<Msg("answer", 0)>> \o stdin[h]
    BY <1>t, <1>1, <1>2, RowEmpty DEF Hello, Upward
  <1>4. /\ Consecutive(stdin[h]) /\ StartsWith(stdin[h], 1) /\ EndsWith(stdin[h], posted[h])
    BY <1>3 DEF Hello, UpInv, UpAt, Saying
  <1>5. /\ Consecutive(Upward(h)') /\ EndsWith(Upward(h)', posted[h])
    BY <1>t, <1>3, <1>4, HelloConsecutive DEF Kind
  <1>6. main'[h] = "read" /\ posted'[h] = posted[h]
    BY <1>t DEF Hello, history
  <1>7. UpAt(h)'
    BY <1>5, <1>6 DEF UpAt, Saying
  <1>8. \A g \in Host \ {h} : up'[g] = up[g]
    BY <1>t, AppendAt DEF Hello
  <1> QED
    BY <1>t, <1>7, <1>8, UpOther DEF Hello, history

LEMMA UpCarried ==
    ASSUME TypeOK, EmptyInv, UpInv, NEW h \in Host, InRead(h) \/ InWrite(h)
    PROVE  UpInv'
  <1>t. /\ up \in [Host -> Messages] /\ inBuf \in [Host -> Messages] /\ stdin \in [Host -> Messages]
        /\ inbound \in [Host -> {"none", "read", "write", "done"}] /\ Lifetimes
    BY DEF TypeOK, PipeType, ProcessType, DaemonType
  <1>1. ~Saying(h)
    BY <1>t DEF InRead, InWrite, Lifetimes, Saying
  <1>2. Upward(h)' = Upward(h)
    <2>1. CASE InRead(h)
      <3>1. inBuf[h] = <<>>
        BY <2>1 DEF InRead, EmptyInv, EmptyAt
      <3>2. Upward(h)' = up[h] \o (stdin[h] \o <<>>)
        BY <2>1, <1>t DEF InRead, Upward, daemons
      <3> QED
        BY <1>t, <3>1, <3>2, RowEmpty DEF Upward
    <2>2. CASE InWrite(h)
      <3>1. inBuf[h] # <<>>
        BY <2>2, <1>t DEF InWrite, Lifetimes
      <3>2. up'[h] = Append(up[h], Head(inBuf[h])) /\ inBuf'[h] = Tail(inBuf[h])
            /\ stdin'[h] = stdin[h]
        BY <2>2, <1>t, AppendAt DEF InWrite, pipes
      <3> QED
        BY <1>t, <3>1, <3>2, ShiftSame, SMTT(30) DEF Upward
    <2> QED
      BY <2>1, <2>2
  <1>3. open'[h] = open[h] /\ main'[h] = main[h] /\ posted'[h] = posted[h]
    BY DEF InRead, InWrite, pipes, history
  <1>4. UpAt(h)'
    BY <1>1, <1>2, <1>3 DEF UpInv, UpAt, Saying
  <1>5. \A g \in Host \ {h} : up'[g] = up[g] /\ inBuf'[g] = inBuf[g] /\ stdin'[g] = stdin[g]
    BY <1>t, AppendAt DEF InRead, InWrite, pipes, daemons
  <1> QED
    BY <1>4, <1>5, UpOther DEF InRead, InWrite, pipes, history

LEMMA UpConnected ==
    ASSUME TypeOK, EmptyInv, UpInv, NEW h \in Host, Connect(h)
    PROVE  UpInv'
  <1>t. /\ stdin \in [Host -> Messages] /\ open \in [Host -> BOOLEAN] /\ main \in [Host -> Label]
        /\ posted \in [Host -> Nat] /\ Lifetimes
    BY DEF TypeOK, PipeType, ProcessType, HistoryType
  <1>1. up[h] = <<>> /\ inBuf[h] = <<>>
    BY <1>t DEF Connect, EmptyInv, EmptyAt, Lifetimes
  <1>2. Upward(h)' = stdin'[h]
    <2>1. stdin'[h] \in Messages
      BY <1>t, FirstType DEF Connect
    <2> QED
      BY <1>1, <2>1, RowEmpty DEF Connect, Upward, daemons
  <1>3. posted'[h] = 1 /\ main'[h] = IF h \in Broken THEN "exited" ELSE "connect"
    BY <1>t DEF Connect
  <1>4. stdin'[h] = IF h \in Broken THEN <<>> ELSE <<Msg("answer", 1)>>
    BY <1>t DEF Connect
  <1>5. Msg("answer", 1) \in Message /\ Msg("answer", 1).at = 1
    BY MessageType DEF Msg, Kind
  <1>6. UpAt(h)'
    BY <1>2, <1>3, <1>4, <1>5, NoneOrOne DEF UpAt, Saying
  <1> QED
    BY <1>t, <1>6, UpOther DEF Connect, daemons

LEMMA UpAnswered ==
    ASSUME TypeOK, UpInv, Answer
    PROVE  UpInv'
  <1>t. /\ up \in [Host -> Messages] /\ inBuf \in [Host -> Messages] /\ stdin \in [Host -> Messages]
        /\ posted \in [Host -> Nat] /\ port \in Host \cup {None}
    BY DEF TypeOK, PipeType, ProcessType, DaemonType, HistoryType, ExtensionType
  <1> USE DEF process, daemons
  <1>1. CASE port = None \/ main[port] = "exited"
    BY <1>1, UpQuiet DEF Answer, Saying
  <1>2. CASE ~(port = None \/ main[port] = "exited")
    <2>p. PICK h \in Host : h = port
      BY <1>t, <1>2
    <2>q. PICK m \in Message : m = Msg("answer", posted[h] + 1)
      BY <1>t, MessageType DEF Kind
    <2>1. open[h] /\ main[h] # "exited"
      BY <1>t, <1>2, <2>p, HostAssumption DEF Answer
    <2>2. stdin' = Append1(stdin, h, m) /\ posted' = [posted EXCEPT ![h] = @ + 1]
          /\ UNCHANGED <<up, inBuf, open, main>>
      BY <1>2, <2>p, <2>q DEF Answer
    <2>3. UpAt(h)
      BY <2>1 DEF UpInv
    <2>4. Upward(h)' = Append(Upward(h), m)
      <3>1. Upward(h)' = up[h] \o (inBuf[h] \o Append(stdin[h], m))
        BY <1>t, <2>1, <2>2, AppendAt, ZenonT(60) DEF Upward
      <3>2. up[h] \in Messages /\ inBuf[h] \in Messages /\ stdin[h] \in Messages
        BY <1>t
      <3>3. up[h] \o (inBuf[h] \o Append(stdin[h], m)) = Append(up[h] \o (inBuf[h] \o stdin[h]), m)
        BY <3>2, AppendLast
      <3> QED
        BY <3>1, <3>3 DEF Upward
    <2>5. Upward(h) \in Messages
      BY <1>t, <2>1, RowType DEF Upward
    <2>6. Consecutive(Upward(h)') /\ EndsWith(Upward(h)', posted'[h])
      BY <1>t, <2>q, <2>1, <2>2, <2>3, <2>4, <2>5, NextConsecutive DEF UpAt, Kind
    <2>7. Saying(h) => StartsWith(stdin'[h], 1)
      <3>1. stdin'[h] = Append(stdin[h], m) /\ stdin[h] \in Messages
        BY <1>t, <2>2, AppendAt
      <3>2. Saying(h) => StartsWith(stdin[h], 1)
        BY <2>1, <2>3 DEF UpAt
      <3> QED
        BY <3>1, <3>2, StillFirst
    <2>8. UpAt(h)'
      BY <2>2, <2>6, <2>7 DEF UpAt, Saying
    <2>9. \A g \in Host \ {h} : stdin'[g] = stdin[g] /\ posted'[g] = posted[g]
      BY <1>t, <2>1, <2>2, AppendAt
    <2> QED
      BY <2>1, <2>2, <2>8, <2>9, UpOther
  <1> QED
    BY <1>1, <1>2

(* The extension closes the port of h, and leaves what is under way. *)
LEMMA UpClosed ==
    ASSUME TypeOK, UpInv, NEW h \in Host, Disconnect(h), UNCHANGED <<up, inBuf, stdin>>
    PROVE  UpInv'
  <1>1. /\ \A g \in Host : open'[g] => open[g] /\ main'[g] = main[g] /\ posted'[g] = posted[g]
    BY DEF TypeOK, PipeType, ProcessType, HistoryType, Disconnect
  <1> QED
    BY <1>1, UpQuiet DEF Saying

LEMMA UpTorn ==
    ASSUME TypeOK, UpInv, Teardown, UNCHANGED <<up, inBuf, stdin>>
    PROVE  UpInv'
  <1>1. CASE port = None
    BY <1>1, UpQuiet DEF Teardown, Saying
  <1>2. CASE port # None
    <2>1. port \in Host
      BY <1>2 DEF TypeOK, ExtensionType
    <2> QED
      BY <1>2, <2>1, UpClosed DEF Teardown
  <1> QED
    BY <1>1, <1>2

LEMMA UpStep ==
    ASSUME TypeOK, EmptyInv, UpInv, [Next]_vars
    PROVE  UpInv'
  <1> USE DEF extension, pipes, process, daemons, history
  <1>t. main \in [Host -> Label]
    BY DEF TypeOK, ProcessType
  <1>1. ASSUME NEW h \in Host, ConnectDaemon(h) PROVE UpInv'
    BY <1>1, <1>t, UpQuiet DEF ConnectDaemon, Saying
  <1>2. ASSUME NEW h \in Host, NoDaemon(h) \/ HelloFails(h) \/ OutKilled(h) \/ Join(h) PROVE UpInv'
    BY <1>2, UpExit DEF NoDaemon, HelloFails, OutKilled, Killed, Join
  <1>3. ASSUME NEW h \in Host, Hello(h) PROVE UpInv'
    BY <1>3, UpHello
  <1>4. ASSUME NEW h \in Host, OutRead(h) \/ OutReadFails(h) \/ OutFraming(h) PROVE UpInv'
    BY <1>4, <1>t, UpQuiet DEF OutRead, OutReadFails, OutFraming, OutEnds, Saying
  <1>5. ASSUME NEW h \in Host, OutWrite(h) PROVE UpInv'
    BY <1>5, <1>t, UpQuiet DEF OutWrite, OutEnds, Saying
  <1>6. ASSUME NEW h \in Host, InRead(h) \/ InWrite(h) PROVE UpInv'
    BY <1>6, UpCarried
  <1>7. ASSUME NEW h \in Host, InEof(h) \/ InWriteFails(h) PROVE UpInv'
    BY <1>7, UpQuiet DEF InEof, InWriteFails, InEnds, Saying
  <1>8. ASSUME NEW h \in Host, Hear(h) PROVE UpInv'
    <2>1. up' = [g \in Host |-> IF g \in {h} THEN <<>> ELSE up[g]]
      BY <1>8 DEF Hear, TypeOK, DaemonType
    <2> QED
      BY <1>8, <2>1, UpTaken DEF Hear
  <1>9. ASSUME DaemonStops PROVE UpInv'
    <2>1. up' = [g \in Host |-> IF g \in Host THEN <<>> ELSE up[g]]
      BY <1>9 DEF DaemonStops
    <2> QED
      BY <1>9, <2>1, UpTaken DEF DaemonStops
  <1>10. ASSUME NEW h \in Host, AskTabs(h) \/ Unserve(h) \/ Receive(h) PROVE UpInv'
    BY <1>10, UpQuiet DEF AskTabs, Unserve, Receive, Saying
  <1>11. ASSUME NEW h \in Host, Connect(h) PROVE UpInv'
    BY <1>11, UpConnected
  <1>12. ASSUME NEW h \in Host, Disconnected(h) PROVE UpInv'
    BY <1>12, UpClosed DEF Disconnected
  <1>13. ASSUME Reconnect \/ Unload \/ SendThrows PROVE UpInv'
    BY <1>13, UpTorn DEF Reconnect, Unload, SendThrows
  <1>14. ASSUME Answer PROVE UpInv'
    BY <1>14, UpAnswered
  <1>15. ASSUME DaemonStarts \/ ConnectThrows \/ ConnectReturns \/ TimerFires \/ Alarm
                \/ UNCHANGED vars
         PROVE  UpInv'
    BY <1>15, UpQuiet DEF DaemonStarts, ConnectThrows, ConnectReturns, TimerFires, Alarm, vars,
       Saying
  <1> QED
    BY <1>1, <1>2, <1>3, <1>4, <1>5, <1>6, <1>7, <1>8, <1>9, <1>10, <1>11, <1>12, <1>13, <1>14,
       <1>15
    DEF Next, Worker, Main, Inbound, Serving

LEMMA UpInit == Init => UpInv
  <1> SUFFICES ASSUME Init, NEW h \in Host PROVE UpAt(h)
    BY DEF UpInv
  <1>1. Upward(h) = <<>> \o (<<>> \o <<>>) /\ ~open[h]
    BY DEF Init, Upward
  <1>2. Upward(h) = <<>>
    BY <1>1, RowEmpty, FirstType
  <1> QED
    BY <1>1, <1>2, NoneOrOne DEF UpAt

-----------------------------------------------------------------------------
(* The way down.                                                            *)

(* A step that leaves the three channels of a host alone, and serves or starts nothing. *)
LEMMA DownQuiet ==
    ASSUME DownInv, UNCHANGED <<stdout, outBuf, down>>,
           \A g \in Host :
              /\ served'[g] /\ link'[g] => served[g] /\ link[g] /\ wrote'[g] = wrote[g]
              /\ main'[g] = "hello" => main[g] = "hello"
    PROVE  DownInv'
  BY DEF DownInv, DownAt, Downward

(* A step that changes the channels of one host. *)
LEMMA DownOther ==
    ASSUME DownInv, NEW h \in Host, DownAt(h)',
           \A g \in Host \ {h} :
              /\ stdout'[g] = stdout[g] /\ outBuf'[g] = outBuf[g] /\ down'[g] = down[g]
              /\ served'[g] = served[g] /\ link'[g] = link[g] /\ wrote'[g] = wrote[g]
              /\ main'[g] = main[g]
    PROVE  DownInv'
  <1>1. ASSUME NEW g \in Host \ {h} PROVE DownAt(g)'
    <2>1. DownAt(g)
      BY DEF DownInv
    <2> QED
      BY <2>1 DEF DownAt, Downward
  <1> QED
    BY <1>1 DEF DownInv

(* A step that leaves of the three channels only the first, with a message of the second at  *)
(* its end or without, and ends the connection.                                              *)
LEMMA DownEnds ==
    ASSUME TypeOK, DownInv, NEW h \in Host,
           stdout'[h] \in Messages, Consecutive(stdout'[h]),
           outBuf'[h] = <<>>, down'[h] = <<>>, link'[h] = FALSE, main'[h] # "hello",
           \A g \in Host \ {h} :
              /\ stdout'[g] = stdout[g] /\ outBuf'[g] = outBuf[g] /\ down'[g] = down[g]
              /\ served'[g] = served[g] /\ link'[g] = link[g] /\ wrote'[g] = wrote[g]
              /\ main'[g] = main[g]
    PROVE  DownInv'
  <1>1. Downward(h)' = stdout'[h] \o (<<>> \o <<>>)
    BY DEF Downward
  <1>2. Downward(h)' = stdout'[h]
    BY <1>1, RowEmpty, FirstType
  <1>3. DownAt(h)'
    BY <1>2 DEF DownAt
  <1> QED
    BY <1>3, DownOther

LEMMA DownParts ==
    ASSUME TypeOK, DownInv, NEW h \in Host
    PROVE  /\ stdout[h] \in Messages /\ outBuf[h] \in Messages /\ down[h] \in Messages
           /\ outBuf[h] \o down[h] \in Messages /\ wrote[h] \in Nat
           /\ DownAt(h) /\ Consecutive(stdout[h]) /\ Consecutive(outBuf[h] \o down[h])
           /\ \A n \in Nat : EndsWith(Downward(h), n) => EndsWith(outBuf[h] \o down[h], n)
  <1>1. /\ stdout[h] \in Messages /\ outBuf[h] \in Messages /\ down[h] \in Messages
        /\ wrote[h] \in Nat
    BY DEF TypeOK, PipeType, ProcessType, DaemonType, HistoryType
  <1>2. outBuf[h] \o down[h] \in Messages
    BY <1>1, RowType
  <1>3. DownAt(h)
    BY DEF DownInv
  <1>4. Consecutive(stdout[h] \o (outBuf[h] \o down[h]))
    BY <1>3 DEF DownAt, Downward
  <1>5. \A n \in Nat : /\ Consecutive(stdout[h]) /\ Consecutive(outBuf[h] \o down[h])
                       /\ EndsWith(Downward(h), n) => EndsWith(outBuf[h] \o down[h], n)
    BY <1>1, <1>2, <1>4, PartsConsecutive DEF Downward
  <1>6. 0 \in Nat
    OBVIOUS
  <1> QED
    BY <1>1, <1>2, <1>3, <1>5, <1>6

(* The process ends, the pump does, or the first message is about the failure. *)
LEMMA DownOver ==
    ASSUME TypeOK, EmptyInv, DownInv, NEW h \in Host,
           \/ OutKilled(h) \/ Join(h) \/ NoDaemon(h) \/ HelloFails(h)
           \/ OutReadFails(h) \/ OutFraming(h)
    PROVE  DownInv'
  <1>t. /\ stdout \in [Host -> Messages] /\ outBuf \in [Host -> Messages]
        /\ down \in [Host -> Messages] /\ link \in [Host -> BOOLEAN] /\ main \in [Host -> Label]
    BY DEF TypeOK, PipeType, ProcessType, DaemonType
  <1> USE DEF pipes, history
  <1>1. /\ outBuf'[h] = <<>> /\ down'[h] = <<>> /\ link'[h] = FALSE /\ main'[h] # "hello"
        /\ \A g \in Host \ {h} : /\ outBuf'[g] = outBuf[g] /\ down'[g] = down[g]
                                 /\ link'[g] = link[g] /\ main'[g] = main[g]
        /\ UNCHANGED <<served, wrote>>
    BY <1>t DEF OutKilled, Killed, Join, NoDaemon, HelloFails, Exit, OutReadFails, OutFraming, OutEnds
  <1>2. /\ stdout'[h] \in Messages /\ Consecutive(stdout'[h])
        /\ \A g \in Host \ {h} : stdout'[g] = stdout[g]
    <2>1. CASE stdout' = stdout
      BY <2>1, DownParts
    <2>2. CASE \E k \in Kind : Saying(h) /\ stdout' = Append1(stdout, h, Msg(k, 0))
      <3>1. PICK k \in Kind : Saying(h) /\ stdout' = Append1(stdout, h, Msg(k, 0))
        BY <2>2
      <3>2. PICK m \in Message : m = Msg(k, 0)
        BY MessageType
      <3>3. stdout'[h] = Append(stdout[h], m) /\ stdout[h] = <<>>
        BY <1>t, <3>1, <3>2, AppendAt DEF EmptyInv, EmptyAt
      <3>4. stdout'[h] = <<m>>
        BY <3>3
      <3>5. stdout'[h] \in Messages
        BY <3>4 DEF Messages
      <3>6. Consecutive(stdout'[h])
        BY <3>4 DEF Consecutive
      <3>7. \A g \in Host \ {h} : stdout'[g] = stdout[g]
        BY <1>t, <3>1, AppendAt
      <3> QED
        BY <3>5, <3>6, <3>7
    <2> QED
      BY <2>1, <2>2 DEF OutKilled, Killed, Join, NoDaemon, HelloFails, OutReadFails, OutFraming,
         Saying, Kind
  <1> QED
    BY <1>1, <1>2, DownEnds

LEMMA DownWritten ==
    ASSUME TypeOK, DownInv, NEW h \in Host, OutWrite(h)
    PROVE  DownInv'
  <1>t. /\ stdout \in [Host -> Messages] /\ outBuf \in [Host -> Messages]
        /\ down \in [Host -> Messages] /\ link \in [Host -> BOOLEAN] /\ main \in [Host -> Label]
        /\ Lifetimes
    BY DEF TypeOK, PipeType, ProcessType, DaemonType
  <1> USE DEF daemons, history
  <1>1. outBuf[h] \in Messages /\ outBuf[h] # <<>> /\ stdout[h] \in Messages /\ down[h] \in Messages
    BY <1>t DEF OutWrite, Lifetimes
  <1>2. Head(outBuf[h]) \in Message /\ Tail(outBuf[h]) \in Messages
    BY <1>1, TailType
  <1>3. /\ stdout'[h] = Append(stdout[h], Head(outBuf[h]))
        /\ \A g \in Host \ {h} : stdout'[g] = stdout[g]
    BY <1>t, AppendAt DEF OutWrite
  <1>4. stdout'[h] \in Messages
    BY <1>1, <1>2, <1>3 DEF Messages
  <1>5. stdout'[h] \o (Tail(outBuf[h]) \o down[h]) = Downward(h)
    <2>1. Append(stdout[h], Head(outBuf[h])) \o (Tail(outBuf[h]) \o down[h])
             = stdout[h] \o (outBuf[h] \o down[h])
      BY <1>1, ShiftSame
    <2> QED
      BY <1>3, <2>1 DEF Downward
  <1>6. CASE Len(outBuf[h]) = 1 /\ ~running[h]
    <2>1. Consecutive(stdout'[h])
      <3>1. Tail(outBuf[h]) \o down[h] \in Messages
        BY <1>1, <1>2, RowType
      <3>2. Consecutive(stdout'[h] \o (Tail(outBuf[h]) \o down[h]))
        BY <1>5 DEF DownInv, DownAt
      <3>3. 0 \in Nat
        OBVIOUS
      <3> QED
        BY <1>4, <3>1, <3>2, <3>3, PartsConsecutive
    <2>2. /\ outBuf'[h] = <<>> /\ down'[h] = <<>> /\ link'[h] = FALSE /\ main'[h] # "hello"
          /\ \A g \in Host \ {h} : /\ outBuf'[g] = outBuf[g] /\ down'[g] = down[g]
                                   /\ link'[g] = link[g] /\ main'[g] = main[g]
          /\ UNCHANGED <<served, wrote>>
      BY <1>t, <1>6 DEF OutWrite, OutEnds
    <2> QED
      BY <1>3, <1>4, <2>1, <2>2, DownEnds
  <1>7. CASE ~(Len(outBuf[h]) = 1 /\ ~running[h])
    <2>1. /\ outBuf' = [outBuf EXCEPT ![h] = Tail(@)] /\ UNCHANGED <<down, served, link, wrote>>
          /\ main' = [main EXCEPT ![h] = IF Len(outBuf[h]) = 1 THEN "read" ELSE @]
          /\ main[h] = "write"
      BY <1>7 DEF OutWrite
    <2>2. Downward(h)' = Downward(h)
      BY <1>t, <1>5, <2>1 DEF Downward
    <2>3. main'[h] # "hello"
      BY <1>t, <2>1
    <2>4. DownAt(h)'
      BY <2>1, <2>2, <2>3 DEF DownInv, DownAt
    <2>5. \A g \in Host \ {h} : outBuf'[g] = outBuf[g] /\ main'[g] = main[g]
      BY <1>t, <2>1
    <2> QED
      BY <1>3, <2>1, <2>4, <2>5, DownOther
  <1> QED
    BY <1>6, <1>7

LEMMA DownCarried ==
    ASSUME TypeOK, EmptyInv, DownInv, NEW h \in Host, OutRead(h)
    PROVE  DownInv'
  <1>t. /\ outBuf \in [Host -> Messages] /\ down \in [Host -> Messages] /\ main \in [Host -> Label]
    BY DEF TypeOK, ProcessType, DaemonType
  <1>1. outBuf[h] = <<>>
    BY DEF OutRead, EmptyInv, EmptyAt
  <1>2. Downward(h)' = stdout[h] \o (down[h] \o <<>>)
    BY <1>t DEF OutRead, Downward, pipes
  <1>3. Downward(h)' = Downward(h)
    BY <1>1, <1>2, <1>t, RowEmpty DEF Downward
  <1>4. main'[h] # "hello"
    BY <1>t DEF OutRead
  <1>5. DownAt(h)'
    BY <1>3, <1>4 DEF OutRead, DownInv, DownAt, history
  <1> QED
    BY <1>t, <1>5, DownOther DEF OutRead, pipes, history

LEMMA DownConnected ==
    ASSUME TypeOK, EmptyInv, DownInv, NEW h \in Host, ConnectDaemon(h)
    PROVE  DownInv'
  <1>t. /\ down \in [Host -> Messages] /\ main \in [Host -> Label] /\ wrote \in [Host -> Nat]
        /\ link \in [Host -> BOOLEAN] /\ served \in [Host -> BOOLEAN]
    BY DEF TypeOK, ProcessType, DaemonType, HistoryType
  <1>1. stdout[h] = <<>> /\ outBuf[h] = <<>>
    BY DEF ConnectDaemon, EmptyInv, EmptyAt, Saying
  <1>2. PICK m \in Message : m = Msg("ask", 1)
    BY MessageType DEF Kind
  <1>3. down'[h] = <<m>> /\ wrote'[h] = 1 /\ m.at = 1
    BY <1>t, <1>2 DEF ConnectDaemon, Msg
  <1>4. <<m>> \in Messages
    BY DEF Messages
  <1>5. Downward(h)' = <<>> \o (<<>> \o <<m>>)
    BY <1>1, <1>3 DEF ConnectDaemon, Downward, pipes
  <1>6. Downward(h)' = <<m>>
    BY <1>4, <1>5, RowEmpty
  <1>7. DownAt(h)'
    BY <1>3, <1>6, NoneOrOne DEF DownAt
  <1> QED
    BY <1>t, <1>7, DownOther DEF ConnectDaemon, pipes

LEMMA DownHello ==
    ASSUME TypeOK, EmptyInv, DownInv, NEW h \in Host, Hello(h)
    PROVE  DownInv'
  <1>t. stdout \in [Host -> Messages] /\ main \in [Host -> Label]
    BY DEF TypeOK, PipeType, ProcessType
  <1>p. down[h] \in Messages /\ wrote[h] \in Nat /\ DownAt(h)
    BY DownParts
  <1>1. stdout[h] = <<>> /\ outBuf[h] = <<>>
    BY DEF Hello, EmptyInv, EmptyAt, Saying
  <1>2. stdout'[h] = <<Msg("ask", 0)>>
    <2>1. stdout'[h] = Append(stdout[h], Msg("ask", 0))
      BY <1>t, AppendAt DEF Hello
    <2> QED
      BY <1>1, <2>1
  <1>3. Downward(h) = down[h] /\ Downward(h)' = <<Msg("ask", 0)>> \o down[h]
    BY <1>p, <1>1, <1>2, RowEmpty DEF Hello, Downward
  <1>4. Consecutive(down[h]) /\ StartsWith(down[h], 1)
        /\ (served[h] /\ link[h] => EndsWith(down[h], wrote[h]))
    BY <1>p, <1>3 DEF Hello, DownAt
  <1>5. Consecutive(Downward(h)') /\ (served[h] /\ link[h] => EndsWith(Downward(h)', wrote[h]))
    BY <1>p, <1>3, <1>4, HelloConsecutive DEF Kind
  <1>6. main'[h] # "hello"
    BY <1>t DEF Hello
  <1>7. DownAt(h)'
    BY <1>5, <1>6 DEF Hello, DownAt, history
  <1>8. \A g \in Host \ {h} : stdout'[g] = stdout[g]
    BY <1>t, AppendAt DEF Hello
  <1> QED
    BY <1>t, <1>7, <1>8, DownOther DEF Hello, history

LEMMA DownAsked ==
    ASSUME TypeOK, DownInv, NEW h \in Host, AskTabs(h)
    PROVE  DownInv'
  <1>t. down \in [Host -> Messages] /\ wrote \in [Host -> Nat]
    BY DEF TypeOK, DaemonType, HistoryType
  <1> USE DEF pipes, process
  <1>p. stdout[h] \in Messages /\ outBuf[h] \in Messages /\ down[h] \in Messages
        /\ outBuf[h] \o down[h] \in Messages /\ wrote[h] \in Nat /\ DownAt(h)
    BY DownParts
  <1>1. PICK m \in Message : m = Msg("ask", wrote[h] + 1)
    BY <1>p, MessageType DEF Kind
  <1>2. down' = Append1(down, h, m) /\ wrote' = [wrote EXCEPT ![h] = @ + 1]
        /\ UNCHANGED <<stdout, outBuf, served, link, main>> /\ served[h] /\ link[h]
    BY <1>1 DEF AskTabs
  <1>3. Downward(h)' = stdout[h] \o (outBuf[h] \o Append(down[h], m))
    BY <1>t, <1>2, AppendAt DEF Downward
  <1>4. stdout[h] \o (outBuf[h] \o Append(down[h], m)) = Append(stdout[h] \o (outBuf[h] \o down[h]), m)
    BY <1>p, AppendLast, ZenonT(60)
  <1>5. Downward(h)' = Append(Downward(h), m) /\ Downward(h) \in Messages
    BY <1>p, <1>3, <1>4, RowType DEF Downward
  <1>6. Consecutive(Downward(h)') /\ EndsWith(Downward(h)', wrote'[h])
    BY <1>t, <1>p, <1>1, <1>2, <1>5, NextConsecutive DEF DownAt, Kind
  <1>7. main[h] = "hello" => StartsWith(down'[h], 1)
    <2>1. down'[h] = Append(down[h], m)
      BY <1>t, <1>2, AppendAt
    <2> QED
      BY <1>p, <2>1, StillFirst DEF DownAt
  <1>8. DownAt(h)'
    BY <1>2, <1>6, <1>7 DEF DownAt
  <1>9. \A g \in Host \ {h} : down'[g] = down[g] /\ wrote'[g] = wrote[g]
    BY <1>t, <1>2, AppendAt
  <1> QED
    BY <1>2, <1>8, <1>9, DownOther

(* The extension has read the first message. *)
LEMMA DownReceived ==
    ASSUME TypeOK, DownInv, NEW h \in Host, Receive(h)
    PROVE  DownInv'
  <1>t. stdout \in [Host -> Messages]
    BY DEF TypeOK, PipeType
  <1> USE DEF process, daemons, history
  <1>p. /\ stdout[h] \in Messages /\ outBuf[h] \o down[h] \in Messages
        /\ wrote[h] \in Nat /\ DownAt(h)
    BY DownParts
  <1>1. PICK b \in Messages : b = outBuf[h] \o down[h]
    BY <1>p
  <1>2. PICK a \in Messages, t \in Messages : stdout[h] = a \o t /\ t = Tail(stdout[h])
    <2>1. <<Head(stdout[h])>> \in Messages /\ Tail(stdout[h]) \in Messages
      BY <1>p, TailType DEF Receive, Messages
    <2>2. stdout[h] = <<Head(stdout[h])>> \o Tail(stdout[h])
      BY <1>p, SMTT(30) DEF Receive, Messages
    <2> QED
      BY <2>1, <2>2
  <1>3. Downward(h)' = t \o b
    BY <1>t, <1>1, <1>2 DEF Receive, Downward
  <1>4. Downward(h) = a \o (t \o b)
    <2>1. Downward(h) = (a \o t) \o b
      BY <1>1, <1>2 DEF Downward
    <2>2. a \o (t \o b) = (a \o t) \o b
      BY Associative, Zenon
    <2> QED
      BY <2>1, <2>2
  <1>5. t \o b \in Messages
    BY RowType
  <1>6. /\ Consecutive(t \o b)
        /\ EndsWith(Downward(h), wrote[h]) => EndsWith(t \o b, wrote[h])
    BY <1>p, <1>4, <1>5, PartsConsecutive DEF DownAt
  <1>7. DownAt(h)'
    BY <1>p, <1>3, <1>6 DEF Receive, DownAt
  <1>8. \A g \in Host \ {h} : stdout'[g] = stdout[g]
    BY <1>t DEF Receive
  <1> QED
    BY <1>7, <1>8, DownOther DEF Receive

(* The extension closes the port of h, and has no use for what it has not read. *)
LEMMA DownClosed ==
    ASSUME TypeOK, DownInv, NEW h \in Host, Disconnect(h),
           UNCHANGED <<outBuf, down, served, link, wrote>>
    PROVE  DownInv'
  <1>t. stdout \in [Host -> Messages] /\ main \in [Host -> Label]
    BY DEF TypeOK, PipeType, ProcessType
  <1>p. outBuf[h] \o down[h] \in Messages /\ wrote[h] \in Nat /\ DownAt(h)
        /\ Consecutive(outBuf[h] \o down[h])
        /\ \A n \in Nat : EndsWith(Downward(h), n) => EndsWith(outBuf[h] \o down[h], n)
    BY DownParts
  <1>1. Downward(h)' = outBuf[h] \o down[h]
    BY <1>t, <1>p, RowEmpty DEF Disconnect, Downward
  <1>2. main'[h] = "hello" => main[h] = "hello"
    BY <1>t DEF Disconnect
  <1>3. DownAt(h)'
    BY <1>p, <1>1, <1>2 DEF DownAt
  <1>4. \A g \in Host \ {h} : stdout'[g] = stdout[g] /\ main'[g] = main[g]
    BY <1>t DEF Disconnect
  <1> QED
    BY <1>3, <1>4, DownOther

LEMMA DownTorn ==
    ASSUME TypeOK, DownInv, Teardown, UNCHANGED <<outBuf, down, served, link, wrote>>
    PROVE  DownInv'
  <1>1. CASE port = None
    BY <1>1, DownQuiet DEF Teardown
  <1>2. CASE port # None
    <2>1. port \in Host
      BY <1>2 DEF TypeOK, ExtensionType
    <2> QED
      BY <1>2, <2>1, DownClosed DEF Teardown
  <1> QED
    BY <1>1, <1>2

LEMMA DownStep ==
    ASSUME TypeOK, EmptyInv, DownInv, [Next]_vars
    PROVE  DownInv'
  <1> USE DEF extension, pipes, process, daemons, history
  <1>t. main \in [Host -> Label] /\ served \in [Host -> BOOLEAN]
    BY DEF TypeOK, ProcessType, DaemonType
  <1>1. ASSUME NEW h \in Host, ConnectDaemon(h) PROVE DownInv'
    BY <1>1, DownConnected
  <1>2. ASSUME NEW h \in Host, NoDaemon(h) \/ HelloFails(h) \/ OutKilled(h) \/ Join(h)
                               \/ OutReadFails(h) \/ OutFraming(h)
        PROVE  DownInv'
    BY <1>2, DownOver
  <1>3. ASSUME NEW h \in Host, Hello(h) PROVE DownInv'
    BY <1>3, DownHello
  <1>4. ASSUME NEW h \in Host, OutRead(h) PROVE DownInv'
    BY <1>4, DownCarried
  <1>5. ASSUME NEW h \in Host, OutWrite(h) PROVE DownInv'
    BY <1>5, DownWritten
  <1>6. ASSUME NEW h \in Host, InRead(h) \/ InWrite(h) \/ InEof(h) \/ InWriteFails(h) PROVE DownInv'
    BY <1>6, DownQuiet DEF InRead, InWrite, InEof, InWriteFails, InEnds
  <1>7. ASSUME NEW h \in Host, Hear(h) PROVE DownInv'
    BY <1>7, DownQuiet DEF Hear
  <1>8. ASSUME NEW h \in Host, Unserve(h) PROVE DownInv'
    BY <1>8, <1>t, DownQuiet DEF Unserve, TypeOK, HistoryType
  <1>9. ASSUME DaemonStops PROVE DownInv'
    BY <1>9, DownQuiet DEF DaemonStops
  <1>10. ASSUME NEW h \in Host, AskTabs(h) PROVE DownInv'
    BY <1>10, DownAsked
  <1>11. ASSUME NEW h \in Host, Receive(h) PROVE DownInv'
    BY <1>11, DownReceived
  <1>12. ASSUME NEW h \in Host, Connect(h) PROVE DownInv'
    BY <1>12, <1>t, DownQuiet DEF Connect
  <1>13. ASSUME NEW h \in Host, Disconnected(h) PROVE DownInv'
    BY <1>13, DownClosed DEF Disconnected
  <1>14. ASSUME Reconnect \/ Unload \/ SendThrows PROVE DownInv'
    BY <1>14, DownTorn DEF Reconnect, Unload, SendThrows
  <1>15. ASSUME DaemonStarts \/ ConnectThrows \/ ConnectReturns \/ TimerFires \/ Alarm
                \/ Answer \/ UNCHANGED vars
         PROVE  DownInv'
    BY <1>15, DownQuiet DEF DaemonStarts, ConnectThrows, ConnectReturns, TimerFires, Alarm,
       Answer, vars
  <1> QED
    BY <1>1, <1>2, <1>3, <1>4, <1>5, <1>6, <1>7, <1>8, <1>9, <1>10, <1>11, <1>12, <1>13, <1>14,
       <1>15
    DEF Next, Worker, Main, Inbound, Serving

LEMMA DownInit == Init => DownInv
  <1> SUFFICES ASSUME Init, NEW h \in Host PROVE DownAt(h)
    BY DEF DownInv
  <1>1. Downward(h) = <<>> \o (<<>> \o <<>>) /\ ~served[h] /\ main[h] # "hello"
    BY DEF Init, Downward
  <1>2. Downward(h) = <<>>
    BY <1>1, RowEmpty, FirstType
  <1> QED
    BY <1>1, <1>2, NoneOrOne DEF DownAt

-----------------------------------------------------------------------------
LEMMA InOrder == TypeOK /\ UpInv /\ DownInv => RelayInOrder
  <1> SUFFICES ASSUME TypeOK, UpInv, DownInv, NEW h \in Host
               PROVE  /\ Consecutive(up[h] \o inBuf[h] \o stdin[h])
                      /\ Consecutive(stdout[h] \o outBuf[h] \o down[h])
    BY DEF RelayInOrder
  <1>1. up[h] \in Messages /\ inBuf[h] \in Messages /\ stdin[h] \in Messages
    BY DEF TypeOK, PipeType, ProcessType, DaemonType
  <1>2. stdout[h] \in Messages /\ outBuf[h] \in Messages /\ down[h] \in Messages
    BY DEF TypeOK, PipeType, ProcessType, DaemonType
  <1>3. /\ Upward(h) = up[h] \o inBuf[h] \o stdin[h]
        /\ Downward(h) = stdout[h] \o outBuf[h] \o down[h]
    <2>1. up[h] \o (inBuf[h] \o stdin[h]) = up[h] \o inBuf[h] \o stdin[h]
      BY <1>1, Associative, Zenon
    <2>2. stdout[h] \o (outBuf[h] \o down[h]) = stdout[h] \o outBuf[h] \o down[h]
      BY <1>2, Associative, Zenon
    <2> QED
      BY <2>1, <2>2 DEF Upward, Downward
  <1> QED
    BY <1>3 DEF UpInv, UpAt, DownInv, DownAt

(* What pump() carries between the browser and the daemon, on two threads and in whatever     *)
(* chunks the reads return, arrives in the order it was sent and without a gap, for any       *)
(* number of messages: a connection may end early, but it never skips a message nor brings    *)
(* one of the process before.                                                                 *)
THEOREM RelayKeepsOrder == Spec => []RelayInOrder
  <1>1. Init => EmptyInv /\ UpInv /\ DownInv
    BY EmptyInit, UpInit, DownInit
  <1>2. TypeOK /\ EmptyInv /\ UpInv /\ DownInv /\ [Next]_vars => EmptyInv' /\ UpInv' /\ DownInv'
    BY EmptyStep, UpStep, DownStep
  <1> QED
    BY <1>1, <1>2, InOrder, HostTypeCorrect, PTL DEF Spec
=============================================================================
