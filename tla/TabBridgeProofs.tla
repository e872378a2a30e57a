-------------------------- MODULE TabBridgeProofs --------------------------
(***************************************************************************)
(* Proofs about TabBridge, for any number of browsers, daemon threads and  *)
(* requests.                                                               *)
(***************************************************************************)
EXTENDS TabBridge, FiniteSetTheorems, SequenceTheorems, TLAPS

\* What Append and Tail do to the elements of a queue.
LEMMA AppendElements ==
    ASSUME NEW S, NEW s \in Seq(S), NEW e \in S
    PROVE  /\ Append(s, e) \in Seq(S)
           /\ Len(Append(s, e)) = Len(s) + 1
           /\ \A k \in 1..Len(s) : Append(s, e)[k] = s[k]
           /\ Append(s, e)[Len(s) + 1] = e
  OBVIOUS

LEMMA TailElements ==
    ASSUME NEW S, NEW s \in Seq(S), s # <<>>
    PROVE  /\ Head(s) \in S /\ Head(s) = s[1] /\ Len(s) \in Nat /\ Len(s) > 0
           /\ Tail(s) \in Seq(S)
           /\ Len(Tail(s)) = Len(s) - 1
           /\ \A k \in 1..Len(Tail(s)) : Tail(s)[k] = s[k + 1]
  OBVIOUS

\* A queue of ids stays one when more ids are handed out.
LEMMA SeqMonotone ==
    ASSUME NEW S, NEW T, S \subseteq T, NEW s \in Seq(S)
    PROVE  s \in Seq(T)
  OBVIOUS

-----------------------------------------------------------------------------
(* Type correctness.                                                        *)

\* The callers about to queue a request: one more, one less, or the same.
LEMMA EnqueuingGrows ==
    ASSUME TypeOK, NEW c \in Caller, pc[c] # "enqueue", pc' = [pc EXCEPT ![c] = "enqueue"]
    PROVE  Cardinality(Enqueuing') = Cardinality(Enqueuing) + 1
           /\ Cardinality(Enqueuing) \in Nat
  <1>1. Enqueuing' = Enqueuing \cup {c} /\ c \notin Enqueuing
    BY DEF Enqueuing, TypeOK, CallerType
  <1>2. IsFiniteSet(Enqueuing)
    BY BridgeAssumption, FS_Subset DEF Enqueuing
  <1> QED
    BY <1>1, <1>2, FS_AddElement, FS_CardinalityType

LEMMA EnqueuingShrinks ==
    ASSUME TypeOK, NEW c \in Caller, pc[c] = "enqueue", pc' = [pc EXCEPT ![c] = "result"]
    PROVE  Cardinality(Enqueuing') = Cardinality(Enqueuing) - 1
           /\ Cardinality(Enqueuing) \in Nat \ {0}
  <1>1. Enqueuing' = Enqueuing \ {c} /\ c \in Enqueuing
    BY DEF Enqueuing, TypeOK, CallerType
  <1>2. IsFiniteSet(Enqueuing)
    BY BridgeAssumption, FS_Subset DEF Enqueuing
  <1>3. Cardinality(Enqueuing) \in Nat /\ Cardinality(Enqueuing) # 0
    BY <1>1, <1>2, FS_CardinalityType, FS_EmptySet
  <1> QED
    BY <1>1, <1>2, <1>3, FS_RemoveElement

LEMMA EnqueuingStays ==
    ASSUME TypeOK, NEW c \in Caller, NEW l \in {"idle", "take", "tabs"},
           pc[c] # "enqueue", pc' = [pc EXCEPT ![c] = l]
    PROVE  Enqueuing' = Enqueuing
  BY DEF Enqueuing, TypeOK, CallerType

\* Every step keeps the types, given the bound on requests.
LEMMA TypeStep ==
    ASSUME TypeOK, BoundInv, [Next]_vars
    PROVE  TypeOK' /\ BoundInv'
  <1> USE BridgeAssumption DEF Goto, Loop, inbox, ends, callers, history
  <1>t. InboxType /\ HostType /\ CallerType /\ HistoryType
    BY DEF TypeOK
  <1>0. ASSUME UNCHANGED <<pc, counter>> PROVE BoundInv'
    BY <1>0 DEF BoundInv, Enqueuing
  <1>i. ASSUME UNCHANGED inbox PROVE InboxType'
    BY <1>t, <1>i DEF InboxType
  <1>h. ASSUME UNCHANGED <<connections, loop, ends, counter>> PROVE HostType'
    BY <1>t, <1>h DEF HostType
  <1>c. ASSUME UNCHANGED <<callers, counter>> PROVE CallerType'
    BY <1>t, <1>c DEF CallerType
  <1>y. ASSUME UNCHANGED history PROVE HistoryType'
    BY <1>t, <1>y DEF HistoryType
  <1>1. ASSUME NEW c \in Caller, StartCapture(c) PROVE TypeOK' /\ BoundInv'
    <2>1. HistoryType' /\ CallerType'
      BY <1>t, <1>1 DEF StartCapture, HistoryType, CallerType
    <2>2. TypeOK'
      BY <1>1, <1>i, <1>h, <2>1 DEF StartCapture, TypeOK
    <2> QED
      BY <1>1, <2>2, EnqueuingStays DEF StartCapture, BoundInv
  <1>2. ASSUME NEW c \in Caller, TakeTabs(c) PROVE TypeOK' /\ BoundInv'
    <2>1. InboxType' /\ CallerType'
      BY <1>t, <1>2 DEF TakeTabs, InboxType, CallerType
    <2>2. TypeOK'
      BY <1>2, <1>h, <1>y, <2>1 DEF TakeTabs, TypeOK
    <2> QED
      BY <1>2, <2>2, EnqueuingStays DEF TakeTabs, BoundInv
  <1>3. ASSUME NEW c \in Caller, TakeFresh(c) \/ TakeTimeout(c) PROVE TypeOK' /\ BoundInv'
    <2>1. InboxType'
      BY <1>t, <1>3 DEF TakeFresh, TakeTimeout, InboxType
    <2>2. CallerType'
      BY <1>t, <1>3 DEF TakeFresh, TakeTimeout, CallerType
    <2>3. HistoryType'
      BY <1>t, <1>3 DEF TakeFresh, TakeTimeout, HistoryType
    <2>4. TypeOK'
      BY <1>3, <1>h, <2>1, <2>2, <2>3 DEF TakeFresh, TakeTimeout, TypeOK
    <2> QED
      BY <1>3, <2>4, EnqueuingStays DEF TakeFresh, TakeTimeout, BoundInv
  <1>4. ASSUME NEW c \in Caller, StartRestore(c) PROVE TypeOK' /\ BoundInv'
    <2>1. CallerType'
      BY <1>t, <1>4 DEF StartRestore, CallerType
    <2>2. TypeOK'
      BY <1>4, <1>i, <1>h, <1>y, <2>1 DEF StartRestore, TypeOK
    <2>3. /\ Cardinality(Enqueuing') = Cardinality(Enqueuing) + 1
          /\ Cardinality(Enqueuing) \in Nat
      BY <1>4, EnqueuingGrows DEF StartRestore
    <2>4. counter \in Nat /\ counter' = counter
          /\ counter + Cardinality(Enqueuing) < MaxRestores
      BY <1>t, <1>4 DEF StartRestore, InboxType
    <2>5. BoundInv'
      BY <2>3, <2>4 DEF BoundInv
    <2> QED
      BY <2>2, <2>5
  <1>5. ASSUME NEW c \in Caller, EnqueueRestore(c) PROVE TypeOK' /\ BoundInv'
    <2>1. /\ Cardinality(Enqueuing') = Cardinality(Enqueuing) - 1
          /\ Cardinality(Enqueuing) \in Nat \ {0}
      BY <1>5, EnqueuingShrinks DEF EnqueueRestore
    <2>2. counter \in Nat /\ counter' = counter + 1 /\ counter' \in 1..MaxRestores
      BY <1>t, <1>5, <2>1 DEF EnqueueRestore, BoundInv, InboxType
    <2>3. restores' \in Seq(1..counter')
      <3>1. restores \in Seq(1..counter')
        BY <1>t, <2>2, SeqMonotone DEF InboxType
      <3> QED
        BY <1>5, <2>2, <3>1, AppendElements DEF EnqueueRestore
    <2>4. InboxType'
      BY <1>t, <1>5, <2>2, <2>3 DEF EnqueueRestore, InboxType
    <2>5. HostType'
      BY <1>t, <1>5, <2>2 DEF EnqueueRestore, HostType
    <2>6. CallerType'
      BY <1>t, <1>5, <2>2 DEF EnqueueRestore, CallerType
    <2>7. TypeOK'
      BY <1>5, <1>y, <2>4, <2>5, <2>6 DEF EnqueueRestore, TypeOK
    <2> QED
      BY <2>1, <2>2, <2>7 DEF BoundInv
  <1>6. ASSUME NEW c \in Caller, RestoreResult(c) \/ RestoreTimeout(c)
        PROVE  TypeOK' /\ BoundInv'
    <2>0. pc[c] = "result"
      BY <1>6 DEF RestoreResult, RestoreTimeout
    <2>1. ticket[c] \in Request
      BY <1>t, <2>0 DEF InboxType, CallerType, Request
    <2>2. results[ticket[c]] \in (0..MaxTabs) \cup {None}
      BY <1>t, <2>1 DEF InboxType
    <2>3. InboxType'
      BY <1>t, <1>6, <2>1 DEF RestoreResult, RestoreTimeout, InboxType
    <2>4. UNCHANGED counter /\ answer' \in [Caller -> 0..MaxTabs]
      BY <1>t, <1>6, <2>2 DEF RestoreResult, RestoreTimeout, CallerType
    <2>c. /\ pc' = [pc EXCEPT ![c] = "idle"] /\ ticket' = [ticket EXCEPT ![c] = 0]
          /\ UNCHANGED <<since, counter>>
      BY <1>6 DEF RestoreResult, RestoreTimeout
    <2>d. counter \in Nat
      BY <1>t DEF InboxType
    <2>5. CallerType'
      BY <1>t, <2>4, <2>c, <2>d DEF CallerType
    <2>6. TypeOK'
      BY <1>6, <1>h, <1>y, <2>3, <2>5 DEF RestoreResult, RestoreTimeout, TypeOK
    <2> QED
      BY <1>6, <2>6, EnqueuingStays DEF RestoreResult, RestoreTimeout, BoundInv
  <1>7. ASSUME NEW h \in Host, Accept(h) PROVE TypeOK' /\ BoundInv'
    <2>1. <<[type |-> "hello"], [type |-> "hello"]>> \in Seq(Message)
      <3>1. [type |-> "hello"] \in Message
        BY DEF Message
      <3> QED
        BY <3>1
    <2>2. HostType'
      BY <1>t, <1>7, <2>1 DEF Accept, HostType
    <2> QED
      BY <1>0, <1>i, <1>c, <1>y, <1>7, <2>2 DEF Accept, TypeOK
  <1>8. ASSUME NEW h \in Host, ReadSome(h) \/ FramesDone(h) PROVE TypeOK' /\ BoundInv'
    <2>1. HostType'
      BY <1>t, <1>8 DEF ReadSome, FramesDone, HostType
    <2> QED
      BY <1>0, <1>i, <1>c, <1>y, <1>8, <2>1 DEF ReadSome, FramesDone, TypeOK
  <1>9. ASSUME NEW h \in Host, HandleFrame(h) PROVE TypeOK' /\ BoundInv'
    <2> DEFINE m == Head(replies[h])
    <2>1. replies[h] \in Seq(Message) /\ replies[h] # <<>>
      BY <1>t, <1>9 DEF HandleFrame, HostType
    <2>2. m \in Message /\ Tail(replies[h]) \in Seq(Message)
      BY <2>1, TailElements
    <2>3. /\ replies' = [replies EXCEPT ![h] = Tail(replies[h])]
          /\ UNCHANGED <<loop, port, asked, work, callers>>
          /\ \/ m.type = "hello" /\ RegisterHostConnection(h)
             \/ m.type = "tabs" /\ PublishTabs(h, m.windows)
             \/ m.type = "ack" /\ AcknowledgeRestore(m.id, m.count)
      BY <1>9 DEF HandleFrame
    <2> HIDE DEF m
    <2>4. UNCHANGED counter /\ connections' \subseteq Host
      BY <1>t, <2>3 DEF RegisterHostConnection, PublishTabs, AcknowledgeRestore, HostType
    <2>5. HostType'
      BY <1>t, <2>2, <2>3, <2>4 DEF HostType
    <2>6. CallerType' /\ BoundInv'
      BY <1>c, <1>0, <2>3, <2>4
    <2>7. InboxType' /\ HistoryType'
      <3>1. CASE RegisterHostConnection(h)
        BY <1>i, <1>y, <3>1 DEF RegisterHostConnection
      <3>2. CASE m.type = "tabs" /\ PublishTabs(h, m.windows)
        <4>1. m.windows \subseteq Window
          BY <2>2, <3>2 DEF Message
        <4>2. tabs' \subseteq Window
          BY <1>t, <3>2, <4>1 DEF PublishTabs, InboxType
        <4> QED
          BY <1>t, <3>2, <4>2 DEF PublishTabs, InboxType, HistoryType
      <3>3. CASE m.type = "ack" /\ AcknowledgeRestore(m.id, m.count)
        <4>1. m.id \in Request /\ m.count \in 0..MaxTabs
          BY <2>2, <3>3 DEF Message
        <4> QED
          BY <1>t, <1>y, <3>3, <4>1 DEF AcknowledgeRestore, InboxType
      <3> QED
        BY <2>3, <3>1, <3>2, <3>3
    <2> QED
      BY <2>5, <2>6, <2>7 DEF TypeOK
  <1>10. ASSUME NEW h \in Host, PumpCollection(h) PROVE TypeOK' /\ BoundInv'
    <2>1. InboxType'
      BY <1>t, <1>10 DEF PumpCollection, InboxType
    <2>a. work' = work /\ (asked' = asked \/ asked' = [asked EXCEPT ![h] = asked[h] + 1])
      BY <1>10 DEF PumpCollection, Send
    <2>2. asked' \in [Host -> Nat] /\ work' = work
      BY <1>t, <2>a DEF HostType
    <2>3. loop' \in [Host -> {"none", "read", "frames", "collect", "restore", "closing",
                              "closed"}]
      BY <1>t, <1>10 DEF PumpCollection, Send, HostType
    <2>4. HostType'
      BY <1>t, <1>10, <2>2, <2>3 DEF PumpCollection, HostType
    <2> QED
      BY <1>0, <1>c, <1>y, <1>10, <2>1, <2>4 DEF PumpCollection, TypeOK
  <1>11. ASSUME NEW h \in Host, PumpRestore(h) PROVE TypeOK' /\ BoundInv'
    <2>0. restores \in Seq(1..counter)
      BY <1>t DEF InboxType
    <2>1. restores # <<>> => Tail(restores) \in Seq(1..counter) /\ Head(restores) \in 1..counter
      BY <2>0, TailElements
    <2>2. restores' \in Seq(1..counter) /\ UNCHANGED counter
      BY <1>11, <2>0, <2>1 DEF PumpRestore
    <2>3. InboxType'
      BY <1>t, <1>11, <2>2 DEF PumpRestore, InboxType
    <2>a. /\ asked' = asked
          /\ \/ work' = work
             \/ restores # <<>> /\ work' = [work EXCEPT ![h] = work[h] \cup {Head(restores)}]
      BY <1>11 DEF PumpRestore, Send
    <2>b. work \in [Host -> SUBSET (1..counter)]
      BY <1>t DEF HostType
    <2>c. restores # <<>> => work[h] \cup {Head(restores)} \in SUBSET (1..counter)
      BY <2>1, <2>b
    <2>4. work' \in [Host -> SUBSET (1..counter)] /\ asked' = asked
      BY <2>a, <2>b, <2>c
    <2>5. loop' \in [Host -> {"none", "read", "frames", "collect", "restore", "closing",
                              "closed"}]
      BY <1>t, <1>11 DEF PumpRestore, Send, HostType
    <2>6. HostType'
      BY <1>t, <1>11, <2>2, <2>4, <2>5 DEF PumpRestore, HostType
    <2> QED
      BY <1>0, <1>c, <1>y, <1>11, <2>3, <2>6 DEF PumpRestore, TypeOK
  <1>12. ASSUME NEW h \in Host, CloseHost(h) PROVE TypeOK' /\ BoundInv'
    <2>1. HostType'
      BY <1>t, <1>12 DEF CloseHost, HostType
    <2> QED
      BY <1>0, <1>i, <1>c, <1>y, <1>12, <2>1 DEF CloseHost, TypeOK
  <1>13. ASSUME NEW h \in Host, BrowserCloses(h) PROVE TypeOK' /\ BoundInv'
    <2>1. HostType'
      BY <1>t, <1>13 DEF BrowserCloses, HostType
    <2> QED
      BY <1>0, <1>i, <1>c, <1>y, <1>13, <2>1 DEF BrowserCloses, TypeOK
  <1>14. ASSUME NEW h \in Host, ExtensionCollects(h) PROVE TypeOK' /\ BoundInv'
    <2> DEFINE window == [from |-> h, profile |-> Profile[h], at |-> captures]
    <2>1. PICK windows \in {{}, {window}} :
             Reply(h, [type |-> "tabs", windows |-> windows])
      BY <1>14 DEF ExtensionCollects
    <2>2. window \in Window
      BY <1>t DEF Window, HistoryType
    <2> HIDE DEF window
    <2>3. windows \subseteq Window
      BY <2>1, <2>2
    <2>4. [type |-> "tabs", windows |-> windows] \in Message
      BY <2>3 DEF Message
    <2>5. replies' \in [Host -> Seq(Message)]
      BY <1>t, <2>1, <2>4, AppendElements DEF Reply, HostType
    <2>a. /\ asked[h] > 0 /\ asked' = [asked EXCEPT ![h] = asked[h] - 1]
          /\ UNCHANGED <<connections, loop, port, work, counter>>
      BY <1>14 DEF ExtensionCollects
    <2>b. asked' \in [Host -> Nat]
      BY <1>t, <2>a DEF HostType
    <2>6. HostType'
      BY <1>t, <2>a, <2>b, <2>5 DEF HostType
    <2> QED
      BY <1>0, <1>i, <1>c, <1>y, <1>14, <2>6 DEF ExtensionCollects, TypeOK
  <1>15. ASSUME NEW h \in Host, ExtensionRestores(h) PROVE TypeOK' /\ BoundInv'
    <2>1. PICK r \in work[h], n \in 0..MaxTabs :
             /\ work' = [work EXCEPT ![h] = @ \ {r}]
             /\ opened' = [opened EXCEPT ![r] = @ + 1]
             /\ reported' = [reported EXCEPT ![r] = n]
             /\ Reply(h, [type |-> "ack", id |-> r, count |-> n])
      BY <1>15 DEF ExtensionRestores
    <2>2. r \in Request
      BY <1>t, <2>1 DEF InboxType, HostType, Request
    <2>3. [type |-> "ack", id |-> r, count |-> n] \in Message
      BY <2>2 DEF Message
    <2>4. replies' \in [Host -> Seq(Message)]
      BY <1>t, <2>1, <2>3, AppendElements DEF Reply, HostType
    <2>5. HistoryType'
      BY <1>t, <1>15, <2>1, <2>2 DEF ExtensionRestores, HistoryType
    <2>6. HostType'
      BY <1>t, <1>15, <2>1, <2>4 DEF ExtensionRestores, HostType
    <2> QED
      BY <1>0, <1>i, <1>c, <1>15, <2>5, <2>6 DEF ExtensionRestores, TypeOK
  <1>16. CASE UNCHANGED vars
    BY <1>0, <1>i, <1>h, <1>c, <1>y, <1>16 DEF vars, TypeOK
  <1> QED
    BY <1>1, <1>2, <1>3, <1>4, <1>5, <1>6, <1>7, <1>8, <1>9, <1>10, <1>11, <1>12, <1>13,
       <1>14, <1>15, <1>16 DEF Next, Call, Wait, Serve, Extension

\* The bridge's variables keep their types, and a queued, delivered or awaited request
\* always has an id that was handed out.
THEOREM BridgeTypeCorrect == Spec => []TypeOK
  <1>1. Init => TypeOK /\ BoundInv
    <2> USE BridgeAssumption DEF Init, Request
    <2>a. Init => InboxType
      <3>1. Init => restores \in Seq(1..counter)
        OBVIOUS
      <3>2. Init => results \in [Request -> (0..MaxTabs) \cup {None}]
        OBVIOUS
      <3>3. Init => counter \in 0..MaxRestores
        OBVIOUS
      <3>4. Init => tabs \subseteq Window /\ tabs_fresh \in BOOLEAN
                    /\ collection_requested \in BOOLEAN
        OBVIOUS
      <3> QED
        BY ONLY <3>1, <3>2, <3>3, <3>4 DEF InboxType
    <2>b. Init => HostType
      BY DEF HostType
    <2>c. Init => CallerType
      BY DEF CallerType
    <2>d. Init => HistoryType
      BY DEF HistoryType
    <2>1. Init => TypeOK
      BY <2>a, <2>b, <2>c, <2>d DEF TypeOK
    <2>2. Init => Enqueuing = {} /\ counter = 0
      BY DEF Enqueuing
    <2>3. Init => BoundInv
      <3> HAVE Init
      <3>1. Cardinality(Enqueuing) = 0
        BY <2>2, FS_EmptySet
      <3> QED
        BY <2>2, <3>1 DEF BoundInv
    <2> QED
      BY <2>1, <2>3
  <1>2. TypeOK /\ BoundInv /\ [Next]_vars => TypeOK' /\ BoundInv'
    BY TypeStep
  <1> QED
    BY <1>1, <1>2, PTL DEF Spec

-----------------------------------------------------------------------------
(* Connections and publications.                                            *)

\* A dead connection is never left registered: every step keeps the registered hosts
\* among the served ones.
LEMMA ConnectionsStep ==
    ASSUME TypeOK, NoGhostConnections, [Next]_vars
    PROVE  NoGhostConnections'
  <1> USE DEF Goto, Loop, inbox, ends, callers, history, NoGhostConnections
  <1>t. loop \in [Host -> {"none", "read", "frames", "collect", "restore", "closing",
                           "closed"}] /\ connections \subseteq Host
    BY DEF TypeOK, HostType
  <1>0. ASSUME UNCHANGED <<connections, loop>> PROVE NoGhostConnections'
    BY <1>0
  <1>l. ASSUME NEW h \in Host, NEW l \in {"read", "frames", "collect", "restore", "closing"},
               UNCHANGED connections, loop' = [loop EXCEPT ![h] = l]
        PROVE  NoGhostConnections'
    BY <1>t, <1>l
  <1>1. ASSUME NEW c \in Caller, StartCapture(c) \/ StartRestore(c) \/ Call(c)
        PROVE  NoGhostConnections'
    BY <1>0, <1>1 DEF StartCapture, StartRestore, Call, TakeTabs, EnqueueRestore, Wait,
                      TakeFresh, TakeTimeout, RestoreResult, RestoreTimeout
  <1>2. ASSUME NEW h \in Host, Accept(h) \/ ReadSome(h) \/ FramesDone(h)
        PROVE  NoGhostConnections'
    BY <1>l, <1>2 DEF Accept, ReadSome, FramesDone
  <1>3. ASSUME NEW h \in Host, HandleFrame(h) PROVE NoGhostConnections'
    <2>1. connections' \in {connections, connections \cup {h}} /\ loop' = loop
          /\ loop[h] = "frames"
      BY <1>3 DEF HandleFrame, RegisterHostConnection, PublishTabs, AcknowledgeRestore
    <2> QED
      BY <1>t, <2>1
  <1>4. ASSUME NEW h \in Host, PumpCollection(h) \/ PumpRestore(h)
        PROVE  NoGhostConnections'
    BY <1>l, <1>4 DEF PumpCollection, PumpRestore, Send
  <1>5. ASSUME NEW h \in Host, CloseHost(h) PROVE NoGhostConnections'
    BY <1>t, <1>5 DEF CloseHost
  <1>6. ASSUME NEW h \in Host, Extension(h) \/ BrowserCloses(h) PROVE NoGhostConnections'
    BY <1>0, <1>6 DEF Extension, ExtensionCollects, ExtensionRestores, BrowserCloses
  <1> QED
    BY <1>0, <1>1, <1>2, <1>3, <1>4, <1>5, <1>6 DEF Next, Serve, vars

\* A host thread that has ended has left connections_ (unregister_host_connection at the
\* end of serve_browser_host).
THEOREM EndedHostsUnregister == Spec => []NoGhostConnections
  <1>1. Init => NoGhostConnections
    BY DEF Init, NoGhostConnections
  <1>2. TypeOK /\ NoGhostConnections /\ [Next]_vars => NoGhostConnections'
    BY ConnectionsStep
  <1> QED
    BY <1>1, <1>2, BridgeTypeCorrect, PTL DEF Spec

\* Only a publication raises the flag that a take lowers.
LEMMA TakeStep ==
    ASSUME TypeOK, TakeInv, [Next]_vars
    PROVE  TakeInv'
  <1> USE DEF Goto, Loop, inbox, ends, callers, history, TakeInv
  <1>t. tabs_fresh \in BOOLEAN /\ takes \in Nat /\ publications \in Nat
    BY DEF TypeOK, InboxType, HistoryType
  <1>0. ASSUME UNCHANGED <<tabs_fresh, takes, publications>> PROVE TakeInv'
    BY <1>0
  <1>1. ASSUME NEW c \in Caller, TakeFresh(c) PROVE TakeInv'
    BY <1>t, <1>1 DEF TakeFresh
  <1>2. ASSUME NEW h \in Host, HandleFrame(h) PROVE TakeInv'
    <2>1. \/ UNCHANGED <<tabs_fresh, takes, publications>>
          \/ takes' = takes /\ publications' = publications + 1
             /\ tabs_fresh' = TRUE
      BY <1>2 DEF HandleFrame, RegisterHostConnection, PublishTabs, AcknowledgeRestore
    <2> QED
      BY <1>t, <2>1
  <1>3. ASSUME NEW c \in Caller,
               \/ StartCapture(c) \/ StartRestore(c) \/ TakeTabs(c) \/ EnqueueRestore(c)
               \/ TakeTimeout(c) \/ RestoreResult(c) \/ RestoreTimeout(c)
        PROVE  TakeInv'
    BY <1>0, <1>3 DEF StartCapture, StartRestore, TakeTabs, EnqueueRestore, TakeTimeout,
                      RestoreResult, RestoreTimeout
  <1>4. ASSUME NEW h \in Host,
               \/ Accept(h) \/ ReadSome(h) \/ FramesDone(h) \/ PumpCollection(h)
               \/ PumpRestore(h) \/ CloseHost(h) \/ Extension(h) \/ BrowserCloses(h)
        PROVE  TakeInv'
    BY <1>0, <1>4 DEF Accept, ReadSome, FramesDone, PumpCollection, PumpRestore, CloseHost,
                      Extension, ExtensionCollects, ExtensionRestores, BrowserCloses
  <1> QED
    BY <1>0, <1>1, <1>2, <1>3, <1>4 DEF Next, Call, Wait, Serve, vars

\* No two captures are answered with the same publication.
THEOREM TakesUsePublications == Spec => []TakesHavePublications
  <1>1. Init => TakeInv
    BY DEF Init, TakeInv
  <1>2. TypeOK /\ TakeInv /\ [Next]_vars => TakeInv'
    BY TakeStep
  <1>3. TypeOK /\ TakeInv => TakesHavePublications
    BY DEF TypeOK, InboxType, HistoryType, TakeInv, TakesHavePublications
  <1> QED
    BY <1>1, <1>2, <1>3, BridgeTypeCorrect, PTL DEF Spec

-----------------------------------------------------------------------------
(* Requests.                                                                *)

\* The steps that touch neither the queue nor the browsers' work nor what was opened.
LEMMA RequestQuiet ==
    ASSUME RequestInv, UNCHANGED <<restores, work, opened, counter>>
    PROVE  RequestInv'
  BY DEF RequestInv, Queued, OpenedAtMostOnce

\* A new request is not queued, not at a browser and not opened: its id is above counter.
LEMMA RequestEnqueued ==
    ASSUME TypeOK, TypeOK', RequestInv, NEW c \in Caller, EnqueueRestore(c)
    PROVE  RequestInv'
  <1> DEFINE new == counter + 1
  <1>1. /\ restores' = Append(restores, new) /\ counter' = new
        /\ UNCHANGED <<work, opened>>
    BY DEF EnqueueRestore, ends, history
  <1>2. /\ counter \in Nat /\ restores \in Seq(1..counter) /\ new \in Request
        /\ opened \in [Request -> Nat] /\ work \in [Host -> SUBSET (1..counter)]
        /\ Request \subseteq Nat
    BY <1>1 DEF TypeOK, InboxType, HostType, HistoryType, Request
  <1>3. restores \in Seq(1..new)
    BY <1>2, SeqMonotone
  <1>4. /\ Len(restores) \in Nat /\ Len(restores') = Len(restores) + 1
        /\ \A k \in 1..Len(restores) : restores'[k] = restores[k] /\ restores[k] \in 1..counter
        /\ restores'[Len(restores) + 1] = new
    <2>1. new \in 1..new
      BY <1>2
    <2> QED
      BY <1>1, <1>2, <1>3, <2>1, AppendElements
  <1>5. opened[new] = 0 /\ \A h \in Host : new \notin work[h]
    BY <1>2 DEF RequestInv
  <1>6. \A k, l \in 1..Len(restores') : restores'[k] = restores'[l] => k = l
    <2> TAKE k, l \in 1..Len(restores')
    <2>1. CASE k \in 1..Len(restores) /\ l \in 1..Len(restores)
      BY <1>4, <2>1 DEF RequestInv
    <2>2. CASE k \in 1..Len(restores) /\ l = Len(restores) + 1
      BY <1>2, <1>4, <2>2
    <2>3. CASE l \in 1..Len(restores) /\ k = Len(restores) + 1
      BY <1>2, <1>4, <2>3
    <2> QED
      BY <1>4, <2>1, <2>2, <2>3
  <1>7. \A r \in Request : Queued(r)' => Queued(r) \/ r = new
    BY <1>4 DEF Queued
  <1> HIDE DEF new
  <1>8. /\ \A r \in Request, h \in Host : Queued(r)' => r \notin work'[h]
        /\ \A r \in Request : Queued(r)' => opened'[r] = 0
    BY <1>1, <1>5, <1>7 DEF RequestInv
  <1>9. \A r \in Request : r > counter' => opened'[r] = 0
    BY <1>1, <1>2 DEF RequestInv, new
  <1> QED
    BY <1>1, <1>6, <1>8, <1>9 DEF RequestInv, OpenedAtMostOnce

\* The request that leaves the queue is at no browser, and the queue held it once.
LEMMA RequestSent ==
    ASSUME TypeOK, RequestInv, NEW h \in Host, PumpRestore(h)
    PROVE  RequestInv'
  <1>1. UNCHANGED <<opened, counter>>
    BY DEF PumpRestore, history
  <1>2. CASE restores = <<>>
    <2>1. UNCHANGED <<restores, work, opened, counter>>
      BY <1>1, <1>2 DEF PumpRestore, Send
    <2> QED
      BY <2>1, RequestQuiet
  <1>3. CASE restores # <<>>
    <2> DEFINE r0 == Head(restores)
    <2>1. restores' = Tail(restores) /\ restores \in Seq(1..counter)
      BY <1>3 DEF PumpRestore, TypeOK, InboxType
    <2>2. /\ r0 = restores[1] /\ Len(restores) \in Nat /\ Len(restores) > 0
          /\ r0 \in 1..counter
          /\ Len(restores') = Len(restores) - 1
          /\ \A k \in 1..Len(restores') : restores'[k] = restores[k + 1]
      <3> HIDE DEF r0
      <3>1. /\ Head(restores) \in 1..counter /\ Head(restores) = restores[1]
            /\ Len(restores) \in Nat /\ Len(restores) > 0
            /\ Len(Tail(restores)) = Len(restores) - 1
            /\ \A k \in 1..Len(Tail(restores)) : Tail(restores)[k] = restores[k + 1]
        BY ONLY <1>3, <2>1, TailElements
      <3> QED
        BY ONLY <2>1, <3>1 DEF r0
    <2>3. r0 \in Request /\ Queued(r0)
      <3>1. r0 \in Request
        BY <2>2, BridgeAssumption DEF TypeOK, InboxType, Request
      <3>2. 1 \in 1..Len(restores) /\ restores[1] = r0
        BY <2>2
      <3> QED
        BY ONLY <3>1, <3>2 DEF Queued
    <2>4. work' = work \/ work' = [work EXCEPT ![h] = work[h] \cup {r0}]
      BY <1>3 DEF PumpRestore, Send
    <2> HIDE DEF r0
    <2>5. \A k, l \in 1..Len(restores') : restores'[k] = restores'[l] => k = l
      <3> TAKE k, l \in 1..Len(restores')
      <3>1. k + 1 \in 1..Len(restores) /\ l + 1 \in 1..Len(restores)
        BY <2>2
      <3> QED
        BY <2>2, <3>1 DEF RequestInv
    <2>6. \A r \in Request : Queued(r)' => Queued(r) /\ r # r0
      <3> TAKE r \in Request
      <3> HAVE Queued(r)'
      <3>1. PICK k \in 1..Len(restores') : restores'[k] = r
        BY DEF Queued
      <3>2. k + 1 \in 1..Len(restores) /\ restores[k + 1] = r /\ k + 1 # 1
            /\ 1 \in 1..Len(restores)
        BY <2>2, <3>1
      <3> QED
        BY <2>2, <3>2 DEF RequestInv, Queued
    <2>7. \A r \in Request, g \in Host : r \in work'[g] => r \in work[g] \/ (r = r0 /\ g = h)
      BY <2>4 DEF TypeOK, HostType
    <2>8. opened[r0] = 0 /\ \A g \in Host : r0 \notin work[g]
      BY <2>3 DEF RequestInv
    <2>9. /\ \A r \in Request, g \in Host : Queued(r)' => r \notin work'[g]
          /\ \A r \in Request : Queued(r)' => opened'[r] = 0
      BY <1>1, <2>6, <2>7 DEF RequestInv
    <2>10. /\ \A r \in Request, g \in Host : r \in work'[g] => opened'[r] = 0
           /\ \A r \in Request, f, g \in Host : r \in work'[f] /\ r \in work'[g] => f = g
      BY <1>1, <2>7, <2>8 DEF RequestInv
    <2>11. (\A r \in Request : r > counter => opened[r] = 0)' /\ OpenedAtMostOnce'
      BY <1>1 DEF RequestInv, OpenedAtMostOnce
    <2> QED
      BY <2>5, <2>9, <2>10, <2>11 DEF RequestInv
  <1> QED
    BY <1>2, <1>3

\* A browser opens a request that was at it and nowhere else.
LEMMA RequestOpened ==
    ASSUME TypeOK, RequestInv, NEW h \in Host, NEW r0 \in work[h],
           work' = [work EXCEPT ![h] = work[h] \ {r0}],
           opened' = [opened EXCEPT ![r0] = opened[r0] + 1],
           UNCHANGED <<restores, counter>>
    PROVE  RequestInv' /\ r0 \in Request /\ opened[r0] = 0 /\ opened'[r0] = 1
  <1>1. /\ work \in [Host -> SUBSET (1..counter)] /\ opened \in [Request -> Nat]
        /\ r0 \in Request /\ counter \in Nat /\ r0 \in 1..counter
    BY BridgeAssumption, SMTT(30) DEF TypeOK, InboxType, HostType, HistoryType, Request
  <1>2. opened[r0] = 0 /\ ~Queued(r0)
    BY <1>1 DEF RequestInv
  <1>3. \A r \in Request : Queued(r)' <=> Queued(r)
    BY DEF Queued
  <1>4. \A r \in Request : opened'[r] = IF r = r0 THEN 1 ELSE opened[r]
    BY <1>1, <1>2
  <1>5. \A r \in Request, g \in Host : r \in work'[g] => r \in work[g] /\ (r # r0 \/ g # h)
    BY <1>1
  <1>6. \A r \in Request, g \in Host : r \in work'[g] => r # r0
    BY <1>1, <1>5 DEF RequestInv
  <1>7. (\A k, l \in 1..Len(restores) : restores[k] = restores[l] => k = l)'
    BY DEF RequestInv
  <1>8. /\ \A r \in Request, g \in Host : Queued(r)' => r \notin work'[g]
        /\ \A r \in Request : Queued(r)' => opened'[r] = 0
    BY <1>2, <1>3, <1>4, <1>5 DEF RequestInv
  <1>9. /\ \A r \in Request, g \in Host : r \in work'[g] => opened'[r] = 0
        /\ \A r \in Request, f, g \in Host : r \in work'[f] /\ r \in work'[g] => f = g
    BY <1>4, <1>5, <1>6 DEF RequestInv
  <1>10. (\A r \in Request : r > counter => opened[r] = 0)'
    BY <1>1, <1>4 DEF RequestInv
  <1>11. OpenedAtMostOnce'
    BY <1>4 DEF RequestInv, OpenedAtMostOnce
  <1> QED
    BY <1>1, <1>2, <1>4, <1>7, <1>8, <1>9, <1>10, <1>11 DEF RequestInv

\* A browser that goes away opens nothing more.
LEMMA RequestDropped ==
    ASSUME TypeOK, RequestInv, NEW h \in Host, work' = [work EXCEPT ![h] = {}],
           UNCHANGED <<restores, opened, counter>>
    PROVE  RequestInv'
  <1>1. \A r \in Request, g \in Host : r \in work'[g] => r \in work[g]
    BY DEF TypeOK, HostType
  <1>2. \A r \in Request : Queued(r)' <=> Queued(r)
    BY DEF Queued
  <1> QED
    BY <1>1, <1>2 DEF RequestInv, OpenedAtMostOnce

LEMMA RequestStep ==
    ASSUME TypeOK, TypeOK', RequestInv, [Next]_vars
    PROVE  RequestInv'
  <1> USE DEF inbox, ends, callers, history
  <1>1. ASSUME NEW c \in Caller,
               \/ StartCapture(c) \/ StartRestore(c) \/ TakeTabs(c) \/ TakeFresh(c)
               \/ TakeTimeout(c) \/ RestoreResult(c) \/ RestoreTimeout(c)
        PROVE  RequestInv'
    BY <1>1, RequestQuiet DEF StartCapture, StartRestore, TakeTabs, TakeFresh, TakeTimeout,
                              RestoreResult, RestoreTimeout
  <1>2. ASSUME NEW h \in Host, Accept(h) \/ ReadSome(h) \/ FramesDone(h)
        PROVE  RequestInv'
    BY <1>2, RequestQuiet DEF Accept, ReadSome, FramesDone
  <1>3. ASSUME NEW h \in Host, HandleFrame(h) PROVE RequestInv'
    BY <1>3, RequestQuiet DEF HandleFrame, RegisterHostConnection, PublishTabs,
                              AcknowledgeRestore
  <1>4. ASSUME NEW h \in Host, PumpCollection(h) PROVE RequestInv'
    BY <1>4, RequestQuiet DEF PumpCollection, Send
  <1>5. ASSUME NEW h \in Host, CloseHost(h) \/ BrowserCloses(h) PROVE RequestInv'
    BY <1>5, RequestDropped DEF CloseHost, BrowserCloses
  <1>6. ASSUME NEW h \in Host, ExtensionCollects(h) PROVE RequestInv'
    BY <1>6, RequestQuiet DEF ExtensionCollects
  <1>7. ASSUME NEW h \in Host, ExtensionRestores(h) PROVE RequestInv'
    BY <1>7, RequestOpened DEF ExtensionRestores
  <1>8. CASE UNCHANGED vars
    BY <1>8, RequestQuiet DEF vars
  <1> QED
    BY <1>1, <1>2, <1>3, <1>4, <1>5, <1>6, <1>7, <1>8, RequestEnqueued, RequestSent
       DEF Next, Call, Wait, Serve, Extension

LEMMA RequestsAlways == Spec => []RequestInv
  <1>1. Init => RequestInv
    <2> HAVE Init
    <2>1. restores = <<>> /\ Len(restores) = 0 /\ work = [h \in Host |-> {}]
          /\ opened = [r \in Request |-> 0]
      BY DEF Init
    <2> QED
      BY <2>1 DEF RequestInv, Queued, OpenedAtMostOnce
  <1>2. TypeOK /\ TypeOK' /\ RequestInv /\ [Next]_vars => RequestInv'
    BY RequestStep
  <1> QED
    BY <1>1, <1>2, BridgeTypeCorrect, PTL DEF Spec

\* However hosts come and go, the tabs of one restore request are opened at most once.
THEOREM RestoresHappenOnce == Spec => []OpenedAtMostOnce
  <1>1. RequestInv => OpenedAtMostOnce
    BY DEF RequestInv
  <1> QED
    BY <1>1, RequestsAlways, PTL

-----------------------------------------------------------------------------
(* Acknowledgements.                                                        *)

\* What AckInv says of one message.
Honest(m) == m.type = "ack" => opened[m.id] = 1 /\ m.count = reported[m.id]

\* The first half of AckInv, message by message.
ChannelsHonest == \A h \in Host : \A k \in 1..Len(replies[h]) : Honest(replies[h][k])

ResultsHonest == \A r \in Request : results[r] # None => opened[r] = 1 /\ results[r] = reported[r]

LEMMA AckParts == AckInv <=> ChannelsHonest /\ ResultsHonest
  BY DEF AckInv, ChannelsHonest, ResultsHonest, Honest

LEMMA ChannelsQuiet ==
    ASSUME ChannelsHonest, UNCHANGED <<replies, opened, reported>>
    PROVE  ChannelsHonest'
  BY DEF ChannelsHonest, Honest

LEMMA ResultsQuiet ==
    ASSUME ResultsHonest, UNCHANGED <<results, opened, reported>>
    PROVE  ResultsHonest'
  BY DEF ResultsHonest

\* A reply that is no acknowledgement, or an honest one, may be appended.
LEMMA ChannelsAppend ==
    ASSUME TypeOK, ChannelsHonest, NEW h \in Host, NEW m \in Message, Honest(m),
           replies' = [replies EXCEPT ![h] = Append(replies[h], m)],
           UNCHANGED <<opened, reported>>
    PROVE  ChannelsHonest'
  <1>1. replies \in [Host -> Seq(Message)]
    BY DEF TypeOK, HostType
  <1>2. \A x : Honest(x)' <=> Honest(x)
    BY DEF Honest
  <1>3. ASSUME NEW g \in Host, NEW k \in 1..Len(replies'[g]) PROVE Honest(replies'[g][k])
    <2>1. CASE g # h
      <3>1. replies'[g] = replies[g]
        BY <1>1, <2>1
      <3> QED
        BY <1>3, <3>1 DEF ChannelsHonest
    <2>2. CASE g = h
      <3>1. replies'[g] = Append(replies[h], m)
        BY <1>1, <2>2
      <3>2. /\ Len(replies'[g]) = Len(replies[h]) + 1 /\ Len(replies[h]) \in Nat
            /\ \A l \in 1..Len(replies[h]) : replies'[g][l] = replies[h][l]
            /\ replies'[g][Len(replies[h]) + 1] = m
        <4>1. replies[h] \in Seq(Message)
          BY <1>1
        <4> QED
          BY <3>1, <4>1, AppendElements, SMTT(30)
      <3>3. CASE k \in 1..Len(replies[h])
        BY <3>2, <3>3 DEF ChannelsHonest
      <3>4. CASE k = Len(replies[h]) + 1
        BY <3>2, <3>4
      <3> QED
        BY <1>3, <3>2, <3>3, <3>4
    <2> QED
      BY <2>1, <2>2
  <1> QED
    BY <1>2, <1>3 DEF ChannelsHonest

\* Reading a message leaves the others.
LEMMA ChannelsTail ==
    ASSUME TypeOK, ChannelsHonest, NEW h \in Host, replies[h] # <<>>,
           replies' = [replies EXCEPT ![h] = Tail(replies[h])],
           UNCHANGED <<opened, reported>>
    PROVE  ChannelsHonest' /\ Honest(Head(replies[h])) /\ Head(replies[h]) \in Message
  <1>1. replies \in [Host -> Seq(Message)]
    BY DEF TypeOK, HostType
  <1>2. \A x : Honest(x)' <=> Honest(x)
    BY DEF Honest
  <1>3. /\ Head(replies[h]) \in Message /\ Head(replies[h]) = replies[h][1]
        /\ Len(replies[h]) \in Nat /\ Len(replies[h]) > 0
        /\ Len(Tail(replies[h])) = Len(replies[h]) - 1
        /\ \A k \in 1..Len(Tail(replies[h])) : Tail(replies[h])[k] = replies[h][k + 1]
    BY <1>1, TailElements
  <1>4. Honest(Head(replies[h]))
    <2>1. 1 \in 1..Len(replies[h])
      BY <1>3
    <2> QED
      BY <1>3, <2>1 DEF ChannelsHonest
  <1>5. ASSUME NEW g \in Host, NEW k \in 1..Len(replies'[g]) PROVE Honest(replies'[g][k])
    <2>1. CASE g # h
      <3>1. replies'[g] = replies[g]
        BY <1>1, <2>1
      <3> QED
        BY <1>5, <3>1 DEF ChannelsHonest
    <2>2. CASE g = h
      <3>1. replies'[g] = Tail(replies[h])
        BY <1>1, <2>2
      <3>2. k + 1 \in 1..Len(replies[h]) /\ replies'[g][k] = replies[h][k + 1]
        BY ONLY <1>3, <1>5, <3>1
      <3> QED
        BY <3>2 DEF ChannelsHonest
    <2> QED
      BY <2>1, <2>2
  <1> QED
    BY <1>2, <1>3, <1>4, <1>5 DEF ChannelsHonest

\* A channel that starts over holds no acknowledgement.
LEMMA ChannelsReset ==
    ASSUME TypeOK, ChannelsHonest, NEW h \in Host, NEW s,
           s \in {<<>>, <<[type |-> "hello"], [type |-> "hello"]>>},
           replies' = [replies EXCEPT ![h] = s],
           UNCHANGED <<opened, reported>>
    PROVE  ChannelsHonest'
  <1>1. replies \in [Host -> Seq(Message)]
    BY DEF TypeOK, HostType
  <1>2. \A x : Honest(x)' <=> Honest(x)
    BY DEF Honest
  <1>3. \A k \in 1..Len(s) : s[k].type = "hello"
    OBVIOUS
  <1>4. \A k \in 1..Len(s) : Honest(s[k])
    BY <1>3 DEF Honest
  <1>5. ASSUME NEW g \in Host, NEW k \in 1..Len(replies'[g]) PROVE Honest(replies'[g][k])
    BY <1>1, <1>4, <1>5 DEF ChannelsHonest
  <1> QED
    BY <1>2, <1>5 DEF ChannelsHonest

\* A browser opens a request nobody has acknowledged, and acknowledges what it opened.
LEMMA AckOpened ==
    ASSUME TypeOK, RequestInv, AckInv, NEW h \in Host, ExtensionRestores(h)
    PROVE  AckInv'
  <1>1. PICK r0 \in work[h], n \in 0..MaxTabs :
           /\ work' = [work EXCEPT ![h] = @ \ {r0}]
           /\ opened' = [opened EXCEPT ![r0] = @ + 1]
           /\ reported' = [reported EXCEPT ![r0] = n]
           /\ Reply(h, [type |-> "ack", id |-> r0, count |-> n])
    BY DEF ExtensionRestores
  <1> DEFINE ack == [type |-> "ack", id |-> r0, count |-> n]
  <1>2. UNCHANGED <<restores, counter, results>>
    BY DEF ExtensionRestores, inbox
  <1>3. r0 \in Request /\ opened[r0] = 0 /\ opened'[r0] = 1
    BY <1>1, <1>2, RequestOpened
  <1>4. /\ opened \in [Request -> Nat] /\ reported \in [Request -> 0..MaxTabs]
        /\ replies \in [Host -> Seq(Message)]
    BY DEF TypeOK, HistoryType, HostType
  <1>5. \A r \in Request : r # r0 => opened'[r] = opened[r] /\ reported'[r] = reported[r]
    BY <1>1, <1>4
  <1>6. reported'[r0] = n
    BY <1>1, <1>3, <1>4
  <1>7. ResultsHonest'
    <2>1. \A r \in Request : results[r] # None => r # r0 /\ opened[r] = 1
                                                  /\ results[r] = reported[r]
      BY <1>3, AckParts DEF ResultsHonest
    <2> QED
      BY <1>2, <1>5, <2>1 DEF ResultsHonest
  <1>8. ack \in Message
    BY <1>3 DEF Message
  <1> DEFINE Still(m) == m.type = "ack" => opened'[m.id] = 1 /\ m.count = reported'[m.id]
  <1>9. ASSUME NEW m \in Message, Honest(m) PROVE Still(m)
    <2>1. CASE m.type = "ack"
      <3>1. m.id \in Request
        BY <1>9, <2>1 DEF Message
      <3>2. m.id # r0 /\ opened[m.id] = 1 /\ m.count = reported[m.id]
        BY <1>3, <1>9, <2>1 DEF Honest
      <3> QED
        BY <1>5, <3>1, <3>2 DEF Honest
    <2> QED
      BY <2>1 DEF Honest
  <1>10. Still(ack)
    BY <1>3, <1>6
  <1> HIDE DEF ack, Still
  <1>11. replies' = [replies EXCEPT ![h] = Append(replies[h], ack)]
    BY <1>1 DEF Reply, ack
  <1>12. ASSUME NEW g \in Host, NEW k \in 1..Len(replies'[g]) PROVE Still(replies'[g][k])
    <2>1. CASE g # h
      <3>1. replies'[g] = replies[g] /\ replies[g] \in Seq(Message)
        BY <1>4, <1>11, <2>1
      <3>2. replies[g][k] \in Message /\ Honest(replies[g][k])
        BY <1>12, <3>1, AckParts DEF ChannelsHonest
      <3> QED
        BY <1>9, <3>1, <3>2
    <2>2. CASE g = h
      <3>1. replies'[g] = Append(replies[h], ack) /\ replies[h] \in Seq(Message)
        BY <1>4, <1>11, <2>2
      <3>2. /\ Len(replies'[g]) = Len(replies[h]) + 1 /\ Len(replies[h]) \in Nat
            /\ \A l \in 1..Len(replies[h]) : replies'[g][l] = replies[h][l]
            /\ replies'[g][Len(replies[h]) + 1] = ack
        BY <1>8, <3>1, AppendElements
      <3>3. CASE k \in 1..Len(replies[h])
        <4>1. replies[h][k] \in Message /\ Honest(replies[h][k])
          BY <3>1, <3>3, AckParts DEF ChannelsHonest
        <4> QED
          BY <1>9, <3>2, <3>3, <4>1
      <3>4. CASE k = Len(replies[h]) + 1
        BY <1>10, <3>2, <3>4
      <3> QED
        BY <1>12, <3>2, <3>3, <3>4
    <2> QED
      BY <2>1, <2>2
  <1>13. ChannelsHonest'
    BY <1>12 DEF ChannelsHonest, Honest, Still
  <1> QED
    BY <1>7, <1>13 DEF AckInv, ChannelsHonest, ResultsHonest, Honest

LEMMA AckStep ==
    ASSUME TypeOK, RequestInv, AckInv, [Next]_vars
    PROVE  AckInv'
  <1> USE DEF inbox, ends, callers, history
  <1>p. ChannelsHonest /\ ResultsHonest
    BY AckParts
  <1>a. ASSUME ChannelsHonest', ResultsHonest' PROVE AckInv'
    BY <1>a DEF AckInv, ChannelsHonest, ResultsHonest, Honest
  <1>0. ASSUME UNCHANGED <<replies, results, opened, reported>> PROVE AckInv'
    BY <1>a, <1>p, <1>0, ChannelsQuiet, ResultsQuiet
  <1>1. ASSUME NEW c \in Caller,
               \/ StartCapture(c) \/ StartRestore(c) \/ TakeTabs(c) \/ EnqueueRestore(c)
               \/ TakeFresh(c) \/ TakeTimeout(c) \/ RestoreTimeout(c)
        PROVE  AckInv'
    BY <1>0, <1>1 DEF StartCapture, StartRestore, TakeTabs, EnqueueRestore, TakeFresh,
                      TakeTimeout, RestoreTimeout
  <1>2. ASSUME NEW c \in Caller, RestoreResult(c) PROVE AckInv'
    <2>1. /\ results' = [results EXCEPT ![ticket[c]] = None]
          /\ UNCHANGED <<replies, opened, reported>>
      BY <1>2 DEF RestoreResult
    <2>2. \A r \in Request : results'[r] # None => results'[r] = results[r]
      BY <2>1 DEF TypeOK, InboxType
    <2>3. ResultsHonest'
      BY <1>p, <2>1, <2>2 DEF ResultsHonest
    <2> QED
      BY <1>a, <1>p, <2>1, <2>3, ChannelsQuiet
  <1>3. ASSUME NEW h \in Host, Accept(h) \/ CloseHost(h) PROVE AckInv'
    <2>1. PICK s \in {<<>>, <<[type |-> "hello"], [type |-> "hello"]>>} :
             /\ replies' = [replies EXCEPT ![h] = s]
             /\ UNCHANGED <<results, opened, reported>>
      BY <1>3 DEF Accept, CloseHost
    <2> QED
      BY <1>a, <1>p, <2>1, ChannelsReset, ResultsQuiet
  <1>4. ASSUME NEW h \in Host, HandleFrame(h) PROVE AckInv'
    <2> DEFINE m == Head(replies[h])
    <2>1. /\ replies[h] # <<>> /\ replies' = [replies EXCEPT ![h] = Tail(replies[h])]
          /\ UNCHANGED <<opened, reported>>
          /\ \/ results' = results
             \/ m.type = "ack" /\ results' = [results EXCEPT ![m.id] = m.count]
      BY <1>4 DEF HandleFrame, RegisterHostConnection, PublishTabs, AcknowledgeRestore
    <2>2. ChannelsHonest' /\ Honest(m) /\ m \in Message
      BY <1>p, <2>1, ChannelsTail
    <2> HIDE DEF m
    <2>3. CASE results' = results
      BY <1>a, <1>p, <2>1, <2>2, <2>3, ResultsQuiet
    <2>4. CASE m.type = "ack" /\ results' = [results EXCEPT ![m.id] = m.count]
      <3>1. opened[m.id] = 1 /\ m.count = reported[m.id] /\ m.id \in Request
        BY <2>2, <2>4 DEF Honest, Message
      <3>2. results \in [Request -> (0..MaxTabs) \cup {None}]
        BY DEF TypeOK, InboxType
      <3>3. \A r \in Request : results'[r] = IF r = m.id THEN m.count ELSE results[r]
        BY <2>4, <3>1, <3>2
      <3>4. ResultsHonest'
        BY <1>p, <2>1, <3>1, <3>3 DEF ResultsHonest
      <3> QED
        BY <1>a, <2>2, <3>4
    <2> QED
      BY <2>1, <2>3, <2>4
  <1>5. ASSUME NEW h \in Host,
               \/ ReadSome(h) \/ FramesDone(h) \/ PumpCollection(h) \/ PumpRestore(h)
               \/ BrowserCloses(h)
        PROVE  AckInv'
    BY <1>0, <1>5 DEF ReadSome, FramesDone, PumpCollection, PumpRestore, BrowserCloses
  <1>6. ASSUME NEW h \in Host, ExtensionCollects(h) PROVE AckInv'
    <2> DEFINE window == [from |-> h, profile |-> Profile[h], at |-> captures]
    <2>1. PICK windows \in {{}, {window}} :
             Reply(h, [type |-> "tabs", windows |-> windows])
      BY <1>6 DEF ExtensionCollects
    <2>2. window \in Window
      BY DEF Window, TypeOK, HistoryType
    <2> HIDE DEF window
    <2> DEFINE m == [type |-> "tabs", windows |-> windows]
    <2>3. windows \subseteq Window
      BY <2>1, <2>2
    <2>4. m \in Message /\ Honest(m)
      BY <2>3 DEF Message, Honest
    <2> HIDE DEF m
    <2>5. /\ replies' = [replies EXCEPT ![h] = Append(replies[h], m)]
          /\ UNCHANGED <<results, opened, reported>>
      BY <1>6, <2>1 DEF ExtensionCollects, Reply, m
    <2> QED
      BY <1>a, <1>p, <2>4, <2>5, ChannelsAppend, ResultsQuiet
  <1>7. CASE UNCHANGED vars
    BY <1>0, <1>7 DEF vars
  <1> QED
    BY <1>1, <1>2, <1>3, <1>4, <1>5, <1>6, <1>7, AckOpened
       DEF Next, Call, Wait, Serve, Extension

\* A restore ends with the count its own browser reported, or with none.
LEMMA AnswerStep ==
    ASSUME TypeOK, AckInv, [Next]_vars, NEW c \in Caller,
           pc[c] = "result", pc'[c] = "idle", answer'[c] # 0
    PROVE  opened[ticket[c]] = 1 /\ answer'[c] = reported[ticket[c]]
  <1> USE DEF inbox, ends, callers, history, Goto
  <1>t. /\ pc \in [Caller -> {"idle", "take", "tabs", "enqueue", "result"}]
        /\ answer \in [Caller -> 0..MaxTabs]
    BY DEF TypeOK, CallerType
  <1>r. ticket[c] \in Request
    BY BridgeAssumption DEF TypeOK, CallerType, InboxType, Request
  <1>1. ASSUME NEW d \in Caller, RestoreResult(d) PROVE d = c
    BY <1>t, <1>1 DEF RestoreResult
  <1>2. ASSUME NEW d \in Caller, RestoreTimeout(d) PROVE FALSE
    <2>1. d = c
      BY <1>t, <1>2 DEF RestoreTimeout
    <2> QED
      BY <1>t, <1>2, <2>1 DEF RestoreTimeout
  <1>3. ASSUME NEW d \in Caller,
               \/ StartCapture(d) \/ StartRestore(d) \/ TakeTabs(d) \/ EnqueueRestore(d)
               \/ TakeFresh(d) \/ TakeTimeout(d)
        PROVE  FALSE
    BY <1>t, <1>3 DEF StartCapture, StartRestore, TakeTabs, EnqueueRestore, TakeFresh,
                      TakeTimeout
  <1>4. ASSUME NEW h \in Host, Accept(h) \/ Serve(h) \/ Extension(h) \/ BrowserCloses(h)
        PROVE  FALSE
    BY <1>4 DEF Accept, Serve, ReadSome, HandleFrame, FramesDone, PumpCollection,
                PumpRestore, CloseHost, Extension, ExtensionCollects, ExtensionRestores,
                BrowserCloses
  <1>5. ~UNCHANGED vars
    BY DEF vars
  <1>6. RestoreResult(c)
    BY <1>1, <1>2, <1>3, <1>4, <1>5 DEF Next, Call, Wait
  <1>7. results[ticket[c]] # None /\ answer'[c] = results[ticket[c]]
    BY <1>t, <1>6 DEF RestoreResult
  <1> QED
    BY <1>r, <1>7 DEF AckInv

\* A caller is told the count that the browser which opened its own request reported.
THEOREM AnswersBelong == Spec => AnswerIsMine
  <1>1. Init => AckInv
    <2> HAVE Init
    <2>1. /\ results = [r \in Request |-> None] /\ \A h \in Host : replies[h] = <<>>
      BY DEF Init
    <2> QED
      BY <2>1 DEF AckInv
  <1>2. TypeOK /\ RequestInv /\ AckInv /\ [Next]_vars => AckInv'
    BY AckStep
  <1>3. TypeOK /\ AckInv /\ [Next]_vars =>
          [\A c \in Caller :
              pc[c] = "result" /\ pc'[c] = "idle" /\ answer'[c] # 0
              => opened[ticket[c]] = 1 /\ answer'[c] = reported[ticket[c]]]_vars
    BY AnswerStep
  <1> QED
    BY <1>1, <1>2, <1>3, BridgeTypeCorrect, RequestsAlways, PTL DEF Spec, AnswerIsMine
=============================================================================
