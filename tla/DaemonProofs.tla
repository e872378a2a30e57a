---------------------------- MODULE DaemonProofs ----------------------------
(* Theorems about Daemon, for every number of clients and client slots.     *)
EXTENDS Daemon, FiniteSetTheorems, TLAPS

\* broadcast only clears active flags.
LEMMA BroadcastType ==
    ASSUME SessionType, Broadcast
    PROVE  active' \in [Client -> BOOLEAN]
  BY DEF SessionType, Broadcast

\* Every step keeps the types.
LEMMA TypeStep ==
    ASSUME TypeOK, [Next]_vars
    PROVE  TypeOK'
  <1> USE DaemonAssumption DEF daemon, clients, wire, stops, Step
  <1>t. DaemonType /\ ServerType /\ SessionType /\ WireType /\ StopType
    BY DEF TypeOK
  <1>d. ASSUME UNCHANGED daemon PROVE DaemonType'
    BY <1>t, <1>d DEF DaemonType
  <1>v. ASSUME UNCHANGED <<serving, listening, acceptor, incoming>> PROVE ServerType'
    BY <1>t, <1>v DEF ServerType
  <1>c. ASSUME UNCHANGED clients PROVE SessionType'
    BY <1>t, <1>c DEF SessionType
  <1>w. ASSUME UNCHANGED wire PROVE WireType'
    BY <1>t, <1>w DEF WireType
  <1>s. ASSUME UNCHANGED stops PROVE StopType'
    BY <1>t, <1>s DEF StopType
  <1>1. ASSUME Main PROVE TypeOK'
    <2> USE <1>t, <1>1 DEF Main, StartServer, ListenForBrowsers, StartThreads, CheckRunning,
                          Block, Destroy
    <2>1. DaemonType'
      BY DEF DaemonType
    <2>2. ServerType'
      BY DEF ServerType
    <2> QED
      BY <1>c, <1>w, <1>s, <2>1, <2>2 DEF TypeOK
  <1>2. ASSUME AcceptLoop \/ AcceptClient \/ AcceptWakes \/ AcceptError PROVE TypeOK'
    <2> USE <1>t, <1>2 DEF AcceptLoop, AcceptClient, AcceptWakes, AcceptError
    <2>1. ServerType'
      BY DEF ServerType
    <2>2. WireType'
      BY DEF WireType
    <2> QED
      BY <1>d, <1>c, <1>s, <2>1, <2>2 DEF TypeOK
  <1>3. ASSUME Admit PROVE TypeOK'
    <2> USE <1>t, <1>3 DEF Admit
    <2>1. ServerType' /\ incoming \in Client
      BY DEF ServerType
    <2>2. WireType'
      BY <2>1 DEF WireType
    <2>3. SessionType'
      BY <2>1 DEF SessionType
    <2> QED
      BY <1>d, <1>s, <2>1, <2>2, <2>3 DEF TypeOK
  <1>4. ASSUME NEW c \in Client, Worker(c) PROVE TypeOK'
    <2>1. ASSUME ServeLoop(c) \/ EraseSession(c) PROVE TypeOK'
      <3> USE <1>t, <2>1 DEF ServeLoop, EraseSession
      <3>1. SessionType'
        BY DEF SessionType
      <3> QED
        BY <1>d, <1>v, <1>w, <1>s, <3>1 DEF TypeOK
    <2>4. ASSUME Reply(c) PROVE TypeOK'
      <3> USE <1>t, <2>4 DEF Reply
      <3>1. active' \in [Client -> BOOLEAN]
        BY DEF SessionType
      <3>2. backlog' \in [Client -> Nat]
        BY DEF SessionType
      <3>3. worker' \in [Client -> {"none", "check", "read", "frames", "reply", "closing",
                                    "erase", "ended"}]
        BY DEF SessionType
      <3>4. SessionType'
        BY <3>1, <3>2, <3>3 DEF SessionType
      <3> QED
        BY <1>d, <1>v, <1>w, <1>s, <3>4 DEF TypeOK
    <2>5. ASSUME CloseSession(c) PROVE TypeOK'
      <3> USE <1>t, <2>5 DEF CloseSession
      <3>1. SessionType'
        BY DEF SessionType
      <3>2. WireType'
        BY DEF WireType
      <3> QED
        BY <1>d, <1>v, <1>s, <3>1, <3>2 DEF TypeOK
    <2>2. ASSUME ReadSome(c) PROVE TypeOK'
      <3> USE <1>t, <2>2 DEF ReadSome
      <3>1. SessionType'
        BY DEF SessionType
      <3>2. WireType'
        BY DEF WireType
      <3> QED
        BY <1>d, <1>v, <1>s, <3>1, <3>2 DEF TypeOK
    <2>3. ASSUME NextFrame(c) PROVE TypeOK'
      <3>1. active' \in [Client -> BOOLEAN]
        BY <1>t, <2>3, BroadcastType DEF NextFrame, Handle, SessionType
      <3>2. subscribed' \in [Client -> BOOLEAN]
        BY <1>t, <2>3 DEF NextFrame, Handle, SessionType
      <3>5. backlog' \in [Client -> Nat]
        BY <1>t, <2>3 DEF NextFrame, SessionType
      <3>6. request' \in [Client -> {"none", "call", "subscribe", "shutdown"}]
        BY <1>t, <2>3 DEF NextFrame, Handle, SessionType
      <3>7. worker' \in [Client -> {"none", "check", "read", "frames", "reply", "closing",
                                    "erase", "ended"}]
        BY <1>t, <2>3 DEF NextFrame, SessionType
      <3>4. SessionType'
        BY <1>t, <2>3, <3>1, <3>2, <3>5, <3>6, <3>7 DEF NextFrame, SessionType
      <3>3. StopType'
        BY <1>t, <2>3 DEF NextFrame, Handle, StopType, Stopper
      <3> QED
        BY <2>3, <1>d, <1>v, <1>w, <3>4, <3>3 DEF TypeOK, NextFrame
    <2> QED
      BY <1>4, <2>1, <2>2, <2>3, <2>4, <2>5 DEF Worker
  <1>5. ASSUME NEW s \in Stopper, Stop(s) PROVE TypeOK'
    <2>1. ASSUME EnterStop(s) \/ CloseBrowserListener(s) \/ Notify(s) PROVE TypeOK'
      <3> USE <1>t, <2>1 DEF EnterStop, CloseBrowserListener, Notify
      <3>1. DaemonType'
        BY ZenonT(60) DEF DaemonType
      <3>2. StopType'
        BY DEF StopType
      <3> QED
        BY <1>v, <1>c, <1>w, <3>1, <3>2 DEF TypeOK
    <2>2. ASSUME PublishShutdown(s) PROVE TypeOK'
      <3> USE <1>t, <2>2 DEF PublishShutdown
      <3>1. SessionType'
        BY BroadcastType DEF SessionType
      <3>2. StopType'
        BY DEF StopType
      <3> QED
        BY <1>d, <1>v, <1>w, <3>1, <3>2 DEF TypeOK
    <2>3. ASSUME StopServing(s) \/ CloseListener(s) PROVE TypeOK'
      <3> USE <1>t, <2>3 DEF StopServing, CloseListener
      <3>1. ServerType'
        BY DEF ServerType
      <3>2. StopType'
        BY DEF StopType
      <3> QED
        BY <1>d, <1>c, <1>w, <3>1, <3>2 DEF TypeOK
    <2>4. ASSUME CloseSessions(s) \/ JoinAcceptor(s) \/ JoinWorkers(s) \/ JoinThreads(s)
          PROVE TypeOK'
      <3> USE <1>t, <2>4 DEF CloseSessions, JoinAcceptor, JoinWorkers, JoinThreads
      <3>1. SessionType'
        BY DEF SessionType
      <3>2. WireType'
        BY DEF WireType
      <3>3. StopType'
        BY DEF StopType
      <3> QED
        BY <1>d, <1>v, <3>1, <3>2, <3>3 DEF TypeOK
    <2> QED
      BY <1>5, <2>1, <2>2, <2>3, <2>4 DEF Stop
  <1>6. ASSUME BrowserLoop \/ BrowserAccepts PROVE TypeOK'
    <2> USE <1>t, <1>6 DEF BrowserLoop, BrowserAccepts
    <2>1. DaemonType'
      BY DEF DaemonType
    <2> QED
      BY <1>v, <1>c, <1>w, <1>s, <2>1 DEF TypeOK
  <1>7. ASSUME SchedulerLoop PROVE TypeOK'
    <2> USE <1>t, <1>7 DEF SchedulerLoop
    <2>1. DaemonType'
      BY DEF DaemonType
    <2>2. SessionType'
      BY BroadcastType DEF SessionType
    <2> QED
      BY <1>v, <1>w, <1>s, <2>1, <2>2 DEF TypeOK
  <1>8. ASSUME NEW c \in Client, Dial(c) \/ HangUp(c) PROVE TypeOK'
    <2> USE <1>t, <1>8 DEF Dial, HangUp
    <2>1. WireType'
      BY DEF WireType
    <2> QED
      BY <1>d, <1>v, <1>c, <1>s, <2>1 DEF TypeOK
  <1>9. ASSUME Signal \/ ReturnFromSignal PROVE TypeOK'
    <2> USE <1>t, <1>9 DEF Signal, ReturnFromSignal
    <2>1. StopType'
      BY DEF StopType, Stopper
    <2> QED
      BY <1>d, <1>v, <1>c, <1>w, <2>1 DEF TypeOK
  <1>10. CASE UNCHANGED vars
    BY <1>10, <1>d, <1>v, <1>c, <1>w, <1>s DEF vars, TypeOK
  <1> QED
    BY <1>1, <1>2, <1>3, <1>4, <1>5, <1>6, <1>7, <1>8, <1>9, <1>10 DEF Next, Acceptor

LEMMA TypeInit == Init => TypeOK
  <1> HAVE Init
  <1> USE DEF Init
  <1>1. DaemonType
    BY DEF DaemonType
  <1>2. ServerType
    BY DEF ServerType
  <1>3. SessionType
    BY DEF SessionType
  <1>4. WireType
    BY DEF WireType
  <1>5. StopType
    BY DEF StopType
  <1> QED
    BY <1>1, <1>2, <1>3, <1>4, <1>5 DEF TypeOK

\* The daemon, its threads, sessions and stoppers keep their types.
THEOREM DaemonTypeCorrect == Spec => []TypeOK
  BY TypeInit, TypeStep, PTL DEF Spec

-----------------------------------------------------------------------------
(* One caller of stop() wins.                                               *)

\* A step of stop() past the exchange neither wins nor forgets a win.
LEMMA BeganStays ==
    ASSUME TypeOK, NEW s \in Stopper, Stopping(s), NEW l, Step(s, l),
           l \notin {"none", "sleep", "skipped"}
    PROVE  \A r \in Stopper : Began(r)' <=> Began(r)
  BY DEF TypeOK, StopType, Step, Stopping, Began

\* Starting a stopper is not a win.
LEMMA AskedIsNotBegun ==
    ASSUME TypeOK, NEW s \in Stopper, stopper[s] = "none", Step(s, "sleep")
    PROVE  \A r \in Stopper : Began(r)' <=> Began(r)
  BY DEF TypeOK, StopType, Step, Stopping, Began

LEMMA ExchangeStep ==
    ASSUME TypeOK, ExchangeInv, [Next]_vars
    PROVE  ExchangeInv'
  <1> USE DEF daemon, clients, wire, stops
  <1>t. DaemonType /\ StopType
    BY DEF TypeOK
  <1>q. ASSUME UNCHANGED <<running, main>>, \A s \in Stopper : Began(s)' <=> Began(s)
        PROVE ExchangeInv'
    BY <1>q DEF ExchangeInv, Starting
  <1>u. ASSUME UNCHANGED <<running, main, stopper>> PROVE ExchangeInv'
    BY <1>u, <1>q DEF Began, Stopping
  <1>1. ASSUME Main PROVE ExchangeInv'
    <2> USE <1>1, <1>t DEF Main, StartServer, ListenForBrowsers, StartThreads, CheckRunning,
                          Block, Destroy, Starting, DaemonType
    <2>1. \A s \in Stopper : Began(s)' <=> Began(s)
      BY DEF Began, Stopping
    <2>2. Starting' => Starting /\ running' = running
      OBVIOUS
    <2>3. running' => running \/ Starting
      OBVIOUS
    <2> QED
      BY <2>1, <2>2, <2>3 DEF ExchangeInv
  <1>2. ASSUME Acceptor \/ AcceptError PROVE ExchangeInv'
    BY <1>2, <1>u DEF Acceptor, AcceptError, AcceptLoop, AcceptClient, AcceptWakes, Admit
  <1>3. ASSUME NEW c \in Client, Worker(c) PROVE ExchangeInv'
    <2>1. CASE ServeLoop(c) \/ ReadSome(c) \/ Reply(c) \/ CloseSession(c) \/ EraseSession(c)
      BY <2>1, <1>u DEF ServeLoop, ReadSome, Reply, CloseSession, EraseSession
    <2>2. CASE NextFrame(c)
      <3>1. c \in Stopper
        BY DEF Stopper
      <3>2. UNCHANGED <<running, main>>
        BY <2>2 DEF NextFrame
      <3>3. UNCHANGED stopper \/ (stopper[c] = "none" /\ Step(c, "sleep"))
        BY <2>2, <1>t, <3>1 DEF NextFrame, Handle, Step, StopType
      <3> QED
        BY <3>1, <3>2, <3>3, <1>u, <1>q, AskedIsNotBegun
    <2> QED
      BY <1>3, <2>1, <2>2 DEF Worker
  <1>4. ASSUME NEW s \in Stopper, Stop(s) PROVE ExchangeInv'
    <2>1. CASE EnterStop(s)
      <3>1. CASE running
        <4>1. \A r \in Stopper : ~Began(r)
          BY <3>1 DEF ExchangeInv
        <4>2. \A r \in Stopper : Began(r)' => r = s
          BY <2>1, <3>1, <4>1, <1>t DEF EnterStop, Step, Began, Stopping, StopType
        <4>3. ~Starting' /\ ~running'
          BY <2>1, <3>1 DEF EnterStop, ExchangeInv, Starting
        <4> QED
          BY <4>2, <4>3 DEF ExchangeInv
      <3>2. CASE ~running
        <4>1. \A r \in Stopper : Began(r)' <=> Began(r)
          BY <2>1, <3>2, <1>t DEF EnterStop, Step, Began, Stopping, StopType
        <4> QED
          BY <2>1, <3>2, <4>1, <1>t, <1>q DEF EnterStop, DaemonType
      <3> QED
        BY <3>1, <3>2
    <2>2. ASSUME Stopping(s), UNCHANGED <<running>>, main' = main \/ (~Starting /\ ~Starting'),
                 NEW l, Step(s, l), l \notin {"none", "sleep", "skipped"}
          PROVE  ExchangeInv'
      <3>1. \A r \in Stopper : Began(r)' <=> Began(r)
        BY <2>2, BeganStays
      <3> QED
        BY <2>2, <3>1 DEF ExchangeInv, Starting
    <2>3. CASE Notify(s)
      <3>1. main' = main \/ (~Starting /\ ~Starting')
        BY <2>3 DEF Notify, Starting
      <3> QED
        BY <2>3, <2>2, <3>1 DEF Notify, Stopping
    <2>4. CASE PublishShutdown(s) \/ CloseBrowserListener(s) \/ StopServing(s)
      BY <2>4, <2>2 DEF PublishShutdown, CloseBrowserListener, StopServing, Stopping
    <2>5. CASE CloseListener(s) \/ CloseSessions(s) \/ JoinAcceptor(s) \/ JoinWorkers(s)
      BY <2>5, <2>2 DEF CloseListener, CloseSessions, JoinAcceptor, JoinWorkers, Stopping
    <2>6. CASE JoinThreads(s)
      BY <2>6, <2>2 DEF JoinThreads, Stopping
    <2> QED
      BY <1>4, <2>1, <2>3, <2>4, <2>5, <2>6 DEF Stop
  <1>5. ASSUME BrowserLoop \/ BrowserAccepts \/ SchedulerLoop \/ ReturnFromSignal
        PROVE ExchangeInv'
    BY <1>5, <1>u DEF BrowserLoop, BrowserAccepts, SchedulerLoop, ReturnFromSignal
  <1>6. ASSUME NEW c \in Client, Dial(c) \/ HangUp(c) PROVE ExchangeInv'
    BY <1>6, <1>u DEF Dial, HangUp
  <1>7. ASSUME Signal PROVE ExchangeInv'
    <2>1. Handler \in Stopper
      BY DEF Stopper
    <2> QED
      BY <1>7, <1>q, <2>1, AskedIsNotBegun DEF Signal
  <1>8. CASE UNCHANGED vars
    BY <1>8, <1>u DEF vars
  <1> QED
    BY <1>1, <1>2, <1>3, <1>4, <1>5, <1>6, <1>7, <1>8 DEF Next

LEMMA ExchangeInit == Init => ExchangeInv
  BY DEF Init, ExchangeInv, Began, Stopping, Starting

LEMMA Exchange == Spec => [](TypeOK /\ ExchangeInv)
  <1>1. TypeOK /\ ExchangeInv /\ [Next]_vars => TypeOK' /\ ExchangeInv'
    BY TypeStep, ExchangeStep
  <1> QED
    BY <1>1, TypeInit, ExchangeInit, PTL DEF Spec

\* Of all Shutdown requests and signals, at whatever point of the start they arrive, one
\* runs the body of stop().
THEOREM OneCallerStops == Spec => []OneStops
  <1>1. ExchangeInv => OneStops
    BY DEF ExchangeInv, OneStops, Began
  <1> QED
    BY <1>1, Exchange, PTL

-----------------------------------------------------------------------------
(* The client limit.                                                        *)

\* The count and the push are not one critical section, but only the accept thread pushes.
LEMMA LimitStep ==
    ASSUME TypeOK, ClientLimit, [Next]_vars
    PROVE  ClientLimit'
  <1> USE DEF daemon, clients, wire, stops
  <1>f. IsFiniteSet(sessions) /\ Cardinality(sessions) \in Nat /\ MaxClients \in Nat
    BY DaemonAssumption, FS_Subset, FS_CardinalityType DEF TypeOK, SessionType
  <1>s. ASSUME sessions' \subseteq sessions PROVE ClientLimit'
    <2>1. Cardinality(sessions') <= Cardinality(sessions) /\ Cardinality(sessions') \in Nat
      BY <1>f, <1>s, FS_Subset, FS_CardinalityType
    <2> QED
      BY <1>f, <2>1 DEF ClientLimit
  <1>1. CASE Admit
    <2>1. CASE UNCHANGED clients
      BY <2>1, <1>s
    <2>2. CASE Cardinality(sessions) < MaxClients /\ sessions' = sessions \cup {incoming}
      <3>1. \/ Cardinality(sessions') = Cardinality(sessions)
            \/ Cardinality(sessions') = Cardinality(sessions) + 1
        BY <2>2, <1>f, FS_AddElement
      <3> QED
        BY <2>2, <3>1, <1>f DEF ClientLimit
    <2> QED
      BY <1>1, <2>1, <2>2 DEF Admit
  <1>2. CASE Main \/ AcceptLoop \/ AcceptClient \/ AcceptWakes \/ AcceptError
    BY <1>2, <1>s DEF Main, StartServer, ListenForBrowsers, StartThreads, CheckRunning, Block,
                      Destroy, AcceptLoop, AcceptClient, AcceptWakes, AcceptError
  <1>3. ASSUME NEW c \in Client, Worker(c) \/ Dial(c) \/ HangUp(c) PROVE ClientLimit'
    BY <1>3, <1>s DEF Worker, ServeLoop, ReadSome, NextFrame, Reply, CloseSession, EraseSession,
                      Dial, HangUp
  <1>4. ASSUME NEW s \in Stopper, Stop(s) PROVE ClientLimit'
    BY <1>4, <1>s DEF Stop, EnterStop, PublishShutdown, CloseBrowserListener, StopServing,
                      CloseListener, CloseSessions, JoinAcceptor, JoinWorkers, Notify, JoinThreads
  <1>5. CASE BrowserLoop \/ BrowserAccepts \/ SchedulerLoop \/ Signal \/ ReturnFromSignal
    BY <1>5, <1>s DEF BrowserLoop, BrowserAccepts, SchedulerLoop, Signal, ReturnFromSignal
  <1>6. CASE UNCHANGED vars
    BY <1>6, <1>s DEF vars
  <1> QED
    BY <1>1, <1>2, <1>3, <1>4, <1>5, <1>6 DEF Next, Acceptor

\* The server never has more sessions than ipc.max_clients.
THEOREM ClientsAreLimited == Spec => []ClientLimit
  <1>1. Init => ClientLimit
    BY DaemonAssumption, FS_EmptySet DEF Init, ClientLimit
  <1>2. TypeOK /\ ClientLimit /\ [Next]_vars => TypeOK' /\ ClientLimit'
    BY TypeStep, LimitStep
  <1> QED
    BY <1>1, <1>2, TypeInit, PTL DEF Spec

-----------------------------------------------------------------------------
(* What stop() leaves behind.                                               *)

LEMMA ServingStep ==
    ASSUME TypeOK, ExchangeInv, ServingInv, [Next]_vars
    PROVE  ServingInv'
  <1> USE DEF daemon, clients, wire, stops
  <1>t. DaemonType /\ StopType
    BY DEF TypeOK
  <1>u. ASSUME UNCHANGED <<running, main, stopper, serving>> PROVE ServingInv'
    BY <1>u DEF ServingInv
  <1>1. ASSUME Main PROVE ServingInv'
    BY <1>1, <1>t DEF Main, StartServer, ListenForBrowsers, StartThreads, CheckRunning, Block,
                      Destroy, ServingInv, DaemonType
  <1>2. ASSUME Acceptor \/ AcceptError PROVE ServingInv'
    BY <1>2, <1>u DEF Acceptor, AcceptError, AcceptLoop, AcceptClient, AcceptWakes, Admit
  <1>3. ASSUME NEW c \in Client, Worker(c) PROVE ServingInv'
    <2>1. CASE ServeLoop(c) \/ ReadSome(c) \/ Reply(c) \/ CloseSession(c) \/ EraseSession(c)
      BY <2>1, <1>u DEF ServeLoop, ReadSome, Reply, CloseSession, EraseSession
    <2>2. CASE NextFrame(c)
      BY <2>2, <1>t DEF NextFrame, Handle, ServingInv, StopType
    <2> QED
      BY <1>3, <2>1, <2>2 DEF Worker
  <1>4. ASSUME NEW s \in Stopper, Stop(s) PROVE ServingInv'
    <2> USE <1>t DEF Step, StopType
    <2>1. CASE EnterStop(s)
      BY <2>1 DEF EnterStop, ServingInv
    <2>2. CASE StopServing(s)
      <3>1. Began(s)
        BY <2>2 DEF StopServing, Began, Stopping
      <3>2. ~running /\ ~Starting /\ \A r \in Stopper : r # s => ~Began(r)
        BY <3>1, <1>t DEF ExchangeInv, DaemonType
      <3>3. \A r \in Stopper : stopper'[r] \notin {"publish", "browsers", "server"}
        BY <2>2, <3>2 DEF StopServing, Began, Stopping
      <3> QED
        BY <2>2, <3>2, <3>3 DEF StopServing, ServingInv, Starting
    <2>3. CASE PublishShutdown(s) \/ CloseBrowserListener(s)
      BY <2>3 DEF PublishShutdown, CloseBrowserListener, ServingInv
    <2>4. CASE CloseListener(s) \/ CloseSessions(s) \/ JoinAcceptor(s) \/ JoinWorkers(s)
      BY <2>4 DEF CloseListener, CloseSessions, JoinAcceptor, JoinWorkers, ServingInv
    <2>5. CASE Notify(s) \/ JoinThreads(s)
      BY <2>5 DEF Notify, JoinThreads, ServingInv
    <2> QED
      BY <1>4, <2>1, <2>2, <2>3, <2>4, <2>5 DEF Stop
  <1>5. ASSUME BrowserLoop \/ BrowserAccepts \/ SchedulerLoop \/ ReturnFromSignal
        PROVE ServingInv'
    BY <1>5, <1>u DEF BrowserLoop, BrowserAccepts, SchedulerLoop, ReturnFromSignal
  <1>6. ASSUME NEW c \in Client, Dial(c) \/ HangUp(c) PROVE ServingInv'
    BY <1>6, <1>u DEF Dial, HangUp
  <1>7. ASSUME Signal PROVE ServingInv'
    BY <1>7, <1>t DEF Signal, Step, ServingInv, StopType
  <1>8. CASE UNCHANGED vars
    BY <1>8, <1>u DEF vars
  <1> QED
    BY <1>1, <1>2, <1>3, <1>4, <1>5, <1>6, <1>7, <1>8 DEF Next

LEMMA WorkerStep ==
    ASSUME TypeOK, WorkerInv, [Next]_vars
    PROVE  WorkerInv'
  <1> USE DEF daemon, clients, wire, stops
  <1>t. ServerType /\ SessionType /\ WireType
    BY DEF TypeOK
  <1>u. ASSUME UNCHANGED <<worker, worker_threads, conn, acceptor, incoming>>,
               main' = "start" => main = "start"
        PROVE WorkerInv'
    BY <1>u DEF WorkerInv
  <1>1. ASSUME Main PROVE WorkerInv'
    <2>1. CASE StartServer
      <3>1. acceptor # "admit"
        BY <2>1 DEF StartServer, WorkerInv
      <3>2. main' # "start" /\ UNCHANGED <<worker, worker_threads, conn>>
        BY <2>1 DEF StartServer
      <3> QED
        BY <3>1, <3>2 DEF WorkerInv
    <2>2. CASE ~StartServer
      BY <1>1, <2>2, <1>u DEF Main, ListenForBrowsers, StartThreads, CheckRunning, Block, Destroy
    <2> QED
      BY <2>1, <2>2
  <1>2. ASSUME AcceptLoop \/ AcceptWakes \/ AcceptError PROVE WorkerInv'
    BY <1>2 DEF AcceptLoop, AcceptWakes, AcceptError, WorkerInv
  <1>3. ASSUME AcceptClient PROVE WorkerInv'
    BY <1>3, <1>t DEF AcceptClient, WorkerInv, WireType
  <1>4. ASSUME Admit PROVE WorkerInv'
    <2>1. incoming \in Client
      BY <1>4, <1>t DEF Admit, ServerType
    <2> QED
      BY <1>4, <1>t, <2>1 DEF Admit, WorkerInv, WireType, SessionType
  <1>5. ASSUME NEW c \in Client, Worker(c) PROVE WorkerInv'
    <2> USE <1>t DEF SessionType, WireType
    <2>1. CASE ServeLoop(c) \/ Reply(c)
      BY <2>1 DEF ServeLoop, Reply, WorkerInv
    <2>2. CASE ReadSome(c)
      BY <2>2 DEF ReadSome, WorkerInv
    <2>3. CASE NextFrame(c)
      BY <2>3 DEF NextFrame, WorkerInv
    <2>4. CASE CloseSession(c)
      BY <2>4 DEF CloseSession, WorkerInv
    <2>5. CASE EraseSession(c)
      BY <2>5 DEF EraseSession, WorkerInv
    <2> QED
      BY <1>5, <2>1, <2>2, <2>3, <2>4, <2>5 DEF Worker
  <1>6. ASSUME NEW s \in Stopper, Stop(s) PROVE WorkerInv'
    <2>1. CASE CloseSessions(s)
      BY <2>1, <1>t DEF CloseSessions, WorkerInv, WireType
    <2>2. CASE JoinWorkers(s)
      BY <2>2 DEF JoinWorkers, WorkerInv
    <2>3. CASE ~CloseSessions(s) /\ ~JoinWorkers(s)
      BY <1>6, <2>3, <1>u DEF Stop, EnterStop, PublishShutdown, CloseBrowserListener,
                              StopServing, CloseListener, JoinAcceptor, Notify, JoinThreads
    <2> QED
      BY <2>1, <2>2, <2>3
  <1>7. ASSUME BrowserLoop \/ BrowserAccepts \/ SchedulerLoop \/ Signal \/ ReturnFromSignal
        PROVE WorkerInv'
    BY <1>7, <1>u DEF BrowserLoop, BrowserAccepts, SchedulerLoop, Signal, ReturnFromSignal
  <1>8. ASSUME NEW c \in Client, Dial(c) \/ HangUp(c) PROVE WorkerInv'
    BY <1>8, <1>t DEF Dial, HangUp, WorkerInv, WireType
  <1>9. CASE UNCHANGED vars
    BY <1>9, <1>u DEF vars
  <1> QED
    BY <1>1, <1>2, <1>3, <1>4, <1>5, <1>6, <1>7, <1>8, <1>9 DEF Next, Acceptor

LEMMA JoinedStep ==
    ASSUME TypeOK, ExchangeInv, ServingInv, WorkerInv, JoinedInv, [Next]_vars
    PROVE  JoinedInv'
  <1> USE DEF daemon, clients, wire, stops, StopLeavesNothing
  <1>t. ServerType /\ SessionType /\ WireType /\ StopType
    BY DEF TypeOK
  <1> DEFINE Joined(s) == stopper[s] \in {"join_workers", "notify", "join_browser",
                                          "join_scheduler", "done"}
             Left(s) == Joined(s) /\ stopper[s] # "join_workers"
             Quiet(c) == worker[c] \in {"none", "ended"} /\ conn[c] # "open"
  <1>j. JoinedInv <=> \A s \in Stopper : /\ Joined(s) => acceptor = "ended"
                                         /\ Left(s) => \A c \in Client : Quiet(c)
    BY DEF JoinedInv
  <1>k. JoinedInv' <=> \A s \in Stopper : /\ Joined(s)' => acceptor' = "ended"
                                          /\ Left(s)' => \A c \in Client : Quiet(c)'
    BY DEF JoinedInv
  <1> HIDE DEF StopLeavesNothing
  \* A step that lets no stopper pass a join, wakes no accept thread and no worker, and
  \* opens no connection.
  <1>q. ASSUME \A s \in Stopper : (Joined(s)' => Joined(s)) /\ (Left(s)' => Left(s)),
               acceptor = "ended" => acceptor' = "ended",
               acceptor = "ended" => \A c \in Client : Quiet(c) => Quiet(c)'
        PROVE JoinedInv'
    BY <1>q, <1>j, <1>k
  <1>r. ASSUME \A s \in Stopper : stopper'[s] = stopper[s] \/ stopper'[s] = "sleep",
               acceptor = "ended" => acceptor' = "ended",
               acceptor = "ended" => \A c \in Client : Quiet(c) => Quiet(c)'
        PROVE JoinedInv'
    BY <1>r, <1>q
  <1>1. ASSUME Main PROVE JoinedInv'
    BY <1>1, <1>r DEF Main, StartServer, ListenForBrowsers, StartThreads, CheckRunning, Block,
                      Destroy, WorkerInv
  <1>2. ASSUME Acceptor \/ AcceptError PROVE JoinedInv'
    BY <1>2, <1>r DEF Acceptor, AcceptError, AcceptLoop, AcceptClient, AcceptWakes, Admit
  <1>3. ASSUME NEW c \in Client, Worker(c) PROVE JoinedInv'
    <2>1. acceptor' = acceptor
      BY <1>3 DEF Worker, ServeLoop, ReadSome, NextFrame, Reply, CloseSession, EraseSession
    <2>2. \A s \in Stopper : stopper'[s] = stopper[s] \/ stopper'[s] = "sleep"
      BY <1>3, <1>t DEF Worker, ServeLoop, ReadSome, NextFrame, Handle, Reply, CloseSession,
                        EraseSession, StopType
    <2>3. ~Quiet(c)
      BY <1>3 DEF Worker, ServeLoop, ReadSome, NextFrame, Reply, CloseSession, EraseSession
    <2>4. \A d \in Client : d # c => worker'[d] = worker[d] /\ conn'[d] = conn[d]
      BY <1>3, <1>t DEF Worker, ServeLoop, ReadSome, NextFrame, Reply, CloseSession,
                        EraseSession, SessionType, WireType
    <2> QED
      BY <1>r, <2>1, <2>2, <2>3, <2>4
  <1>4. ASSUME NEW s \in Stopper, Stop(s) PROVE JoinedInv'
    <2> USE <1>t DEF Step, StopType
    <2>1. CASE JoinWorkers(s)
      <3>1. Joined(s) /\ acceptor' = "ended"
        BY <2>1, <1>j DEF JoinWorkers
      <3>2. \A c \in Client : worker[c] \in {"none", "ended"}
        BY <2>1 DEF JoinWorkers, WorkerInv
      <3>3. \A c \in Client : conn[c] # "open"
        BY <3>1, <3>2, <2>1 DEF JoinWorkers, WorkerInv
      <3> QED
        BY <2>1, <1>k, <3>1, <3>2, <3>3 DEF JoinWorkers
    <2>2. CASE JoinAcceptor(s)
      BY <2>2, <1>j, <1>k DEF JoinAcceptor
    <2>3. CASE StopServing(s)
      <3>1. serving
        BY <2>3 DEF StopServing, ServingInv
      <3> QED
        BY <2>3, <3>1, <1>q DEF StopServing
    <2>4. CASE CloseSessions(s)
      BY <2>4, <1>t, <1>q DEF CloseSessions, WireType
    <2>5. CASE EnterStop(s) \/ PublishShutdown(s) \/ CloseBrowserListener(s) \/ CloseListener(s)
      BY <2>5, <1>q DEF EnterStop, PublishShutdown, CloseBrowserListener, CloseListener
    <2>6. CASE Notify(s) \/ JoinThreads(s)
      BY <2>6, <1>q DEF Notify, JoinThreads
    <2> QED
      BY <1>4, <2>1, <2>2, <2>3, <2>4, <2>5, <2>6 DEF Stop
  <1>5. ASSUME BrowserLoop \/ BrowserAccepts \/ SchedulerLoop \/ ReturnFromSignal
        PROVE JoinedInv'
    BY <1>5, <1>r DEF BrowserLoop, BrowserAccepts, SchedulerLoop, ReturnFromSignal
  <1>6. ASSUME NEW c \in Client, Dial(c) \/ HangUp(c) PROVE JoinedInv'
    BY <1>6, <1>t, <1>r DEF Dial, HangUp, WireType
  <1>7. ASSUME Signal PROVE JoinedInv'
    BY <1>7, <1>t, <1>r DEF Signal, Step, StopType
  <1>8. CASE UNCHANGED vars
    BY <1>8, <1>r DEF vars
  <1> QED
    BY <1>1, <1>2, <1>3, <1>4, <1>5, <1>6, <1>7, <1>8 DEF Next

\* Once Server::stop has returned inside stop(), the accept thread and every worker have
\* ended and no connection is open, whoever was being admitted meanwhile.
THEOREM StopIsThorough == Spec => []StopLeavesNothing
  <1> DEFINE Inv == TypeOK /\ ExchangeInv /\ ServingInv /\ WorkerInv /\ JoinedInv
  <1>1. Init => Inv
    <2> HAVE Init
    <2>1. ServingInv
      BY DEF Init, ServingInv
    <2>2. WorkerInv
      BY DEF Init, WorkerInv
    <2>3. JoinedInv
      BY DEF Init, JoinedInv, StopLeavesNothing
    <2> QED
      BY <2>1, <2>2, <2>3, TypeInit, ExchangeInit
  <1>2. Inv /\ [Next]_vars => Inv'
    BY TypeStep, ExchangeStep, ServingStep, WorkerStep, JoinedStep
  <1>3. Inv => StopLeavesNothing
    BY DEF JoinedInv
  <1> QED
    BY <1>1, <1>2, <1>3, PTL DEF Spec

=============================================================================
