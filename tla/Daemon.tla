------------------------------- MODULE Daemon -------------------------------
(***************************************************************************)
(* The life of the daemon: its start, the RPC server with its accept loop  *)
(* and one worker thread per client, the browser and scheduler threads,    *)
(* and stop(), called from a detached thread by the Shutdown request or    *)
(* from a signal handler (src/ipc/server.cpp, src/daemon/daemon.cpp,       *)
(* src/daemon/main.cpp, src/ipc/transport_posix.cpp).                      *)
(*                                                                         *)
(* One action is one critical section of sessions_mutex_, one access to an *)
(* atomic flag, or one blocking call with what it returns.  What a handler *)
(* does is the subject of Repository and TabBridge; here it ends.  The     *)
(* host threads of the browser listener end within their 200 ms read       *)
(* timeout and are left out.                                               *)
(***************************************************************************)
EXTENDS Naturals, FiniteSets

CONSTANTS
    Client,        \* connections to the RPC endpoint, each used once
    None,
    MaxClients,    \* config ipc.max_clients
    MaxBatch,      \* bound on the frames one read brings in
    CloseWakes,    \* does closing a descriptor wake a thread blocked on it
    Scheduled,     \* is the scheduler on (no --no-scheduler)
    Signals        \* may SIGTERM arrive; it is delivered to the main thread

Handler == "signal"             \* the thread of control of handle_signal

Stopper == Client \cup {Handler}  \* a client's Shutdown starts the stopper of its name

ASSUME DaemonAssumption ==
    /\ MaxClients \in Nat /\ MaxBatch \in Nat \ {0}
    /\ CloseWakes \in BOOLEAN /\ Scheduled \in BOOLEAN /\ Signals \in BOOLEAN
    /\ IsFiniteSet(Client) /\ None \notin Client /\ Handler \notin Client

VARIABLES
    \* Daemon: running_, the state of browser_listener_, and where its threads are
    running, browsing, main, browser, scheduler,
    \* Server: running_, is listener_ open, the accept thread and the connection it holds
    serving, listening, acceptor, incoming,
    \* sessions_, worker_threads_, each session's flags and worker, the request it serves
    \* and the frames left in its reader
    sessions, worker_threads, active, subscribed, worker, request, backlog,
    \* both ends of the connections; a peer that has "left" has bytes nobody has read yet
    conn, peer,
    \* the threads of control in stop(), and whether a handler has interrupted main
    stopper, interrupted

daemon  == <<running, browsing, main, browser, scheduler>>
clients == <<sessions, worker_threads, active, subscribed, worker, request, backlog>>
wire    == <<conn, peer>>
stops   == <<stopper, interrupted>>
vars    == <<daemon, serving, listening, acceptor, incoming, clients, wire, stops>>

Alive == main \notin {"destroyed", "failed"}

-----------------------------------------------------------------------------
(* main: Daemon::start, run and the destructor.                             *)

MainRuns == Alive /\ ~interrupted

\* Storage, platform, bridge and the RPC listener; any of them may refuse.
StartServer ==
    /\ main = "start" /\ MainRuns
    /\ \/ /\ main' = "browser" /\ serving' = TRUE /\ listening' = TRUE /\ acceptor' = "check"
       \/ /\ main' = "failed" /\ UNCHANGED <<serving, listening, acceptor>>
    /\ UNCHANGED <<running, browsing, browser, scheduler, incoming, clients, wire, stops>>

\* The browser endpoint is optional.
ListenForBrowsers ==
    /\ main = "browser" /\ MainRuns
    /\ browsing' \in {"none", "open"}
    /\ main' = "ready"
    /\ UNCHANGED <<running, browser, scheduler, serving, listening, acceptor, incoming,
                   clients, wire, stops>>

StartThreads ==
    /\ main = "ready" /\ MainRuns
    /\ running' = TRUE
    /\ browser' = IF browsing = "open" THEN "check" ELSE "none"
    /\ scheduler' = IF Scheduled THEN "check" ELSE "none"
    /\ main' = "check"
    /\ UNCHANGED <<browsing, serving, listening, acceptor, incoming, clients, wire, stops>>

\* run(): wake_.wait reads running_ and then blocks.  stop() holds wake_mutex_ neither
\* when it clears running_ nor when it notifies, so it can do both in between.
CheckRunning ==
    /\ main = "check" /\ MainRuns
    /\ main' = IF running THEN "gap" ELSE "leave"
    /\ UNCHANGED <<running, browsing, browser, scheduler, serving, listening, acceptor,
                   incoming, clients, wire, stops>>

Block ==
    /\ main = "gap" /\ MainRuns
    /\ main' = "wait"
    /\ UNCHANGED <<running, browsing, browser, scheduler, serving, listening, acceptor,
                   incoming, clients, wire, stops>>

\* ~Daemon: its own stop() returns at once, because running_ is false, and the members go.
Destroy ==
    /\ main = "leave" /\ MainRuns
    /\ main' = "destroyed"
    /\ UNCHANGED <<running, browsing, browser, scheduler, serving, listening, acceptor,
                   incoming, clients, wire, stops>>

Main == StartServer \/ ListenForBrowsers \/ StartThreads \/ CheckRunning \/ Block \/ Destroy

-----------------------------------------------------------------------------
(* The accept thread.                                                       *)

\* accept_loop's condition, and accept()'s test of a listener closed meanwhile.
AcceptLoop ==
    /\ acceptor = "check" /\ Alive
    /\ acceptor' = IF serving /\ listening THEN "accept" ELSE "ended"
    /\ UNCHANGED <<daemon, serving, listening, incoming, clients, wire, stops>>

\* An accept that takes an error for a connection.
MutAcceptClient ==
    /\ acceptor = "accept" /\ Alive
    /\ acceptor' = "admit"
    /\ UNCHANGED <<daemon, serving, listening, incoming, clients, wire, stops>>

AcceptClient ==
    /\ acceptor = "accept" /\ Alive
    /\ \E c \in Client :
          /\ conn[c] = "dialing"
          /\ conn' = [conn EXCEPT ![c] = "open"]
          /\ incoming' = c
    /\ acceptor' = "admit"
    /\ UNCHANGED <<daemon, serving, listening, clients, peer, stops>>

\* The listener was closed under a blocked accept.  close() does not call shutdown(): on
\* some systems the blocked call comes back with an error, on others it stays.
AcceptWakes ==
    /\ acceptor = "accept" /\ Alive
    /\ ~listening /\ CloseWakes
    /\ acceptor' = "ended"
    /\ UNCHANGED <<daemon, serving, listening, incoming, clients, wire, stops>>

\* accept fails for another reason (no descriptors left): the loop ends, the server runs on.
AcceptError ==
    /\ acceptor = "accept" /\ Alive /\ listening
    /\ acceptor' = "ended"
    /\ UNCHANGED <<daemon, serving, listening, incoming, clients, wire, stops>>

\* An admission that lets one client too many in.
MutAdmit ==
    /\ acceptor = "admit" /\ Alive
    /\ \/ /\ conn' = [conn EXCEPT ![incoming] = "closed"]
          /\ UNCHANGED clients
       \/ /\ Cardinality(sessions) <= MaxClients
          /\ sessions' = sessions \cup {incoming}
          /\ worker_threads' = worker_threads \cup {incoming}
          /\ active' = [active EXCEPT ![incoming] = TRUE]
          /\ worker' = [worker EXCEPT ![incoming] = "check"]
          /\ UNCHANGED <<subscribed, request, backlog, conn>>
    /\ incoming' = None
    /\ acceptor' = "check"
    /\ UNCHANGED <<daemon, serving, listening, peer, stops>>

\* A peer of another user, or one client too many, is turned away; otherwise it gets a
\* session and a worker.  The reaping removes threads that are not joinable, and a thread
\* stays joinable until it is joined.
Admit ==
    /\ acceptor = "admit" /\ Alive
    /\ \/ /\ conn' = [conn EXCEPT ![incoming] = "closed"]
          /\ UNCHANGED clients
       \/ /\ Cardinality(sessions) < MaxClients
          /\ sessions' = sessions \cup {incoming}
          /\ worker_threads' = worker_threads \cup {incoming}
          /\ active' = [active EXCEPT ![incoming] = TRUE]
          /\ worker' = [worker EXCEPT ![incoming] = "check"]
          /\ UNCHANGED <<subscribed, request, backlog, conn>>
    /\ incoming' = None
    /\ acceptor' = "check"
    /\ UNCHANGED <<daemon, serving, listening, peer, stops>>

Acceptor == AcceptLoop \/ AcceptClient \/ AcceptWakes \/ Admit

-----------------------------------------------------------------------------
(* serve_client.                                                            *)

\* broadcast: an event for every active subscriber; one it cannot write to is dropped.
Broadcast ==
    LET targets == {c \in sessions : subscribed[c] /\ active[c]} IN
    \E failed \in SUBSET targets :
       /\ {c \in targets : conn[c] = "closed"} \subseteq failed
       /\ active' = [c \in Client |-> active[c] /\ c \notin failed]

\* The loop's condition, and read_some's test of a connection closed meanwhile.
ServeLoop(c) ==
    /\ worker[c] = "check" /\ Alive
    /\ worker' = [worker EXCEPT ![c] =
          IF serving /\ active[c] /\ conn[c] = "open" THEN "read" ELSE "closing"]
    /\ UNCHANGED <<daemon, serving, listening, acceptor, incoming, sessions, worker_threads,
                   active, subscribed, request, backlog, wire, stops>>

\* A read that takes the end of the stream for a timeout.
MutReadSome(c) ==
    /\ worker[c] = "read" /\ Alive
    /\ \/ /\ peer[c] \in {"up", "left"}
          /\ \E n \in 0..MaxBatch : backlog' = [backlog EXCEPT ![c] = n]
          /\ peer' = [peer EXCEPT ![c] = IF @ = "left" THEN "gone" ELSE @]
          /\ worker' = [worker EXCEPT ![c] = "frames"]
       \/ worker' = [worker EXCEPT ![c] = "check"] /\ UNCHANGED <<backlog, peer>>
    /\ UNCHANGED <<daemon, serving, listening, acceptor, incoming, sessions, worker_threads,
                   active, subscribed, request, conn, stops>>

\* read_some: bytes that complete some frames, the idle timeout, the end of the stream, or
\* the error of a descriptor that stop() closed.
ReadSome(c) ==
    /\ worker[c] = "read" /\ Alive
    /\ \/ /\ peer[c] \in {"up", "left"}
          /\ \E n \in 0..MaxBatch : backlog' = [backlog EXCEPT ![c] = n]
          /\ peer' = [peer EXCEPT ![c] = IF @ = "left" THEN "gone" ELSE @]
          /\ worker' = [worker EXCEPT ![c] = "frames"]
       \/ /\ peer[c] = "up"
          /\ worker' = [worker EXCEPT ![c] = "check"]
          /\ UNCHANGED <<backlog, peer>>
       \/ /\ peer[c] = "gone" \/ (conn[c] = "closed" /\ CloseWakes)
          /\ worker' = [worker EXCEPT ![c] = "closing"]
          /\ UNCHANGED <<backlog, peer>>
    /\ UNCHANGED <<daemon, serving, listening, acceptor, incoming, sessions, worker_threads,
                   active, subscribed, request, conn, stops>>

\* A request of the reader, with all that its handler does to the server: Subscribe marks
\* the session, Shutdown starts a detached thread, the others publish what they did.
Handle(c, r) ==
    /\ request' = [request EXCEPT ![c] = r]
    /\ \/ r = "subscribe" /\ subscribed' = [subscribed EXCEPT ![c] = TRUE]
          /\ UNCHANGED <<active, stopper>>
       \/ r = "shutdown" /\ stopper' = [stopper EXCEPT ![c] = IF @ = "none" THEN "sleep" ELSE @]
          /\ UNCHANGED <<active, subscribed>>
       \/ r = "call" /\ Broadcast
          /\ UNCHANGED <<subscribed, stopper>>

\* The frames of one read are served without a look at running_: a request, a framing
\* error, which drops the client, or one that is not a request, which is answered and
\* passed over.
NextFrame(c) ==
    /\ worker[c] = "frames" /\ Alive
    /\ \/ /\ backlog[c] = 0
          /\ worker' = [worker EXCEPT ![c] = "check"]
          /\ UNCHANGED <<active, subscribed, request, backlog, stopper>>
       \/ /\ backlog[c] > 0
          /\ \E r \in {"call", "subscribe", "shutdown"} : Handle(c, r)
          /\ backlog' = [backlog EXCEPT ![c] = @ - 1]
          /\ worker' = [worker EXCEPT ![c] = "reply"]
       \/ /\ active' = [active EXCEPT ![c] = FALSE]
          /\ backlog' = [backlog EXCEPT ![c] = 0]
          /\ worker' = [worker EXCEPT ![c] = "check"]
          /\ UNCHANGED <<subscribed, request, stopper>>
       \/ /\ backlog[c] > 0
          /\ backlog' = [backlog EXCEPT ![c] = @ - 1]
          /\ UNCHANGED <<worker, active, subscribed, request, stopper>>
    /\ UNCHANGED <<daemon, serving, listening, acceptor, incoming, sessions, worker_threads,
                   wire, interrupted>>

\* The response; when it cannot be written the session is dropped (a Subscribe's
\* acknowledgement is not looked at).
Reply(c) ==
    /\ worker[c] = "reply" /\ Alive
    /\ \/ /\ conn[c] = "open" \/ request[c] = "subscribe"
          /\ worker' = [worker EXCEPT ![c] = "frames"]
          /\ UNCHANGED <<active, backlog>>
       \/ /\ request[c] # "subscribe"
          /\ active' = [active EXCEPT ![c] = FALSE]
          /\ backlog' = [backlog EXCEPT ![c] = 0]
          /\ worker' = [worker EXCEPT ![c] = "check"]
    /\ request' = [request EXCEPT ![c] = "none"]
    /\ UNCHANGED <<daemon, serving, listening, acceptor, incoming, sessions, worker_threads,
                   subscribed, wire, stops>>

CloseSession(c) ==
    /\ worker[c] = "closing" /\ Alive
    /\ active' = [active EXCEPT ![c] = FALSE]
    /\ conn' = [conn EXCEPT ![c] = "closed"]
    /\ worker' = [worker EXCEPT ![c] = "erase"]
    /\ UNCHANGED <<daemon, serving, listening, acceptor, incoming, sessions, worker_threads,
                   subscribed, request, backlog, peer, stops>>

EraseSession(c) ==
    /\ worker[c] = "erase" /\ Alive
    /\ sessions' = sessions \ {c}
    /\ worker' = [worker EXCEPT ![c] = "ended"]
    /\ UNCHANGED <<daemon, serving, listening, acceptor, incoming, worker_threads, active,
                   subscribed, request, backlog, wire, stops>>

Worker(c) == \/ ServeLoop(c) \/ ReadSome(c) \/ NextFrame(c) \/ Reply(c)
             \/ CloseSession(c) \/ EraseSession(c)
-----------------------------------------------------------------------------
(* stop(), by the detached thread of a Shutdown request or in a handler.    *)

Step(s, l) == stopper' = [stopper EXCEPT ![s] = l]

\* The stop body from running_.exchange on.
Stopping(s) == stopper[s] \notin {"none", "sleep", "skipped", "done"}

\* Daemon::stop: running_.exchange(false); only the caller that found it true goes on.
EnterStop(s) ==
    /\ stopper[s] = "sleep" /\ Alive
    /\ running' = FALSE
    /\ Step(s, IF running THEN "publish" ELSE "skipped")
    /\ UNCHANGED <<browsing, main, browser, scheduler, serving, listening, acceptor, incoming,
                   clients, wire, interrupted>>

PublishShutdown(s) ==
    /\ stopper[s] = "publish" /\ Alive
    /\ Broadcast
    /\ Step(s, "browsers")
    /\ UNCHANGED <<daemon, serving, listening, acceptor, incoming, sessions, worker_threads,
                   subscribed, worker, request, backlog, wire, interrupted>>

CloseBrowserListener(s) ==
    /\ stopper[s] = "browsers" /\ Alive
    /\ browsing' = IF browsing = "open" THEN "closed" ELSE browsing
    /\ Step(s, "server")
    /\ UNCHANGED <<running, main, browser, scheduler, serving, listening, acceptor, incoming,
                   clients, wire, interrupted>>

\* Server::stop: clears its running_, then closes the listener and unlinks its path.
StopServing(s) ==
    /\ stopper[s] = "server" /\ Alive
    /\ serving' = FALSE
    /\ Step(s, IF serving THEN "close" ELSE "notify")
    /\ UNCHANGED <<daemon, listening, acceptor, incoming, clients, wire, interrupted>>

CloseListener(s) ==
    /\ stopper[s] = "close" /\ Alive
    /\ listening' = FALSE
    /\ Step(s, "sessions")
    /\ UNCHANGED <<daemon, serving, acceptor, incoming, clients, wire, interrupted>>

CloseSessions(s) ==
    /\ stopper[s] = "sessions" /\ Alive
    /\ active' = [c \in Client |-> active[c] /\ c \notin sessions]
    /\ conn' = [c \in Client |-> IF c \in sessions THEN "closed" ELSE conn[c]]
    /\ Step(s, "join_acceptor")
    /\ UNCHANGED <<daemon, serving, listening, acceptor, incoming, sessions, worker_threads,
                   subscribed, worker, request, backlog, peer, interrupted>>

\* A stop that does not wait for the accept thread.
MutJoinAcceptor(s) ==
    /\ stopper[s] = "join_acceptor" /\ Alive
    /\ Step(s, "join_workers")
    /\ UNCHANGED <<daemon, serving, listening, acceptor, incoming, clients, wire, interrupted>>

JoinAcceptor(s) ==
    /\ stopper[s] = "join_acceptor" /\ Alive
    /\ acceptor = "ended"
    /\ Step(s, "join_workers")
    /\ UNCHANGED <<daemon, serving, listening, acceptor, incoming, clients, wire, interrupted>>

JoinWorkers(s) ==
    /\ stopper[s] = "join_workers" /\ Alive
    /\ \A c \in worker_threads : worker[c] = "ended"
    /\ worker_threads' = {} /\ sessions' = {}
    /\ Step(s, "notify")
    /\ UNCHANGED <<daemon, serving, listening, acceptor, incoming, active, subscribed, worker,
                   request, backlog, wire, interrupted>>

\* wake_.notify_all reaches only who waits.
Notify(s) ==
    /\ stopper[s] = "notify" /\ Alive
    /\ main' = IF main = "wait" THEN "check" ELSE main
    /\ Step(s, "join_browser")
    /\ UNCHANGED <<running, browsing, browser, scheduler, serving, listening, acceptor,
                   incoming, clients, wire, interrupted>>

JoinThreads(s) ==
    /\ Alive
    /\ \/ stopper[s] = "join_browser" /\ browser \in {"none", "ended"} /\ Step(s, "join_scheduler")
       \/ stopper[s] = "join_scheduler" /\ scheduler \in {"none", "ended"} /\ Step(s, "done")
    /\ UNCHANGED <<daemon, serving, listening, acceptor, incoming, clients, wire, interrupted>>

\* The main thread goes on when its handler returns.
ReturnFromSignal ==
    /\ interrupted /\ stopper[Handler] \in {"skipped", "done"} /\ Alive
    /\ interrupted' = FALSE
    /\ UNCHANGED <<daemon, serving, listening, acceptor, incoming, clients, wire, stopper>>

Stop(s) ==
    \/ EnterStop(s) \/ PublishShutdown(s) \/ CloseBrowserListener(s) \/ StopServing(s)
    \/ CloseListener(s) \/ CloseSessions(s) \/ JoinAcceptor(s) \/ JoinWorkers(s)
    \/ Notify(s) \/ JoinThreads(s)

-----------------------------------------------------------------------------
(* The browser and scheduler threads.                                       *)

\* A loop that retries on errors whether the daemon runs or not.
MutBrowserLoop ==
    /\ Alive
    /\ \/ browser = "check" /\ browser' = "accept"
       \/ browser = "accept" /\ browsing = "closed" /\ CloseWakes /\ browser' = "check"
    /\ UNCHANGED <<running, browsing, main, scheduler, serving, listening, acceptor, incoming,
                   clients, wire, stops>>

\* browser_loop retries on errors for as long as the daemon runs.
BrowserLoop ==
    /\ Alive
    /\ \/ browser = "check" /\ browser' = IF running THEN "accept" ELSE "ended"
       \/ browser = "accept" /\ browsing = "closed" /\ CloseWakes /\ browser' = "check"
    /\ UNCHANGED <<running, browsing, main, scheduler, serving, listening, acceptor, incoming,
                   clients, wire, stops>>

\* A native host connects; its own thread is TabBridge's.
BrowserAccepts ==
    /\ browser = "accept" /\ browsing = "open" /\ Alive
    /\ browser' = "check"
    /\ UNCHANGED <<running, browsing, main, scheduler, serving, listening, acceptor, incoming,
                   clients, wire, stops>>

\* The scheduler comes back from wait_for every 60 s, notified or not, and publishes the
\* capture it makes if one is due.
SchedulerLoop ==
    /\ Alive
    /\ \/ /\ scheduler = "check" /\ scheduler' = IF running THEN "wait" ELSE "ended"
          /\ UNCHANGED active
       \/ /\ scheduler = "wait" /\ scheduler' = "check"
          /\ UNCHANGED active \/ (running /\ Broadcast)
    /\ UNCHANGED <<running, browsing, main, browser, serving, listening, acceptor, incoming,
                   sessions, worker_threads, subscribed, worker, request, backlog, wire, stops>>

-----------------------------------------------------------------------------
(* The environment.                                                         *)

Dial(c) ==
    /\ conn[c] = "none" /\ listening
    /\ conn' = [conn EXCEPT ![c] = "dialing"]
    /\ peer' = [peer EXCEPT ![c] = "up"]
    /\ UNCHANGED <<daemon, serving, listening, acceptor, incoming, clients, stops>>

HangUp(c) ==
    /\ peer[c] = "up"
    /\ \E p \in {"left", "gone"} : peer' = [peer EXCEPT ![c] = p]
    /\ UNCHANGED <<daemon, serving, listening, acceptor, incoming, clients, conn, stops>>

\* SIGTERM, once: handle_signal runs stop() on top of what the main thread was doing.
Signal ==
    /\ Signals /\ stopper[Handler] = "none" /\ Alive
    /\ Step(Handler, "sleep")
    /\ interrupted' = TRUE
    /\ UNCHANGED <<daemon, serving, listening, acceptor, incoming, clients, wire>>

Init ==
    /\ running = FALSE /\ browsing = "none" /\ main = "start"
    /\ browser = "none" /\ scheduler = "none"
    /\ serving = FALSE /\ listening = FALSE /\ acceptor = "none" /\ incoming = None
    /\ sessions = {} /\ worker_threads = {}
    /\ active = [c \in Client |-> FALSE] /\ subscribed = [c \in Client |-> FALSE]
    /\ worker = [c \in Client |-> "none"] /\ request = [c \in Client |-> "none"]
    /\ conn = [c \in Client |-> "none"] /\ peer = [c \in Client |-> "none"]
    /\ backlog = [c \in Client |-> 0]
    /\ stopper = [s \in Stopper |-> "none"] /\ interrupted = FALSE

Next ==
    \/ Main \/ Acceptor \/ AcceptError \/ BrowserLoop \/ BrowserAccepts \/ SchedulerLoop
    \/ Signal \/ ReturnFromSignal
    \/ \E c \in Client : Worker(c) \/ Dial(c) \/ HangUp(c)
    \/ \E s \in Stopper : Stop(s)

Spec == Init /\ [][Next]_vars

\* Every thread of the daemon is scheduled and every timeout expires.  Nothing is assumed
\* of the clients.
FairSpec ==
    /\ Spec /\ WF_vars(Main) /\ WF_vars(Acceptor) /\ WF_vars(BrowserLoop)
    /\ WF_vars(SchedulerLoop) /\ WF_vars(ReturnFromSignal)
    /\ \A c \in Client : WF_vars(Worker(c))
    /\ \A s \in Stopper : WF_vars(Stop(s))

-----------------------------------------------------------------------------
(* Properties.                                                              *)

DaemonType ==
    /\ running \in BOOLEAN
    /\ browsing \in {"none", "open", "closed"}
    /\ main \in {"start", "browser", "ready", "check", "gap", "wait", "leave", "destroyed",
                 "failed"}
    /\ browser \in {"none", "check", "accept", "ended"}
    /\ scheduler \in {"none", "check", "wait", "ended"}

ServerType ==
    /\ serving \in BOOLEAN /\ listening \in BOOLEAN
    /\ acceptor \in {"none", "check", "accept", "admit", "ended"}
    /\ incoming \in Client \cup {None}
    /\ acceptor = "admit" => incoming \in Client

SessionType ==
    /\ sessions \subseteq Client /\ worker_threads \subseteq Client
    /\ active \in [Client -> BOOLEAN] /\ subscribed \in [Client -> BOOLEAN]
    /\ worker \in [Client -> {"none", "check", "read", "frames", "reply", "closing", "erase",
                              "ended"}]
    /\ request \in [Client -> {"none", "call", "subscribe", "shutdown"}]
    /\ backlog \in [Client -> Nat]

WireType ==
    /\ conn \in [Client -> {"none", "dialing", "open", "closed"}]
    /\ peer \in [Client -> {"none", "up", "left", "gone"}]

StopType ==
    /\ stopper \in [Stopper -> {"none", "sleep", "publish", "browsers", "server", "close",
                                "sessions", "join_acceptor", "join_workers", "notify",
                                "join_browser", "join_scheduler", "skipped", "done"}]
    /\ interrupted \in BOOLEAN

\* The type invariant of the daemon and its threads: an admission has a connection.
TypeOK == DaemonType /\ ServerType /\ SessionType /\ WireType /\ StopType

\* The server never serves more than ipc.max_clients at a time, though sessions come and
\* go on other threads between the count and the push (accept_loop).
ClientLimit == Cardinality(sessions) <= MaxClients

\* However many Shutdown requests and signals arrive together, one of them runs the body
\* of stop(): no thread is joined twice and no listener closed twice.
OneStops == \A r, s \in Stopper : Stopping(r) /\ Stopping(s) => r = s

\* Once Server::stop is through, no worker is left to run a handler and no connection is
\* open, though a client may have been accepted while the sessions were being closed.
StopLeavesNothing ==
    \A s \in Stopper :
        stopper[s] \in {"notify", "join_browser", "join_scheduler", "done"} =>
            /\ acceptor = "ended"
            /\ \A c \in Client : worker[c] \in {"none", "ended"} /\ conn[c] # "open"

\* stop() returns, or the process is gone before it does.
StopCompletes ==
    \A s \in Stopper : stopper[s] = "sleep" ~> stopper[s] \in {"skipped", "done"} \/ ~Alive

\* A client that hangs up gives its slot back.
SlotsComeBack ==
    \A c \in Client :
        c \in sessions /\ peer[c] \in {"left", "gone"} ~> c \notin sessions \/ ~Alive

\* run() returns once stop() has been called.
RunReturns == \A s \in Stopper : Stopping(s) ~> ~Alive

\* A Shutdown or a signal that stop() has taken leaves the daemon stopped.
ShutdownSticks == \A s \in Stopper : stopper[s] = "skipped" => ~running

\* The Daemon is destroyed only when no thread can use it any more.
DestroyedWhenQuiet ==
    main = "destroyed" =>
        /\ \A s \in Stopper : ~Stopping(s)
        /\ \A c \in Client : worker[c] \in {"none", "ended"}
        /\ browser \in {"none", "ended"} /\ scheduler \in {"none", "ended"}

\* The client that asks for a shutdown is answered before the daemon stops.
ReplyFirst ==
    \A c \in Client : Stopping(c) => ~(worker[c] = "reply" /\ request[c] = "shutdown")

\* Accepting a client forgets the worker threads that have finished.
ThreadsReaped ==
    [][acceptor = "admit" /\ worker_threads' # worker_threads
       => \A c \in worker_threads' : worker[c] # "ended"]_vars

-----------------------------------------------------------------------------
(* The inductive invariants behind the proofs.                              *)

\* The caller of stop() that won running_.exchange, for ever after.
Began(s) == Stopping(s) \/ stopper[s] = "done"

\* start() has not set running_ yet.
Starting == main \in {"start", "browser", "ready"}

\* The exchange has one winner: running_ is set once, when nobody has won, and cleared
\* with the first win.
ExchangeInv ==
    /\ \A r, s \in Stopper : Began(r) /\ Began(s) => r = s
    /\ running \/ Starting => \A s \in Stopper : ~Began(s)
    /\ Starting => ~running

\* The server serves until the winner comes to Server::stop, which therefore never
\* returns at its own exchange without having waited for anybody.
ServingInv ==
    /\ running \/ main \in {"browser", "ready"} => serving
    /\ \A s \in Stopper : stopper[s] \in {"publish", "browsers", "server"} => serving

\* A live worker has its thread in worker_threads_, and an open connection a worker that
\* will close it or an admission that will decide on it, which takes an accept thread.
WorkerInv ==
    /\ main = "start" => acceptor = "none"
    /\ \A c \in Client : worker[c] \notin {"none", "ended"} => c \in worker_threads
    /\ \A c \in Client : conn[c] = "open" =>
          \/ worker[c] \in {"check", "read", "frames", "reply", "closing"}
          \/ acceptor = "admit" /\ incoming = c

\* Behind the join of the accept thread nobody admits clients any more.
JoinedInv ==
    /\ \A s \in Stopper : stopper[s] = "join_workers" => acceptor = "ended"
    /\ StopLeavesNothing
=============================================================================
