----------------------------- MODULE NativeHost -----------------------------
(***************************************************************************)
(* The link between a browser and the daemon: the extension's service      *)
(* worker (extension/background.js), which keeps one port to a native host *)
(* open; the native host process (src/browser/native_messaging.cpp), whose *)
(* two threads pump frames between its standard streams and the daemon's   *)
(* browser socket; and the daemon's end of that socket (serve_browser_host *)
(* in src/daemon/daemon.cpp, whose inbox TabBridge models).                *)
(*                                                                         *)
(* A message stands for its frame: Framing has the frames, and a read      *)
(* returns the whole ones there are.  An await in the worker is a pair of  *)
(* actions; what runs between two awaits is one.                           *)
(***************************************************************************)
EXTENDS Naturals, Sequences

CONSTANTS
    Host,        \* native host processes, each used again once it is gone
    Broken,      \* those that exit at once: no such file, or arguments main() refuses
    None,
    MaxConnects, \* bound on the calls of connect() suspended at once
    MaxJobs,     \* bound on the message handlers suspended at once
    MaxAsks      \* bound on the collect_tabs and restore_tabs of a connection

ASSUME HostAssumption ==
    /\ MaxConnects \in Nat \ {0, 1} /\ MaxJobs \in Nat /\ MaxAsks \in Nat
    /\ None \notin Host /\ Broken \subseteq Host

\* ask stands for every message the extension answers, a hello included; answer for what
\* the extension sends; error for what it only logs.  at is the place of the message in
\* what its sender has sent through this host; the host's own messages have 0.
Kind == {"ask", "answer", "error"}
Msg(kind, at) == [kind |-> kind, at |-> at]

VARIABLES
    \* the service worker: whether it is loaded, the setting, the globals port and
    \* reconnectTimer, the connect() calls and the message handlers suspended in an await
    worker, enabled, port, timer, connects, jobs,
    \* the browser's end of the standard streams of a host, and what is in them
    open, stdin, stdout,
    \* the process: its main thread, its inbound thread, running, the two FrameReaders,
    \* and its end of the socket
    main, inbound, running, outBuf, inBuf, link,
    \* the daemon: whether it is up, its end of each socket, and what is in it
    daemon, served, up, down,
    \* the number of messages posted on the port of a host and written on its socket
    posted, wrote

extension == <<worker, enabled, port, timer, connects, jobs>>
pipes     == <<open, stdin, stdout>>
process   == <<main, inbound, running, outBuf, inBuf, link>>
daemons   == <<daemon, served, up, down>>
history   == <<posted, wrote>>
vars      == <<extension, pipes, process, daemons, history>>

Append1(f, h, m) == [f EXCEPT ![h] = Append(@, m)]

-----------------------------------------------------------------------------
(* The native host process.                                                 *)

\* The process is gone: its streams and its socket are closed, and what it has not read is
\* lost.  The browser still reads what is in stdout.
Exit(h) ==
    /\ down' = [down EXCEPT ![h] = <<>>]
    /\ main' = [main EXCEPT ![h] = IF open[h] THEN "exited" ELSE "none"]
    /\ inbound' = [inbound EXCEPT ![h] = "none"]
    /\ link' = [link EXCEPT ![h] = FALSE]
    /\ inBuf' = [inBuf EXCEPT ![h] = <<>>]
    /\ outBuf' = [outBuf EXCEPT ![h] = <<>>]
    /\ running' = [running EXCEPT ![h] = FALSE]
    /\ stdin' = [stdin EXCEPT ![h] = <<>>]

\* A write on a closed stdout raises SIGPIPE, which the host does not handle.
Killed(h) == ~open[h] /\ Exit(h) /\ UNCHANGED stdout

\* run_native_host connects to the daemon, whose first message is its hello, or tells the
\* extension why it cannot.
ConnectDaemon(h) ==
    /\ main[h] = "connect" /\ daemon
    /\ link' = [link EXCEPT ![h] = TRUE]
    /\ served' = [served EXCEPT ![h] = TRUE]
    /\ down' = [down EXCEPT ![h] = <<Msg("ask", 1)>>]
    /\ wrote' = [wrote EXCEPT ![h] = 1]
    /\ main' = [main EXCEPT ![h] = "hello"]
    /\ UNCHANGED <<extension, pipes, inbound, running, outBuf, inBuf, daemon, up, posted>>

NoDaemon(h) ==
    /\ main[h] = "connect" /\ ~daemon
    /\ Exit(h)
    /\ stdout' = IF open[h] THEN Append1(stdout, h, Msg("error", 0)) ELSE stdout
    /\ UNCHANGED <<extension, open, daemon, served, up, history>>

\* The hello to the browser, then the one to the daemon, then the inbound thread.  Both
\* threads find running TRUE and go on to read.
Hello(h) ==
    /\ main[h] = "hello" /\ open[h] /\ served[h]
    /\ stdout' = Append1(stdout, h, Msg("ask", 0))
    /\ up' = Append1(up, h, Msg("answer", 0))
    /\ main' = [main EXCEPT ![h] = "read"]
    /\ inbound' = [inbound EXCEPT ![h] = "read"]
    /\ running' = [running EXCEPT ![h] = TRUE]
    /\ UNCHANGED <<extension, open, stdin, outBuf, inBuf, link, daemon, served, down, history>>

HelloFails(h) ==
    /\ main[h] = "hello" /\ (~open[h] \/ ~served[h])
    /\ Exit(h)
    /\ stdout' = IF open[h] THEN Append1(stdout, h, Msg("ask", 0)) ELSE stdout
    /\ UNCHANGED <<extension, open, daemon, served, up, history>>

\* The main thread joins without having closed the connection to the daemon.
MutOutEnds(h) ==
    /\ main' = [main EXCEPT ![h] = "join"]
    /\ running' = [running EXCEPT ![h] = FALSE]
    /\ outBuf' = [outBuf EXCEPT ![h] = <<>>]
    /\ down' = [down EXCEPT ![h] = <<>>]
    /\ UNCHANGED <<inbound, inBuf, link, daemon, served, up>>

\* pump(daemon, browser) on the main thread.  When it is over running is FALSE, and the
\* thread closes both connections - for stdio that is a flag nobody reads - and joins the
\* inbound thread.
OutEnds(h) ==
    /\ main' = [main EXCEPT ![h] = "join"]
    /\ running' = [running EXCEPT ![h] = FALSE]
    /\ link' = [link EXCEPT ![h] = FALSE]
    /\ outBuf' = [outBuf EXCEPT ![h] = <<>>]
    /\ down' = [down EXCEPT ![h] = <<>>]
    /\ UNCHANGED <<inbound, inBuf, daemon, served, up>>

OutRead(h) ==
    /\ main[h] = "read" /\ down[h] # <<>>
    /\ outBuf' = [outBuf EXCEPT ![h] = down[h]]
    /\ down' = [down EXCEPT ![h] = <<>>]
    /\ main' = [main EXCEPT ![h] = "write"]
    /\ UNCHANGED <<extension, pipes, inbound, running, inBuf, link, daemon, served, up, history>>

\* A read that starts again when the time is up, as it does when a signal interrupts it.
MutOutReadFails(h) ==
    /\ main[h] = "read" /\ down[h] = <<>> /\ ~served[h]
    /\ OutEnds(h)
    /\ UNCHANGED <<extension, pipes, history>>

\* The daemon has closed, or has written nothing for daemon_timeout: read_some fails with
\* Timeout, and any failure ends the pump.
OutReadFails(h) ==
    /\ main[h] = "read" /\ down[h] = <<>>
    /\ OutEnds(h)
    /\ UNCHANGED <<extension, pipes, history>>

\* After the last frame of a chunk the pump looks at running.
OutWrite(h) ==
    /\ main[h] = "write" /\ open[h]
    /\ stdout' = Append1(stdout, h, Head(outBuf[h]))
    /\ IF Len(outBuf[h]) = 1 /\ ~running[h] THEN OutEnds(h)
       ELSE /\ outBuf' = [outBuf EXCEPT ![h] = Tail(@)]
            /\ main' = [main EXCEPT ![h] = IF Len(outBuf[h]) = 1 THEN "read" ELSE @]
            /\ UNCHANGED <<inbound, running, inBuf, link, daemons>>
    /\ UNCHANGED <<extension, open, stdin, history>>

OutKilled(h) ==
    /\ main[h] = "write"
    /\ Killed(h)
    /\ UNCHANGED <<extension, open, daemon, served, up, history>>

\* A frame over max_message_bytes is a framing error, and the pump is over.
OutFraming(h) ==
    /\ main[h] = "write" /\ Head(outBuf[h]).at > 1
    /\ OutEnds(h)
    /\ UNCHANGED <<extension, pipes, history>>

\* pump(browser, daemon) on the inbound thread.  A read of stdin has no timeout.
InEnds(h) ==
    /\ inbound' = [inbound EXCEPT ![h] = "done"]
    /\ running' = [running EXCEPT ![h] = FALSE]
    /\ UNCHANGED <<main, outBuf, inBuf, link>>

InRead(h) ==
    /\ inbound[h] = "read" /\ stdin[h] # <<>>
    /\ inBuf' = [inBuf EXCEPT ![h] = stdin[h]]
    /\ stdin' = [stdin EXCEPT ![h] = <<>>]
    /\ inbound' = [inbound EXCEPT ![h] = "write"]
    /\ UNCHANGED <<extension, open, stdout, main, running, outBuf, link, daemons, history>>

InEof(h) ==
    /\ inbound[h] = "read" /\ stdin[h] = <<>> /\ ~open[h]
    /\ InEnds(h)
    /\ UNCHANGED <<extension, pipes, daemons, history>>

\* A reader that is made anew for every frame: the rest of the chunk goes with it.
MutInWrite(h) ==
    /\ inbound[h] = "write" /\ link[h] /\ served[h]
    /\ up' = Append1(up, h, Head(inBuf[h]))
    /\ inBuf' = [inBuf EXCEPT ![h] = <<>>]
    /\ inbound' = [inbound EXCEPT ![h] = IF running[h] THEN "read" ELSE "done"]
    /\ UNCHANGED <<extension, pipes, main, running, outBuf, link, daemon, served, down, history>>

InWrite(h) ==
    /\ inbound[h] = "write" /\ link[h] /\ served[h]
    /\ up' = Append1(up, h, Head(inBuf[h]))
    /\ inBuf' = [inBuf EXCEPT ![h] = Tail(@)]
    /\ inbound' = [inbound EXCEPT ![h] = IF Len(inBuf[h]) # 1 THEN @
                                         ELSE IF running[h] THEN "read" ELSE "done"]
    /\ UNCHANGED <<extension, pipes, main, running, outBuf, link, daemon, served, down, history>>

\* The socket is closed at either end, or the frame is too long.
InWriteFails(h) ==
    /\ inbound[h] = "write"
    /\ ~link[h] \/ ~served[h] \/ Head(inBuf[h]).at > 1
    /\ InEnds(h)
    /\ UNCHANGED <<extension, pipes, daemons, history>>

Join(h) ==
    /\ main[h] = "join" /\ inbound[h] = "done"
    /\ Exit(h)
    /\ UNCHANGED <<extension, open, stdout, daemon, served, up, history>>

Main(h) ==
    \/ ConnectDaemon(h) \/ NoDaemon(h) \/ Hello(h) \/ HelloFails(h)
    \/ OutRead(h) \/ OutReadFails(h) \/ OutWrite(h) \/ OutKilled(h)
    \/ OutFraming(h) \/ Join(h)

Inbound(h) ==
    InRead(h) \/ InEof(h) \/ InWrite(h) \/ InWriteFails(h)

-----------------------------------------------------------------------------
(* The daemon's end: serve_browser_host.                                    *)

\* Its loop takes what has come, and sends the requests of the inbox.
Hear(h) ==
    /\ served[h] /\ up[h] # <<>>
    /\ up' = [up EXCEPT ![h] = <<>>]
    /\ UNCHANGED <<extension, pipes, process, daemon, served, down, history>>

AskTabs(h) ==
    /\ served[h] /\ link[h] /\ wrote[h] <= MaxAsks
    /\ down' = Append1(down, h, Msg("ask", wrote[h] + 1))
    /\ wrote' = [wrote EXCEPT ![h] = @ + 1]
    /\ UNCHANGED <<extension, pipes, process, daemon, served, up, posted>>

\* The other end has closed: the host has exited, or its relay is over.
Unserve(h) ==
    /\ served[h] /\ ~link[h] /\ up[h] = <<>>
    /\ served' = [served EXCEPT ![h] = FALSE]
    /\ wrote' = [wrote EXCEPT ![h] = 0]
    /\ UNCHANGED <<extension, pipes, process, daemon, up, down, posted>>

\* The daemon stops or dies, and is started again.
DaemonStops ==
    /\ daemon
    /\ daemon' = FALSE
    /\ served' = [h \in Host |-> FALSE]
    /\ up' = [h \in Host |-> <<>>]
    /\ wrote' = [h \in Host |-> 0]
    /\ UNCHANGED <<extension, pipes, process, down, posted>>

DaemonStarts ==
    /\ ~daemon
    /\ daemon' = TRUE
    /\ UNCHANGED <<extension, pipes, process, served, up, down, history>>

Serving(h) == Hear(h) \/ Unserve(h)

-----------------------------------------------------------------------------
(* The extension's service worker.                                          *)

\* port.disconnect(), or the end of the worker: the browser closes its end of the streams
\* of h, and drops what it has not read.
Disconnect(h) ==
    /\ open' = [open EXCEPT ![h] = FALSE]
    /\ stdout' = [stdout EXCEPT ![h] = <<>>]
    /\ posted' = [posted EXCEPT ![h] = 0]
    /\ main' = [main EXCEPT ![h] = IF @ = "exited" THEN "none" ELSE @]

\* teardown closes the port there is and forgets it.
Teardown ==
    /\ port' = None
    /\ IF port = None THEN UNCHANGED <<open, stdout, posted, main>> ELSE Disconnect(port)

\* setTimeout, unless one is pending; the delay is left out.
ScheduleReconnect == timer' = TRUE

\* connect() runs up to the await of settings(): the alarm, the timer, a message of the
\* options page and the start of the worker call it.
CallConnect == connects < MaxConnects /\ connects' = connects + 1

\* The port is looked at before the await, and not again after it.
MutConnect(h) ==
    /\ worker /\ connects > 0 /\ enabled
    /\ main[h] = "none" /\ ~open[h] /\ ~served[h]
    /\ connects' = connects - 1
    /\ port' = h
    /\ open' = [open EXCEPT ![h] = TRUE]
    /\ main' = [main EXCEPT ![h] = IF h \in Broken THEN "exited" ELSE "connect"]
    /\ stdin' = [stdin EXCEPT ![h] = IF h \in Broken THEN <<>> ELSE <<Msg("answer", 1)>>]
    /\ posted' = [posted EXCEPT ![h] = 1]
    /\ UNCHANGED <<worker, enabled, timer, jobs, stdout, inbound, running, outBuf, inBuf, link,
                   daemons, wrote>>

\* connectNative starts a host, and the first message is posted on its port.
Connect(h) ==
    /\ worker /\ connects > 0 /\ enabled /\ port = None
    /\ main[h] = "none" /\ ~open[h] /\ ~served[h]
    /\ connects' = connects - 1
    /\ port' = h
    /\ open' = [open EXCEPT ![h] = TRUE]
    /\ main' = [main EXCEPT ![h] = IF h \in Broken THEN "exited" ELSE "connect"]
    /\ stdin' = [stdin EXCEPT ![h] = IF h \in Broken THEN <<>> ELSE <<Msg("answer", 1)>>]
    /\ posted' = [posted EXCEPT ![h] = 1]
    /\ UNCHANGED <<worker, enabled, timer, jobs, stdout, inbound, running, outBuf, inBuf, link,
                   daemons, wrote>>

ConnectThrows ==
    /\ worker /\ connects > 0 /\ enabled /\ port = None
    /\ connects' = connects - 1
    /\ ScheduleReconnect
    /\ UNCHANGED <<worker, enabled, port, jobs, pipes, process, daemons, history>>

\* Disabled, or there is a port: nothing to do.
ConnectReturns ==
    /\ worker /\ connects > 0
    /\ ~enabled \/ port # None
    /\ connects' = connects - 1
    /\ UNCHANGED <<worker, enabled, port, timer, jobs, pipes, process, daemons, history>>

TimerFires ==
    /\ worker /\ timer
    /\ timer' = FALSE
    /\ CallConnect
    /\ UNCHANGED <<worker, enabled, port, jobs, pipes, process, daemons, history>>

\* An unloaded worker is loaded for the alarm: its last line calls connect(), and so does
\* the listener.
Alarm ==
    /\ IF worker THEN CallConnect /\ UNCHANGED worker
                 ELSE worker' = TRUE /\ connects' = 2
    /\ UNCHANGED <<enabled, port, timer, jobs, pipes, process, daemons, history>>

\* "contextsnap:reconnect".
Reconnect ==
    /\ worker
    /\ CallConnect
    /\ Teardown
    /\ UNCHANGED <<worker, enabled, timer, jobs, stdin, inbound, running, outBuf, inBuf, link,
                   daemons, wrote>>

\* The browser unloads the worker: its globals, timers and suspended calls are gone, and
\* its port is closed.
Unload ==
    /\ worker
    /\ worker' = FALSE
    /\ timer' = FALSE /\ connects' = 0 /\ jobs' = 0
    /\ Teardown
    /\ UNCHANGED <<enabled, stdin, inbound, running, outBuf, inBuf, link, daemons, wrote>>

\* onMessage of the port of h: hello and the requests are answered after an await.
Receive(h) ==
    /\ worker /\ open[h] /\ stdout[h] # <<>> /\ jobs < MaxJobs
    /\ stdout' = [stdout EXCEPT ![h] = Tail(@)]
    /\ jobs' = jobs + (IF Head(stdout[h]).kind = "ask" THEN 1 ELSE 0)
    /\ UNCHANGED <<worker, enabled, port, timer, connects, open, stdin, process, daemons, history>>

\* An onDisconnect that leaves the dead port in place.
MutDisconnected(h) ==
    /\ worker /\ open[h] /\ main[h] = "exited" /\ stdout[h] = <<>>
    /\ Disconnect(h)
    /\ ScheduleReconnect
    /\ UNCHANGED <<worker, enabled, port, connects, jobs, stdin, inbound, running, outBuf, inBuf,
                   link, daemons, wrote>>

\* onDisconnect of the port of h, when its host has exited.
Disconnected(h) ==
    /\ worker /\ open[h] /\ main[h] = "exited" /\ stdout[h] = <<>>
    /\ Disconnect(h)
    /\ port' = None
    /\ ScheduleReconnect
    /\ UNCHANGED <<worker, enabled, connects, jobs, stdin, inbound, running, outBuf, inBuf, link,
                   daemons, wrote>>

\* A handler is through its awaits and sends its answer on the port there is now.
Answer ==
    /\ worker /\ jobs > 0 /\ (port # None => open[port])
    /\ jobs' = jobs - 1
    /\ IF port = None \/ main[port] = "exited"
       THEN UNCHANGED <<stdin, posted>>
       ELSE /\ stdin' = Append1(stdin, port, Msg("answer", posted[port] + 1))
            /\ posted' = [posted EXCEPT ![port] = @ + 1]
    /\ UNCHANGED <<worker, enabled, port, timer, connects, open, stdout, process, daemons, wrote>>

\* postMessage throws: the port is torn down, and no timer is set.
SendThrows ==
    /\ worker /\ jobs > 0 /\ port # None
    /\ jobs' = jobs - 1
    /\ Teardown
    /\ UNCHANGED <<worker, enabled, timer, connects, stdin, inbound, running, outBuf, inBuf, link,
                   daemons, wrote>>

Worker ==
    \/ ConnectReturns \/ TimerFires
    \/ \E h \in Host : Receive(h) \/ Disconnected(h)
    \/ Answer

-----------------------------------------------------------------------------
Init ==
    /\ worker = TRUE /\ enabled \in BOOLEAN /\ port = None /\ timer = FALSE
    /\ connects = 1 /\ jobs = 0
    /\ open = [h \in Host |-> FALSE]
    /\ main = [h \in Host |-> "none"] /\ inbound = [h \in Host |-> "none"]
    /\ running = [h \in Host |-> FALSE] /\ link = [h \in Host |-> FALSE]
    /\ daemon = TRUE /\ served = [h \in Host |-> FALSE]
    /\ LET empty == [h \in Host |-> <<>>]
       IN  /\ stdin = empty /\ stdout = empty /\ outBuf = empty /\ inBuf = empty
           /\ up = empty /\ down = empty
    /\ posted = [h \in Host |-> 0] /\ wrote = [h \in Host |-> 0]

Next ==
    \/ Worker
    \/ \E h \in Host : Main(h) \/ Inbound(h) \/ Serving(h) \/ AskTabs(h) \/ Connect(h)
    \/ ConnectThrows \/ Alarm \/ Reconnect \/ Unload
    \/ SendThrows
    \/ DaemonStops \/ DaemonStarts

Spec == Init /\ [][Next]_vars

\* Threads and handlers run, what the browser schedules happens, a read ends when its time
\* is up, and a browser that has the host starts it in the end.  Nothing makes the user,
\* the daemon's stop or start, or the unloading of the worker happen.
FairSpec ==
    /\ Spec
    /\ \A h \in Host : WF_vars(Receive(h) \/ Disconnected(h))
    /\ \A h \in Host \ Broken : WF_vars(Main(h)) /\ WF_vars(Inbound(h)) /\ WF_vars(Serving(h))
    /\ WF_vars(ConnectReturns) /\ WF_vars(Alarm) /\ WF_vars(Answer)
    /\ SF_vars(\E h \in Host : Connect(h))

-----------------------------------------------------------------------------
ExtensionType ==
    /\ worker \in BOOLEAN /\ enabled \in BOOLEAN /\ timer \in BOOLEAN
    /\ port \in Host \cup {None}
    /\ connects \in 0..MaxConnects /\ jobs \in 0..MaxJobs

Message == [kind: Kind, at: Nat]
Messages == Seq(Message)

PipeType ==
    open \in [Host -> BOOLEAN] /\ stdin \in [Host -> Messages] /\ stdout \in [Host -> Messages]

Label == {"none", "connect", "hello", "read", "write", "join", "exited"}

ProcessType ==
    /\ main \in [Host -> Label]
    /\ inbound \in [Host -> {"none", "read", "write", "done"}]
    /\ running \in [Host -> BOOLEAN] /\ link \in [Host -> BOOLEAN]
    /\ outBuf \in [Host -> Messages] /\ inBuf \in [Host -> Messages]

DaemonType ==
    /\ daemon \in BOOLEAN /\ served \in [Host -> BOOLEAN]
    /\ up \in [Host -> Messages] /\ down \in [Host -> Messages]

HistoryType == posted \in [Host -> Nat] /\ wrote \in [Host -> Nat]

Lifetimes ==
    \A h \in Host : /\ inbound[h] # "none" => main[h] \in {"read", "write", "join"}
                    /\ link[h] => main[h] \in {"hello", "read", "write"}
                    /\ main[h] = "write" => outBuf[h] # <<>>
                    /\ inbound[h] = "write" => inBuf[h] # <<>>

\* Types, and what lives within what: the inbound thread in a process that has one, the
\* connection to the daemon as long as the main thread pumps, and the rest of a chunk in a
\* thread that writes.
TypeOK ==
    /\ ExtensionType /\ PipeType /\ ProcessType /\ DaemonType /\ HistoryType
    /\ Lifetimes

\* connect() checks port after it has awaited the settings, so that the calls of the alarm,
\* the timer, the options page and the start of the worker, several of them suspended at
\* once, open one port between them: every open port is the one in the global.
OnePort == \A h \in Host : open[h] => port = h

\* What the relay's threads carry arrives unchanged and in order, the host's own hello
\* before anything of the extension or the daemon, whatever the chunks and the errors.
Consecutive(ms) == \A i \in 1..(Len(ms) - 1) : ms[i + 1].at = ms[i].at + 1
RelayInOrder ==
    \A h \in Host : /\ Consecutive(up[h] \o inBuf[h] \o stdin[h])
                    /\ Consecutive(stdout[h] \o outBuf[h] \o down[h])

\* A host whose browser has closed the port ends: its inbound thread sees the end of its
\* input, and the main thread, which may be reading from a quiet daemon, gets out of its
\* read when its time is up.
HostsEnd == \A h \in Host \ Broken : (main[h] # "none" /\ ~open[h]) ~> (main[h] = "none")

\* A worker whose port is gone, because the host exited or a post failed, has an open one
\* again in the end: onDisconnect forgets the dead port, or connect() would take it for one.
HasPort == \E h \in Host : port = h /\ open[h]
Reconnects == (worker /\ enabled /\ ~HasPort) ~> (HasPort \/ ~worker)

\* What the comment on the keepalive alarm says, that the daemon reaches the browser even
\* after a long idle period: a port whose relay is over does not stay the port.
ComesBack ==
    \A h \in Host : (port = h /\ main[h] = "join" /\ daemon)
                       ~> (port # h \/ main[h] # "join" \/ ~daemon)

-----------------------------------------------------------------------------
(* The inductive invariants behind the proofs.                              *)

\* Where the messages of the extension are on their way to the daemon, and the other way.
Upward(h)   == up[h] \o (inBuf[h] \o stdin[h])
Downward(h) == stdout[h] \o (outBuf[h] \o down[h])

EndsWith(ms, n) == ms # <<>> => ms[Len(ms)].at = n
StartsWith(ms, n) == ms # <<>> /\ ms[1].at = n

Saying(h) == main[h] \in {"connect", "hello"}

\* What is empty when: a new process finds nothing of the one before it, and a read nothing
\* of the chunk before.
EmptyAt(h) ==
    /\ ~served[h] => up[h] = <<>>
    /\ ~open[h] => stdout[h] = <<>>
    /\ ~link[h] => down[h] = <<>>
    /\ inbound[h] \in {"none", "read"} => inBuf[h] = <<>>
    /\ main[h] # "write" => outBuf[h] = <<>>
    /\ main[h] = "none" => ~open[h]
    /\ Saying(h) => up[h] = <<>> /\ stdout[h] = <<>>

\* The messages are consecutive, the last one is the last that was sent as long as its sender
\* can send another, and what waits for a process that says hello starts with the first.
UpAt(h) ==
    /\ Consecutive(Upward(h))
    /\ open[h] /\ main[h] # "exited" => EndsWith(Upward(h), posted[h])
    /\ open[h] /\ Saying(h) => StartsWith(stdin[h], 1)

DownAt(h) ==
    /\ Consecutive(Downward(h))
    /\ served[h] /\ link[h] => EndsWith(Downward(h), wrote[h])
    /\ main[h] = "hello" => StartsWith(down[h], 1)

EmptyInv == \A h \in Host : EmptyAt(h)
UpInv    == \A h \in Host : UpAt(h)
DownInv  == \A h \in Host : DownAt(h)
=============================================================================
