----------------------------- MODULE TabBridge -----------------------------
(***************************************************************************)
(* The tab inbox (src/browser/bridge.cpp), the daemon's serve_browser_host *)
(* threads that feed and drain it (src/daemon/daemon.cpp), the captures    *)
(* and restores that wait on it with a deadline (HostBridge), and the      *)
(* extension at the other end of each native host (extension/background.js)*)
(*                                                                         *)
(* One action is one inbox call: each holds State::mutex from start to     *)
(* end.  A wait_for is two actions, the wake-up with its predicate true    *)
(* and the deadline with its predicate false.  The relay process copies    *)
(* frames in order and is part of the channels.                            *)
(***************************************************************************)
EXTENDS Naturals, Sequences, FiniteSets

CONSTANTS
    Host,         \* native host connections, "host-0", "host-1", ... each used once
    Caller,       \* daemon threads that capture or restore
    None,
    Profile,      \* Profile[h]: the profile the extension behind h reports
    MaxCaptures,  \* bound on the captures of a behaviour
    MaxRestores,  \* bound on the restore requests of a behaviour
    MaxTabs       \* bound on the tabs an extension reports as restored

ASSUME BridgeAssumption ==
    /\ MaxCaptures \in Nat /\ MaxRestores \in Nat /\ MaxTabs \in Nat
    /\ DOMAIN Profile = Host
    /\ None \notin Nat
    /\ IsFiniteSet(Caller)

Request == 1..MaxRestores

\* A browser window with its tabs; at is the number of captures begun when the extension
\* collected it, and tells an old collection from one made for the capture at hand.  The
\* order of the windows and their repetition are left out: tabs is a set of them.
Window == [from: Host, profile: {Profile[h] : h \in Host}, at: 0..MaxCaptures]

Message == [type: {"hello"}] \cup [type: {"tabs"}, windows: SUBSET Window]
           \cup [type: {"ack"}, id: Request, count: 0..MaxTabs]

VARIABLES
    \* inbox::State
    tabs, tabs_fresh, collection_requested, restores, results, counter,
    \* HostBridge::connections_
    connections,
    \* the serve_browser_host threads
    loop,
    \* the extensions and the channels to and from them
    port, asked, work, replies,
    \* the threads in capture_tabs and restore_tabs
    pc, ticket, since,
    \* history: captures begun, publications, successful takes, the times a request's
    \* tabs were opened and the count its extension reported, the answer of a restore
    captures, publications, takes, opened, reported, answer

inbox   == <<tabs, tabs_fresh, collection_requested, restores, results, counter>>
ends    == <<port, asked, work, replies>>
callers == <<pc, ticket, since, answer>>
history == <<captures, publications, takes, opened, reported>>
vars    == <<inbox, connections, loop, ends, callers, history>>

Goto(c, l) == pc' = [pc EXCEPT ![c] = l]

-----------------------------------------------------------------------------
(* HostBridge::capture_tabs.                                                *)

\* Without a connected host capture_tabs goes to the session files and leaves the inbox
\* alone; that path has no state here.
StartCapture(c) ==
    /\ pc[c] = "idle" /\ captures < MaxCaptures
    /\ connections # {}
    /\ captures' = captures + 1
    /\ since' = [since EXCEPT ![c] = captures + 1]
    /\ Goto(c, "take")
    /\ UNCHANGED <<inbox, connections, loop, ends, ticket, answer, publications, takes,
                   opened, reported>>

\* take_tabs raises the request flag and waits.
TakeTabs(c) ==
    /\ pc[c] = "take"
    /\ collection_requested' = TRUE
    /\ Goto(c, "tabs")
    /\ UNCHANGED <<tabs, tabs_fresh, restores, results, counter, connections, loop, ends,
                   ticket, since, answer, history>>

\* It returns everything in the inbox, and leaves it there.
TakeFresh(c) ==
    /\ pc[c] = "tabs" /\ tabs_fresh
    /\ tabs_fresh' = FALSE
    /\ takes' = takes + 1
    /\ since' = [since EXCEPT ![c] = 0]
    /\ Goto(c, "idle")
    /\ UNCHANGED <<tabs, collection_requested, restores, results, counter, connections,
                   loop, ends, ticket, answer, captures, publications, opened, reported>>

\* The deadline: no tabs, and the request flag stays as it is.
TakeTimeout(c) ==
    /\ pc[c] = "tabs" /\ ~tabs_fresh
    /\ since' = [since EXCEPT ![c] = 0]
    /\ Goto(c, "idle")
    /\ UNCHANGED <<inbox, connections, loop, ends, ticket, answer, history>>

-----------------------------------------------------------------------------
(* HostBridge::restore_tabs.                                                *)

Enqueuing == {c \in Caller : pc[c] = "enqueue"}

StartRestore(c) ==
    /\ pc[c] = "idle"
    /\ connections # {}
    /\ counter + Cardinality(Enqueuing) < MaxRestores
    /\ Goto(c, "enqueue")
    /\ UNCHANGED <<inbox, connections, loop, ends, ticket, since, answer, history>>

\* An id taken before the counter is bumped.
MutEnqueueRestore(c) ==
    /\ pc[c] = "enqueue"
    /\ counter' = counter + 1
    /\ restores' = Append(restores, counter)
    /\ ticket' = [ticket EXCEPT ![c] = counter]
    /\ Goto(c, "result")
    /\ UNCHANGED <<tabs, tabs_fresh, collection_requested, results, connections, loop,
                   ends, since, answer, history>>

EnqueueRestore(c) ==
    /\ pc[c] = "enqueue"
    /\ counter' = counter + 1
    /\ restores' = Append(restores, counter + 1)
    /\ ticket' = [ticket EXCEPT ![c] = counter + 1]
    /\ Goto(c, "result")
    /\ UNCHANGED <<tabs, tabs_fresh, collection_requested, results, connections, loop,
                   ends, since, answer, history>>

\* A wait that wakes for any result.
MutRestoreResult(c) ==
    /\ pc[c] = "result"
    /\ \E r \in Request :
          /\ results[r] # None
          /\ answer' = [answer EXCEPT ![c] = results[r]]
          /\ results' = [results EXCEPT ![r] = None]
    /\ ticket' = [ticket EXCEPT ![c] = 0]
    /\ Goto(c, "idle")
    /\ UNCHANGED <<tabs, tabs_fresh, collection_requested, restores, counter, connections,
                   loop, ends, since, history>>

\* restore_result: the acknowledged count, erased once read.  A count of 0 is answered
\* like a missing acknowledgement.
RestoreResult(c) ==
    /\ pc[c] = "result" /\ results[ticket[c]] # None
    /\ answer' = [answer EXCEPT ![c] = results[ticket[c]]]
    /\ results' = [results EXCEPT ![ticket[c]] = None]
    /\ ticket' = [ticket EXCEPT ![c] = 0]
    /\ Goto(c, "idle")
    /\ UNCHANGED <<tabs, tabs_fresh, collection_requested, restores, counter, connections,
                   loop, ends, since, history>>

\* A wait that gives up only when every host is gone.
MutRestoreTimeout(c) ==
    /\ pc[c] = "result" /\ results[ticket[c]] = None /\ connections = {}
    /\ answer' = [answer EXCEPT ![c] = 0]
    /\ ticket' = [ticket EXCEPT ![c] = 0]
    /\ Goto(c, "idle")
    /\ UNCHANGED <<inbox, connections, loop, ends, since, history>>

\* The deadline: an error, and the request stays wherever it is.
RestoreTimeout(c) ==
    /\ pc[c] = "result" /\ results[ticket[c]] = None
    /\ answer' = [answer EXCEPT ![c] = 0]
    /\ ticket' = [ticket EXCEPT ![c] = 0]
    /\ Goto(c, "idle")
    /\ UNCHANGED <<inbox, connections, loop, ends, since, history>>

-----------------------------------------------------------------------------
(* serve_browser_host.                                                      *)

Loop(h, l) == loop' = [loop EXCEPT ![h] = l]

\* browser_loop accepts the connection.  The relay says hello first, with no browser in
\* it, and the extension says hello after it.
Accept(h) ==
    /\ loop[h] = "none"
    /\ Loop(h, "read")
    /\ port' = [port EXCEPT ![h] = TRUE]
    /\ replies' = [replies EXCEPT ![h] = <<[type |-> "hello"], [type |-> "hello"]>>]
    /\ UNCHANGED <<inbox, connections, asked, work, callers, history>>

\* publish_tabs drops the windows whose profile is the connection's id, then appends.
PublishTabs(h, windows) ==
    /\ tabs' = {w \in tabs : w.profile # h} \cup windows
    /\ tabs_fresh' = TRUE
    /\ publications' = publications + 1
    /\ UNCHANGED <<collection_requested, restores, results, counter, connections, captures,
                   takes, opened, reported>>

AcknowledgeRestore(id, count) ==
    /\ results' = [results EXCEPT ![id] = count]
    /\ UNCHANGED <<tabs, tabs_fresh, collection_requested, restores, counter, connections,
                   history>>

\* register_host_connection on the first hello; a later one changes nothing.
RegisterHostConnection(h) ==
    /\ connections' = connections \cup {h}
    /\ UNCHANGED <<inbox, history>>

\* A read without a timeout: the outbound half waits for the browser to say something.
MutReadSome(h) ==
    /\ loop[h] = "read"
    /\ \/ replies[h] # <<>> /\ Loop(h, "frames")
       \/ replies[h] = <<>> /\ ~port[h] /\ Loop(h, "closing")
    /\ UNCHANGED <<inbox, connections, ends, callers, history>>

\* read_some: bytes, the 200 ms timeout, or nothing because the host exited.
ReadSome(h) ==
    /\ loop[h] = "read"
    /\ \/ replies[h] # <<>> /\ Loop(h, "frames")
       \/ replies[h] = <<>> /\ port[h] /\ Loop(h, "collect")
       \/ replies[h] = <<>> /\ ~port[h] /\ Loop(h, "closing")
    /\ UNCHANGED <<inbox, connections, ends, callers, history>>

HandleFrame(h) ==
    /\ loop[h] = "frames" /\ replies[h] # <<>>
    /\ LET message == Head(replies[h]) IN
          \/ message.type = "hello" /\ RegisterHostConnection(h)
          \/ message.type = "tabs" /\ PublishTabs(h, message.windows)
          \/ message.type = "ack" /\ AcknowledgeRestore(message.id, message.count)
    /\ replies' = [replies EXCEPT ![h] = Tail(@)]
    /\ UNCHANGED <<loop, port, asked, work, callers>>

\* No complete frame is left in the bytes read so far.
FramesDone(h) ==
    /\ loop[h] = "frames"
    /\ Loop(h, "collect")
    /\ UNCHANGED <<inbox, connections, ends, callers, history>>

\* A write to the host: received, lost in a socket nobody reads any more, or failed (a
\* 200 ms send timeout or a closed peer), which ends the loop.
Send(h, next, received) ==
    \/ port[h] /\ received /\ Loop(h, next)
    \/ ~port[h] /\ Loop(h, next) /\ UNCHANGED <<asked, work>>
    \/ Loop(h, "closing") /\ UNCHANGED <<asked, work>>

\* consume_collection_request and collect_tabs.
PumpCollection(h) ==
    /\ loop[h] = "collect"
    /\ \/ /\ ~collection_requested
          /\ Loop(h, "restore")
          /\ UNCHANGED <<asked, work>>
       \/ /\ collection_requested
          /\ Send(h, "restore", asked' = [asked EXCEPT ![h] = @ + 1] /\ UNCHANGED work)
    /\ collection_requested' = FALSE
    /\ UNCHANGED <<tabs, tabs_fresh, restores, results, counter, connections, port, replies,
                   callers, history>>

\* A next_restore that does not pop what it hands out.
MutPumpRestore(h) ==
    /\ loop[h] = "restore"
    /\ \/ /\ restores = <<>>
          /\ Loop(h, "read")
          /\ UNCHANGED <<asked, work>>
       \/ /\ restores # <<>>
          /\ Send(h, "read", work' = [work EXCEPT ![h] = @ \cup {Head(restores)}]
                              /\ UNCHANGED asked)
    /\ UNCHANGED <<inbox, connections, port, replies, callers, history>>

\* next_restore and restore_tabs: the request leaves the queue before it is sent.
PumpRestore(h) ==
    /\ loop[h] = "restore"
    /\ \/ /\ restores = <<>>
          /\ Loop(h, "read")
          /\ UNCHANGED <<restores, asked, work>>
       \/ /\ restores # <<>>
          /\ restores' = Tail(restores)
          /\ Send(h, "read", work' = [work EXCEPT ![h] = @ \cup {Head(restores)}]
                              /\ UNCHANGED asked)
    /\ UNCHANGED <<tabs, tabs_fresh, collection_requested, results, counter, connections,
                   port, replies, callers, history>>

\* The end of the loop: unregister (if it had registered) and close the connection.
CloseHost(h) ==
    /\ loop[h] = "closing"
    /\ Loop(h, "closed")
    /\ connections' = connections \ {h}
    /\ port' = [port EXCEPT ![h] = FALSE]
    /\ asked' = [asked EXCEPT ![h] = 0]
    /\ work' = [work EXCEPT ![h] = {}]
    /\ replies' = [replies EXCEPT ![h] = <<>>]
    /\ UNCHANGED <<inbox, callers, history>>

-----------------------------------------------------------------------------
(* The extension.  Its handlers are asynchronous: it answers what it was     *)
(* sent in any order.                                                        *)

Reply(h, message) == replies' = [replies EXCEPT ![h] = Append(@, message)]

\* collectTabs: its windows, or none when there is nothing it may report.
ExtensionCollects(h) ==
    /\ port[h] /\ asked[h] > 0
    /\ asked' = [asked EXCEPT ![h] = @ - 1]
    /\ LET window == [from |-> h, profile |-> Profile[h], at |-> captures] IN
          \E windows \in {{}, {window}} :
             Reply(h, [type |-> "tabs", windows |-> windows])
    /\ UNCHANGED <<inbox, connections, loop, port, work, callers, history>>

\* restoreTabs opens the windows and reports how many tabs it got.
ExtensionRestores(h) ==
    /\ port[h]
    /\ \E r \in work[h], n \in 0..MaxTabs :
          /\ work' = [work EXCEPT ![h] = @ \ {r}]
          /\ opened' = [opened EXCEPT ![r] = @ + 1]
          /\ reported' = [reported EXCEPT ![r] = n]
          /\ Reply(h, [type |-> "ack", id |-> r, count |-> n])
    /\ UNCHANGED <<inbox, connections, loop, port, asked, callers, captures, publications,
                   takes>>

\* The browser closes or its service worker is unloaded: what it had still to do is gone,
\* what it has written may still be read.
BrowserCloses(h) ==
    /\ port[h]
    /\ port' = [port EXCEPT ![h] = FALSE]
    /\ asked' = [asked EXCEPT ![h] = 0]
    /\ work' = [work EXCEPT ![h] = {}]
    /\ UNCHANGED <<inbox, connections, loop, replies, callers, history>>

-----------------------------------------------------------------------------
Init ==
    /\ tabs = {} /\ tabs_fresh = FALSE /\ collection_requested = FALSE
    /\ restores = <<>> /\ results = [r \in Request |-> None] /\ counter = 0
    /\ connections = {}
    /\ loop = [h \in Host |-> "none"] /\ port = [h \in Host |-> FALSE]
    /\ asked = [h \in Host |-> 0] /\ work = [h \in Host |-> {}]
    /\ replies = [h \in Host |-> <<>>]
    /\ pc = [c \in Caller |-> "idle"] /\ ticket = [c \in Caller |-> 0]
    /\ since = [c \in Caller |-> 0] /\ answer = [c \in Caller |-> 0]
    /\ captures = 0 /\ publications = 0 /\ takes = 0
    /\ opened = [r \in Request |-> 0] /\ reported = [r \in Request |-> 0]

Wait(c) == TakeFresh(c) \/ TakeTimeout(c) \/ RestoreResult(c) \/ RestoreTimeout(c)

Call(c) == TakeTabs(c) \/ EnqueueRestore(c) \/ Wait(c)

Serve(h) == \/ ReadSome(h) \/ HandleFrame(h) \/ FramesDone(h)
            \/ PumpCollection(h) \/ PumpRestore(h) \/ CloseHost(h)

Extension(h) == ExtensionCollects(h) \/ ExtensionRestores(h)

Next ==
    \/ \E c \in Caller : StartCapture(c) \/ StartRestore(c) \/ Call(c)
    \/ \E h \in Host : Accept(h) \/ Serve(h) \/ Extension(h) \/ BrowserCloses(h)

Spec == Init /\ [][Next]_vars

\* Deadlines expire and every thread of the daemon is scheduled.  Nothing is assumed of
\* the browsers.
FairSpec == Spec /\ (\A c \in Caller : WF_vars(Call(c)))
                 /\ (\A h \in Host : WF_vars(Serve(h)))

-----------------------------------------------------------------------------
(* Properties.                                                              *)

InboxType ==
    /\ tabs \subseteq Window /\ tabs_fresh \in BOOLEAN /\ collection_requested \in BOOLEAN
    /\ counter \in 0..MaxRestores /\ restores \in Seq(1..counter)
    /\ results \in [Request -> (0..MaxTabs) \cup {None}]

HostType ==
    /\ connections \subseteq Host
    /\ loop \in [Host -> {"none", "read", "frames", "collect", "restore", "closing", "closed"}]
    /\ port \in [Host -> BOOLEAN] /\ asked \in [Host -> Nat]
    /\ work \in [Host -> SUBSET (1..counter)] /\ replies \in [Host -> Seq(Message)]

CallerType ==
    /\ pc \in [Caller -> {"idle", "take", "tabs", "enqueue", "result"}]
    /\ ticket \in [Caller -> 0..counter]
    /\ \A c \in Caller : pc[c] = "result" => ticket[c] # 0
    /\ since \in [Caller -> 0..MaxCaptures] /\ answer \in [Caller -> 0..MaxTabs]

HistoryType ==
    /\ captures \in 0..MaxCaptures /\ publications \in Nat /\ takes \in Nat
    /\ opened \in [Request -> Nat] /\ reported \in [Request -> 0..MaxTabs]

\* The type invariant of the inbox, the host threads and their callers: a queued or
\* awaited request has an id that was handed out.
TypeOK == InboxType /\ HostType /\ CallerType /\ HistoryType

\* However hosts come and go while they drain the queue, the tabs of one restore request
\* are opened at most once, in one browser (next_restore pops under the inbox mutex).
OpenedAtMostOnce == \A r \in Request : opened[r] <= 1

\* A caller that is told "n tabs restored" is told what the extension reported for the
\* caller's own request, though other requests are acknowledged and given up meanwhile.
AnswerIsMine ==
    [][\A c \in Caller :
          pc[c] = "result" /\ pc'[c] = "idle" /\ answer'[c] # 0
          => opened[ticket[c]] = 1 /\ answer'[c] = reported[ticket[c]]]_vars

\* A host thread that has ended has left connections_: no dead connection makes captures
\* wait for their deadline or restores queue for nobody.
NoGhostConnections == \A h \in connections : loop[h] \notin {"none", "closed"}

\* A capture returns tabs only after a publication that no other capture has used up, so
\* two concurrent captures never share one answer.
TakesHavePublications == takes <= publications

\* A slow or missing extension blocks no capture and no restore: each ends.
CallersReturn == \A c \in Caller : pc[c] # "idle" ~> pc[c] = "idle"

Queued(r) == \E k \in 1..Len(restores) : restores[k] = r

Serving(h) == loop[h] \in {"read", "frames", "collect", "restore"}

\* A queued restore goes out even when every browser is quiet, unless all hosts go away.
QueuedRestoresGoOut ==
    \A r \in Request : Queued(r) ~> (~Queued(r) \/ \A h \in Host : ~Serving(h))

\* The tabs a capture gets were collected after it began.
CaptureIsFresh ==
    [][\A c \in Caller :
          pc[c] = "tabs" /\ takes' # takes /\ pc'[c] = "idle"
          => \A w \in tabs : w.at >= since[c]]_vars

\* A publication replaces the windows of its own connection.
OwnWindowsReplaced ==
    [][\A h \in Host :
          replies'[h] # replies[h] /\ publications' # publications
          => {w \in tabs' : w.from = h} = Head(replies[h]).windows]_vars

\* A collection request reaches every connected browser.
EveryBrowserAsked ==
    \A h \in Host : collection_requested /\ h \in connections
                    ~> asked[h] > 0 \/ h \notin connections

-----------------------------------------------------------------------------
(* The inductive invariants behind the proofs.                              *)

\* The bound on requests, with the ones about to be queued.
BoundInv == counter + Cardinality(Enqueuing) <= MaxRestores

\* A request is queued once, on its way to one browser, or opened, never two of these.
RequestInv ==
    /\ \A k, l \in 1..Len(restores) : restores[k] = restores[l] => k = l
    /\ \A r \in Request, h \in Host : Queued(r) => r \notin work[h]
    /\ \A r \in Request : Queued(r) => opened[r] = 0
    /\ \A r \in Request, h \in Host : r \in work[h] => opened[r] = 0
    /\ \A r \in Request, g, h \in Host : r \in work[g] /\ r \in work[h] => g = h
    /\ \A r \in Request : r > counter => opened[r] = 0
    /\ OpenedAtMostOnce

\* An acknowledgement, on its way or in the inbox, is the report of the browser that
\* opened the request.
AckInv ==
    /\ \A h \in Host : \A k \in 1..Len(replies[h]) :
          replies[h][k].type = "ack" =>
             /\ opened[replies[h][k].id] = 1
             /\ replies[h][k].count = reported[replies[h][k].id]
    /\ \A r \in Request : results[r] # None => opened[r] = 1 /\ results[r] = reported[r]

\* Every take has used up a publication, and the one behind the flag is still unused.
TakeInv == takes + (IF tabs_fresh THEN 1 ELSE 0) <= publications
=============================================================================
