------------------------------- MODULE Client -------------------------------
(***************************************************************************)
(* The synchronous RPC client (src/ipc/client.cpp) against one daemon that *)
(* stops, is started again, answers late, drops connections and reads a    *)
(* stream in which a frame may be missing its end.                         *)
(*                                                                         *)
(* The calling thread connects (starting the daemon when nobody listens),  *)
(* writes a frame piece by piece, and reads until the reply with its own   *)
(* id has come or the deadline has passed.  A second thread serves the     *)
(* subscription on a connection of its own.  The daemon's end of a         *)
(* connection is one worker (src/ipc/server.cpp, modelled in full in       *)
(* Daemon): it takes whole frames in order and answers each.               *)
(***************************************************************************)
EXTENDS Framing, FiniteSets

CONSTANTS
    Method,        \* the requests a caller may make
    Size(_),       \* the cells of JSON text a request takes
    MaxFrame,      \* kMaxFrameBytes, in cells
    MaxConns,      \* bound on the connections made
    MaxAttempts,   \* the 30 attempts of connect_or_spawn_daemon
    MaxStops,      \* bound on the times the daemon stops
    MaxEvents      \* bound on the events it publishes

ASSUME ClientAssumption ==
    /\ MaxFrame \in Nat \ {0} /\ MaxConns \in Nat /\ MaxAttempts \in Nat
    /\ MaxStops \in Nat /\ MaxEvents \in Nat
    /\ \A m \in Method : Size(m) \in Nat \ {0}
    /\ "hello" \notin Method /\ "subscribe" \notin Method

VARIABLES
    daemon,             \* "down", "starting" or "up", and how often it stopped
    stops,
    conns,              \* the connections, in the order they were made
    next_request_id_,
    connection_,        \* the request connection, 0 for a null pointer
    reader_,            \* what has been read from it and not decoded
    pc,                 \* where the calling thread is
    call,               \* its request and the part of the frame not written yet
    late,               \* has its deadline passed
    attempt,            \* how often connect_or_spawn_daemon has dialled
    outcome,            \* what the last call returned
    subscription_,      \* the subscription's connection, 0 for a null pointer
    running,            \* Subscription::running
    worker,             \* the subscription's thread; seen is history: the events it handed on
    events,             \* how many events the daemon has published
    written, executed   \* history: requests written whole, requests the daemon ran

caller  == <<next_request_id_, connection_, reader_, pc, call, late, attempt, outcome>>
sub     == <<subscription_, running, worker>>
server  == <<daemon, stops, events>>
history == <<written, executed>>
vars    == <<server, conns, caller, sub, history>>

-----------------------------------------------------------------------------
(* What is said and on which line.                                          *)

Request(id, method) == [kind |-> "request", id |-> id, method |-> method]

\* A reply names the request it answers twice: by the id on the wire, and, for the
\* properties only, by connection and id.
Reply(id, ok, of) == [kind |-> "reply", id |-> id, ok |-> ok, of |-> of]

Event(n) == [kind |-> "event", n |-> n]

\* Hello, Subscribe and every answer take one cell.
Cells(message) ==
    IF message.kind = "request" /\ message.method \in Method THEN Size(message.method) ELSE 1

Encoded(message) == Frame(Payload(message, Cells(message)))

NewConnection == [up |-> <<>>, down |-> <<>>, client |-> TRUE, server |-> TRUE,
                  subscribed |-> FALSE]

NoCall == [id |-> 0, method |-> "none", rest |-> <<>>]
Nobody == <<0, 0>>

Sent(cs, c, cells) == [cs EXCEPT ![c].up = @ \o cells]

Hung(cs, c) == [cs EXCEPT ![c].client = FALSE]

-----------------------------------------------------------------------------
(* round_trip, and what call and connect make of its result.                *)

\* The frame is encoded before anything is written; an oversized one goes nowhere.
StartRoundTrip(method, id) ==
    /\ next_request_id_' = id + 1
    /\ call' = [id |-> id, method |-> method, rest |-> Encoded(Request(id, method))]
    /\ pc' = "write"
    /\ late' = FALSE

\* One attempt more than the loop has.
MutAttemptFails ==
    /\ connection_' = 0
    /\ daemon' = IF attempt = 0 /\ daemon = "down" THEN "starting" ELSE daemon
    /\ attempt' = IF attempt <= MaxAttempts THEN attempt + 1 ELSE 0
    /\ pc' = IF attempt <= MaxAttempts THEN "dial" ELSE "idle"
    /\ outcome' = [method |-> "hello", call |-> Nobody, ok |-> FALSE, of |-> Nobody]
    /\ call' = NoCall
    /\ UNCHANGED stops

\* connect_or_spawn_daemon after an attempt that failed: the first failure starts a
\* daemon, the later ones sleep and dial again, the last one gives up.
AttemptFails ==
    /\ connection_' = 0
    /\ daemon' = IF attempt = 0 /\ daemon = "down" THEN "starting" ELSE daemon
    /\ attempt' = IF attempt < MaxAttempts THEN attempt + 1 ELSE 0
    /\ pc' = IF attempt < MaxAttempts THEN "dial" ELSE "idle"
    /\ outcome' = [method |-> "hello", call |-> Nobody, ok |-> FALSE, of |-> Nobody]
    /\ call' = NoCall
    /\ UNCHANGED stops

\* The round trip is over; cs is what it leaves of the connections.  A handshake that
\* fails takes the connection with it, any other call leaves it as it is.
RoundTripEnds(cs, ok, of) ==
    \/ /\ call.method = "hello" /\ ~ok
       /\ conns' = Hung(cs, connection_)
       /\ AttemptFails
    \/ /\ call.method # "hello" \/ ok
       /\ conns' = cs
       /\ outcome' = [method |-> call.method, call |-> <<connection_, call.id>>,
                      ok |-> ok, of |-> of]
       /\ attempt' = 0
       /\ pc' = "idle"
       /\ call' = NoCall
       /\ UNCHANGED <<connection_, daemon, stops>>

RoundTripFails(cs) == RoundTripEnds(cs, FALSE, Nobody)

\* Client::call, over a connection that is_open (nothing but close() makes it closed).
StartCall(method) ==
    /\ pc = "idle" /\ connection_ # 0
    /\ Size(method) <= MaxFrame
    /\ StartRoundTrip(method, next_request_id_)
    /\ UNCHANGED <<server, conns, connection_, reader_, attempt, outcome, sub, history>>

\* encode_frame refuses the request: the id is used up and nothing is sent.
RefuseCall(method) ==
    /\ pc = "idle" /\ connection_ # 0
    /\ Size(method) > MaxFrame
    /\ next_request_id_' = next_request_id_ + 1
    /\ outcome' = [method |-> method, call |-> <<connection_, next_request_id_>>,
                   ok |-> FALSE, of |-> Nobody]
    /\ UNCHANGED <<server, conns, connection_, reader_, pc, call, late, attempt, sub, history>>

StartConnect ==
    /\ pc = "idle" /\ connection_ = 0
    /\ pc' = "dial"
    /\ attempt' = 0
    /\ UNCHANGED <<server, conns, next_request_id_, connection_, reader_, call, late, outcome,
                   sub, history>>

\* ipc::connect succeeds: a fresh reader, and the handshake.
Dial ==
    /\ pc = "dial" /\ daemon = "up" /\ Len(conns) < MaxConns
    /\ conns' = Append(conns, NewConnection)
    /\ connection_' = Len(conns) + 1
    /\ reader_' = <<>>
    /\ StartRoundTrip("hello", next_request_id_)
    /\ UNCHANGED <<server, attempt, outcome, sub, history>>

\* Nobody listens, or the listener's backlog is full.
DialFails ==
    /\ pc = "dial"
    /\ AttemptFails
    /\ UNCHANGED <<conns, next_request_id_, reader_, late, events, sub, history>>

\* send takes any part of what is left.
Write ==
    /\ pc = "write" /\ conns[connection_].server
    /\ \E n \in 1..Len(call.rest) :
           /\ conns' = Sent(conns, connection_, SubSeq(call.rest, 1, n))
           /\ call' = [call EXCEPT !.rest = SubSeq(@, n + 1, Len(@))]
           /\ pc' = IF n = Len(call.rest) THEN "next" ELSE "write"
           /\ written' = IF n = Len(call.rest)
                         THEN written \cup {<<connection_, call.id>>} ELSE written
    /\ UNCHANGED <<server, next_request_id_, connection_, reader_, late, attempt, outcome, sub,
                   executed>>

\* The daemon has closed its end, or it has not read for the length of the send timeout:
\* the call fails with part of its frame in the stream.
WriteFails ==
    /\ pc = "write"
    /\ ~conns[connection_].server \/ conns[connection_].up # <<>>
    /\ RoundTripFails(conns)
    /\ UNCHANGED <<next_request_id_, reader_, late, events, sub, history>>

\* The loop of round_trip: a buffered frame is looked at before anything is read.  Events
\* and replies to other requests are passed over.
MutMine(message) == message.kind = "reply"

Mine(message) == message.kind = "reply" /\ message.id = call.id

NextFrame ==
    /\ pc = "next" /\ ~late
    /\ HasFrame(reader_, MaxFrame)
    /\ Parses(FramePayload(reader_))
    /\ reader_' = AfterFrame(reader_)
    /\ LET message == Parsed(FramePayload(reader_)) IN
       \/ /\ Mine(message)
          /\ RoundTripEnds(conns, message.ok, message.of)
       \/ /\ ~Mine(message)
          /\ UNCHANGED <<daemon, stops, conns, connection_, pc, call, attempt, outcome>>
    /\ UNCHANGED <<events, next_request_id_, late, sub, history>>

ReadMore ==
    /\ pc = "next" /\ ~late
    /\ ~HasFrame(reader_, MaxFrame)
    /\ pc' = "read"
    /\ UNCHANGED <<server, conns, next_request_id_, connection_, reader_, call, late, attempt,
                   outcome, sub, history>>

DeadlinePasses ==
    /\ pc = "next" /\ late
    /\ RoundTripFails(conns)
    /\ UNCHANGED <<next_request_id_, reader_, late, events, sub, history>>

\* A read that times out goes on reading, without a look at the deadline.
MutRead ==
    /\ pc = "read"
    /\ \E n \in 1..Len(conns[connection_].down) :
           /\ pc' = "next"
           /\ reader_' = reader_ \o SubSeq(conns[connection_].down, 1, n)
           /\ conns' = [conns EXCEPT ![connection_].down = SubSeq(@, n + 1, Len(@))]
    /\ UNCHANGED <<server, next_request_id_, connection_, call, late, attempt, outcome, sub,
                   history>>

\* recv returns some of what is there, or nothing within its timeout.
Read ==
    /\ pc = "read"
    /\ pc' = "next"
    /\ \/ \E n \in 1..Len(conns[connection_].down) :
              /\ reader_' = reader_ \o SubSeq(conns[connection_].down, 1, n)
              /\ conns' = [conns EXCEPT ![connection_].down = SubSeq(@, n + 1, Len(@))]
       \/ /\ conns[connection_].down = <<>> /\ conns[connection_].server
          /\ UNCHANGED <<reader_, conns>>
    /\ UNCHANGED <<server, next_request_id_, connection_, call, late, attempt, outcome, sub,
                   history>>

\* "the daemon closed the connection": the call fails, connection_ stays.
ReadsEnd ==
    /\ pc = "read"
    /\ conns[connection_].down = <<>> /\ ~conns[connection_].server
    /\ RoundTripFails(conns)
    /\ UNCHANGED <<next_request_id_, reader_, late, events, sub, history>>

\* The clock of the deadline, which starts when the request is written.
Tick ==
    /\ pc \in {"next", "read"} /\ ~late
    /\ late' = TRUE
    /\ UNCHANGED <<server, conns, next_request_id_, connection_, reader_, pc, call, attempt,
                   outcome, sub, history>>

RoundTrip ==
    \/ Dial \/ DialFails \/ Write \/ WriteFails \/ NextFrame \/ ReadMore \/ DeadlinePasses
    \/ Read \/ ReadsEnd

\* ~Client, and the Client of the next process.
Disconnect ==
    /\ conns' = IF connection_ = 0 THEN conns ELSE Hung(conns, connection_)
    /\ connection_' = 0
    /\ reader_' = <<>>
    /\ next_request_id_' = 1

-----------------------------------------------------------------------------
(* subscribe, its thread, and unsubscribe.                                  *)

Idle == [pc |-> "none", conn |-> 0, reader |-> <<>>, seen |-> <<>>]

\* A connection of its own, the request written whole, then the thread.
Subscribe ==
    /\ pc = "idle" /\ subscription_ = 0
    /\ daemon = "up" /\ Len(conns) < MaxConns
    /\ LET c == Len(conns) + 1 IN
           /\ conns' = Append(conns, [NewConnection EXCEPT
                                 !.up = Encoded(Request(next_request_id_, "subscribe"))])
           /\ written' = written \cup {<<c, next_request_id_>>}
           /\ subscription_' = c
           /\ worker' = [Idle EXCEPT !.pc = "loop", !.conn = c]
    /\ next_request_id_' = next_request_id_ + 1
    /\ running' = TRUE
    /\ UNCHANGED <<server, connection_, reader_, pc, call, late, attempt, outcome, executed>>

\* The flag first, then the descriptor, then the join.
Unsubscribe ==
    /\ pc = "idle" /\ subscription_ # 0
    /\ running' = FALSE
    /\ conns' = Hung(conns, subscription_)
    /\ pc' = "join"
    /\ UNCHANGED <<server, next_request_id_, connection_, reader_, call, late, attempt, outcome,
                   subscription_, worker, history>>

\* The subscription is destroyed without waiting for its thread.
MutJoin ==
    /\ pc = "join"
    /\ pc' = "idle"
    /\ subscription_' = 0
    /\ UNCHANGED <<server, conns, next_request_id_, connection_, reader_, call, late, attempt,
                   outcome, running, worker, history>>

Join ==
    /\ pc = "join" /\ worker.pc = "ended"
    /\ pc' = "idle"
    /\ subscription_' = 0
    /\ worker' = Idle
    /\ UNCHANGED <<server, conns, next_request_id_, connection_, reader_, call, late, attempt,
                   outcome, running, history>>

WorkerLoop ==
    /\ worker.pc = "loop"
    /\ worker' = [worker EXCEPT !.pc = IF running THEN "read" ELSE "ended"]
    /\ UNCHANGED <<server, conns, caller, subscription_, running, history>>

\* close() does not wake a recv that is under way: what arrives is still returned.  One
\* that starts after it, an end of the stream or an error ends the thread.
WorkerReads ==
    /\ worker.pc = "read"
    /\ \/ \E n \in 1..Len(conns[worker.conn].down) :
              /\ worker' = [worker EXCEPT !.pc = "next",
                                !.reader = @ \o SubSeq(conns[worker.conn].down, 1, n)]
              /\ conns' = [conns EXCEPT ![worker.conn].down = SubSeq(@, n + 1, Len(@))]
       \/ /\ conns[worker.conn].down = <<>> /\ conns[worker.conn].server
          /\ worker' = [worker EXCEPT !.pc = "loop"]
          /\ UNCHANGED conns
       \/ /\ \/ ~conns[worker.conn].client
             \/ conns[worker.conn].down = <<>> /\ ~conns[worker.conn].server
          /\ worker' = [worker EXCEPT !.pc = "ended"]
          /\ UNCHANGED conns
    /\ UNCHANGED <<server, caller, subscription_, running, history>>

\* Every whole frame in the reader; only events reach the callback.
WorkerNext ==
    /\ worker.pc = "next"
    /\ \/ /\ ~HasFrame(worker.reader, MaxFrame)
          /\ worker' = [worker EXCEPT !.pc = "loop"]
       \/ /\ HasFrame(worker.reader, MaxFrame)
          /\ LET payload == FramePayload(worker.reader)
                 isEvent == Parses(payload) /\ Parsed(payload).kind = "event" IN
             worker' = [worker EXCEPT
                 !.reader = AfterFrame(@),
                 !.pc = IF isEvent THEN "callback" ELSE "next",
                 !.seen = IF isEvent THEN Append(@, Parsed(payload).n) ELSE @]
    /\ UNCHANGED <<server, conns, caller, subscription_, running, history>>

CallbackReturns ==
    /\ worker.pc = "callback"
    /\ worker' = [worker EXCEPT !.pc = "next"]
    /\ UNCHANGED <<server, conns, caller, subscription_, running, history>>

Worker == WorkerLoop \/ WorkerReads \/ WorkerNext \/ CallbackReturns

-----------------------------------------------------------------------------
(* The daemon, as far as a client can tell.                                 *)

IsRequest(payload) == Parses(payload) /\ Parsed(payload).kind = "request"

Answers(c, message) == conns' = [conns EXCEPT ![c].up = AfterFrame(@),
                                              ![c].down = @ \o Encoded(message)]

\* serve_client: a request is dispatched and answered; when the answer cannot be sent
\* (too large, or the peer does not read) the session is dropped.
Serve(c) ==
    /\ conns[c].server
    /\ HasFrame(conns[c].up, MaxFrame)
    /\ IsRequest(FramePayload(conns[c].up))
    /\ LET request == Parsed(FramePayload(conns[c].up)) IN
       /\ executed' = Append(executed, <<c, request.id>>)
       /\ \/ /\ request.method = "subscribe"
             /\ conns' = [conns EXCEPT ![c].up = AfterFrame(@), ![c].subscribed = TRUE,
                                       ![c].down = @ \o Encoded(Reply(request.id, TRUE,
                                                                      <<c, request.id>>))]
          \/ /\ request.method # "subscribe"
             /\ \/ \E ok \in BOOLEAN : Answers(c, Reply(request.id, ok, <<c, request.id>>))
                \/ conns' = [conns EXCEPT ![c].up = <<>>, ![c].server = FALSE]
    /\ UNCHANGED <<server, caller, sub, written>>

\* A payload that is no request is answered with id 0.
ServeGarbage(c) ==
    /\ conns[c].server
    /\ HasFrame(conns[c].up, MaxFrame)
    /\ ~IsRequest(FramePayload(conns[c].up))
    /\ Answers(c, Reply(0, FALSE, Nobody))
    /\ UNCHANGED <<server, caller, sub, history>>

\* The end of serve_client: a framing error, the peer's close, or no free session.
CloseSession(c) ==
    /\ conns[c].server
    /\ \/ FramingError(conns[c].up, MaxFrame)
       \/ ~conns[c].client /\ ~HasFrame(conns[c].up, MaxFrame)
       \/ \A i \in DOMAIN executed : executed[i][1] # c
    /\ conns' = [conns EXCEPT ![c].server = FALSE, ![c].up = <<>>]
    /\ UNCHANGED <<server, caller, sub, history>>

Publish ==
    /\ daemon = "up" /\ events < MaxEvents
    /\ \E c \in DOMAIN conns : conns[c].subscribed /\ conns[c].server
    /\ events' = events + 1
    /\ conns' = [c \in DOMAIN conns |->
                    IF conns[c].subscribed /\ conns[c].server
                    THEN [conns[c] EXCEPT !.down = @ \o Encoded(Event(events + 1))]
                    ELSE conns[c]]
    /\ UNCHANGED <<daemon, stops, caller, sub, history>>

DaemonStarts ==
    /\ daemon = "starting"
    /\ daemon' \in {"up", "down"}
    /\ UNCHANGED <<stops, events, conns, caller, sub, history>>

\* A stop or a crash: every connection is closed, what was answered can still be read.
DaemonStops ==
    /\ daemon = "up" /\ stops < MaxStops
    /\ daemon' = "down"
    /\ stops' = stops + 1
    /\ conns' = [c \in DOMAIN conns |-> [conns[c] EXCEPT !.server = FALSE, !.up = <<>>]]
    /\ UNCHANGED <<events, caller, sub, history>>

Server ==
    \/ \E c \in DOMAIN conns : Serve(c) \/ ServeGarbage(c) \/ CloseSession(c)
    \/ Publish \/ DaemonStarts \/ DaemonStops

-----------------------------------------------------------------------------
Init ==
    /\ daemon \in {"down", "up"}
    /\ stops = 0 /\ events = 0
    /\ conns = <<>>
    /\ next_request_id_ = 1
    /\ connection_ = 0
    /\ reader_ = <<>>
    /\ pc = "idle" /\ call = NoCall /\ late = FALSE /\ attempt = 0
    /\ outcome = [method |-> "none", call |-> Nobody, ok |-> FALSE, of |-> Nobody]
    /\ subscription_ = 0 /\ running = FALSE /\ worker = Idle
    /\ written = {} /\ executed = <<>>

\* Any caller: the calls in any order, and a subscription.
Ask == StartConnect \/ \E m \in Method : StartCall(m) \/ RefuseCall(m)

Next == Ask \/ RoundTrip \/ Tick \/ Subscribe \/ Unsubscribe \/ Join \/ Worker \/ Server

Spec == Init /\ [][Next]_vars

-----------------------------------------------------------------------------
(* Properties.                                                              *)

Called == Method \cup {"hello", "subscribe", "none"}

Message == [kind : {"request"}, id : Nat, method : Called]
           \cup [kind : {"reply"}, id : Nat, ok : BOOLEAN, of : Nat \X Nat]
           \cup [kind : {"event"}, n : Nat]

Cell == [length : Nat] \cup [text : Message, at : Nat]

Connection == [up : Seq(Cell), down : Seq(Cell), client : BOOLEAN, server : BOOLEAN,
               subscribed : BOOLEAN]

DaemonType ==
    /\ daemon \in {"down", "starting", "up"} /\ stops \in 0..MaxStops /\ events \in 0..MaxEvents

CallerType ==
    /\ next_request_id_ \in Nat \ {0}
    /\ connection_ \in 0..Len(conns)
    /\ reader_ \in Seq(Cell)
    /\ pc \in {"idle", "dial", "write", "next", "read", "join"}
    /\ call \in [id : Nat, method : Called, rest : Seq(Cell)]
    /\ late \in BOOLEAN /\ attempt \in 0..MaxAttempts
    /\ outcome \in [method : Called, call : Nat \X Nat, ok : BOOLEAN, of : Nat \X Nat]
    /\ pc \in {"write", "next", "read"} => connection_ # 0

SubscriptionType ==
    /\ subscription_ \in 0..Len(conns)
    /\ running \in BOOLEAN
    /\ worker \in [pc : {"none", "loop", "read", "next", "callback", "ended"},
                   conn : 0..Len(conns), reader : Seq(Cell), seen : Seq(Nat)]
    /\ worker.pc # "none" => worker.conn # 0

HistoryType ==
    /\ written \in SUBSET (Nat \X Nat)
    /\ executed \in Seq((1..Len(conns)) \X Nat)

TypeOK ==
    /\ DaemonType
    /\ conns \in Seq(Connection)
    /\ CallerType
    /\ SubscriptionType
    /\ HistoryType

\* A call that succeeds returns the daemon's answer to the request of this very call,
\* whatever replies to calls that were given up are still on the line (round_trip passes
\* over other ids).
AnswersAreOwn == outcome.ok => outcome.of = outcome.call

\* The daemon runs only requests that were written whole, each once and in the order of
\* their ids, also behind a frame whose writing stopped half-way (FrameReader,
\* serve_client).
RunsWhatWasSent ==
    /\ \A i \in DOMAIN executed : executed[i] \in written
    /\ \A i, j \in DOMAIN executed :
           i < j /\ executed[i][1] = executed[j][1] => executed[i][2] < executed[j][2]

\* The callback sees the events published since the subscription in their order, none
\* twice and none left out, however recv cuts the stream; and it does not run once
\* unsubscribe() has returned.
EventsInOrder ==
    /\ \A i \in 1..Len(worker.seen) - 1 : worker.seen[i + 1] = worker.seen[i] + 1
    /\ subscription_ = 0 => worker.pc # "callback"

\* connect, call and unsubscribe return, whatever the daemon does: the deadline bounds a
\* call, the attempts a connect, the 250 ms read timeout a join.
CallsReturn == pc # "idle" ~> pc = "idle"
=============================================================================
