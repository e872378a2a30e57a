----------------------------- MODULE ClientProofs -----------------------------
(***************************************************************************)
(* What is proved of the RPC client, for any requests of any size, any     *)
(* number of connections and events, and a daemon that stops at any time.  *)
(***************************************************************************)
EXTENDS Client, SequenceTheorems, TLAPS

\* A step of the client's program or of the daemon, or the end of the program and the
\* beginning of another one (FrontEnd has which programs there are).
Changes ==
    \/ Next
    \/ /\ Disconnect
       /\ pc = "idle"
       /\ UNCHANGED <<server, pc, call, late, attempt, outcome, sub, history>>

(* The assumption without the sizes. *)
LEMMA Bounds ==
    /\ MaxFrame \in Nat \ {0} /\ MaxConns \in Nat /\ MaxAttempts \in Nat
    /\ MaxStops \in Nat /\ MaxEvents \in Nat
    /\ "hello" \notin Method /\ "subscribe" \notin Method
  BY ClientAssumption, Zenon

-----------------------------------------------------------------------------
(* Frames.                                                                  *)

(* A cell is a length or a piece of text, never both. *)
LEMMA CellKinds ==
    ASSUME NEW cell \in Cell
    PROVE  \/ IsLength(cell) /\ cell.length \in Nat /\ cell = Length(cell.length)
           \/ ~IsLength(cell) /\ cell.text \in Message /\ cell.at \in Nat
              /\ cell = Text(cell.text, cell.at)
  BY DEF Cell, IsLength, Length, Text

(* decode_frame on a buffer with a whole frame. *)
LEMMA FrameOf ==
    ASSUME NEW s \in Seq(Cell), HasFrame(s, MaxFrame)
    PROVE  /\ s[1].length \in Nat /\ s[1] = Length(s[1].length)
           /\ 1 + s[1].length <= Len(s) /\ Len(s) \in Nat
           /\ FramePayload(s) \in Seq(Cell)
           /\ Len(FramePayload(s)) = s[1].length
           /\ \A k \in 1..s[1].length : FramePayload(s)[k] = s[1 + k]
           /\ AfterFrame(s) \in Seq(Cell)
           /\ Len(AfterFrame(s)) = Len(s) - (1 + s[1].length)
           /\ \A i \in 1..(Len(s) - (1 + s[1].length)) :
                  AfterFrame(s)[i] = s[i + 1 + s[1].length]
  <1>1. Len(s) \in Nat /\ s # <<>> /\ 1 \in 1..Len(s)
    BY EmptySeq DEF HasFrame
  <1>2. s[1] \in Cell
    BY <1>1, ElementOfSeq
  <1>3. IsLength(s[1])
    BY ClientAssumption DEF HasFrame, FrameLength
  <1>4. s[1].length \in Nat /\ s[1] = Length(s[1].length)
    BY <1>2, <1>3, CellKinds
  <1>5. 1 + s[1].length <= Len(s)
    BY <1>3 DEF HasFrame, FrameLength
  <1> DEFINE n == s[1].length
  <1>6. \A i \in 2..(1 + n) : s[i] \in Cell
    BY <1>1, <1>4, <1>5, ElementOfSeq
  <1>7. \A i \in (2 + n)..Len(s) : s[i] \in Cell
    BY <1>1, <1>4, <1>5, ElementOfSeq
  <1> HIDE DEF n
  <1>8. n \in Nat /\ n = s[1].length
    BY <1>4 DEF n
  <1>9. /\ SubSeq(s, 2, 1 + n) \in Seq(Cell)
        /\ Len(SubSeq(s, 2, 1 + n)) = n
        /\ \A k \in 1..n : SubSeq(s, 2, 1 + n)[k] = s[1 + k]
    <2>1. /\ SubSeq(s, 2, 1 + n) \in Seq(Cell)
          /\ Len(SubSeq(s, 2, 1 + n)) = IF 2 <= 1 + n THEN 1 + n - 2 + 1 ELSE 0
          /\ \A k \in 1..(1 + n - 2 + 1) : SubSeq(s, 2, 1 + n)[k] = s[2 + k - 1]
      BY <1>6, <1>8, SubSeqProperties, SMTT(30)
    <2> QED BY <2>1, <1>8, SMTT(30)
  <1>10. /\ SubSeq(s, 2 + n, Len(s)) \in Seq(Cell)
         /\ Len(SubSeq(s, 2 + n, Len(s))) = Len(s) - (1 + n)
         /\ \A i \in 1..(Len(s) - (1 + n)) : SubSeq(s, 2 + n, Len(s))[i] = s[i + 1 + n]
    <2>1. /\ SubSeq(s, 2 + n, Len(s)) \in Seq(Cell)
          /\ Len(SubSeq(s, 2 + n, Len(s))) = IF 2 + n <= Len(s) THEN Len(s) - (2 + n) + 1 ELSE 0
          /\ \A i \in 1..(Len(s) - (2 + n) + 1) :
                 SubSeq(s, 2 + n, Len(s))[i] = s[2 + n + i - 1]
      BY <1>1, <1>7, <1>8, SubSeqProperties, SMTT(30)
    <2>2. 1 + n <= Len(s) /\ Len(s) - (2 + n) + 1 = Len(s) - (1 + n)
      BY <1>1, <1>5, <1>8
    <2>3. Len(SubSeq(s, 2 + n, Len(s))) = Len(s) - (1 + n)
      BY <2>1, <2>2, <1>1, <1>8, SMTT(30)
    <2>4. ASSUME NEW i \in 1..(Len(s) - (1 + n))
          PROVE  SubSeq(s, 2 + n, Len(s))[i] = s[i + 1 + n]
      <3>1. i \in 1..(Len(s) - (2 + n) + 1)
        BY <2>2
      <3>2. SubSeq(s, 2 + n, Len(s))[i] = s[2 + n + i - 1]
        BY <2>1, <3>1
      <3>3. i \in Nat
        BY <1>1, <1>8
      <3>4. \A a, b \in Nat : 2 + a + b - 1 = b + 1 + a
        OBVIOUS
      <3>5. 2 + n + i - 1 = i + 1 + n
        BY <3>3, <3>4, <1>8
      <3> QED BY <3>2, <3>5
    <2> QED BY <2>1, <2>3, <2>4
  <1> QED BY <1>1, <1>4, <1>5, <1>8, <1>9, <1>10 DEF FramePayload, AfterFrame

(* A document that parses is one message, from its beginning. *)
LEMMA ParsedIs ==
    ASSUME NEW p \in Seq(Cell), Parses(p)
    PROVE  /\ Parsed(p) \in Message
           /\ 1 \in 1..Len(p)
           /\ \A k \in 1..Len(p) : p[k] = Text(Parsed(p), k)
  <1>1. Len(p) \in Nat /\ 1 \in 1..Len(p)
    BY EmptySeq DEF Parses
  <1>2. p[1] \in Cell
    BY <1>1, ElementOfSeq
  <1>3. p[1].text \in Message
    BY <1>2, CellKinds DEF Parses
  <1> QED BY <1>1, <1>3 DEF Parses, Parsed

(* What encode_frame makes of a message. *)
LEMMA EncodedIs ==
    ASSUME NEW m \in Message
    PROVE  /\ Cells(m) \in Nat \ {0}
           /\ Encoded(m) \in Seq(Cell)
           /\ Len(Encoded(m)) = 1 + Cells(m)
           /\ Encoded(m)[1] = Length(Cells(m))
           /\ \A k \in 1..Cells(m) : Encoded(m)[1 + k] = Text(m, k)
  <1>1. Cells(m) \in Nat \ {0}
    <2>1. CASE m.kind = "request" /\ m.method \in Method
      <3>1. Size(m.method) \in Nat \ {0}
        BY <2>1, ClientAssumption, Zenon
      <3> QED BY <2>1, <3>1, Zenon DEF Cells
    <2>2. CASE ~(m.kind = "request" /\ m.method \in Method)
      <3>1. Cells(m) = 1
        BY <2>2, Zenon DEF Cells
      <3> QED BY <3>1
    <2> QED BY <2>1, <2>2, Zenon
  <1> DEFINE n == Cells(m)
             p == Payload(m, n)
  <1> HIDE DEF n
  <1>2. n \in Nat \ {0} /\ n = Cells(m)
    BY <1>1 DEF n
  <1>3. \A k \in 1..n : Text(m, k) \in Cell
    BY <1>2 DEF Cell, Text
  <1>4. p \in Seq(Cell) /\ Len(p) = n /\ \A k \in 1..n : p[k] = Text(m, k)
    BY <1>2, <1>3, IsASeq DEF Payload
  <1> HIDE DEF p
  <1>5. Length(n) \in Cell
    BY <1>2 DEF Length, Cell
  <1>6. <<Length(n)>> \in Seq(Cell) /\ Len(<<Length(n)>>) = 1 /\ <<Length(n)>>[1] = Length(n)
    BY <1>5
  <1>7. /\ <<Length(n)>> \o p \in Seq(Cell)
        /\ Len(<<Length(n)>> \o p) = 1 + n
        /\ \A i \in 1..(1 + n) : (<<Length(n)>> \o p)[i] =
               IF i <= 1 THEN <<Length(n)>>[i] ELSE p[i - 1]
    BY <1>2, <1>4, <1>6, ConcatProperties
  <1>8. Encoded(m) = <<Length(n)>> \o p
    BY <1>2, <1>4 DEF Encoded, Frame, p
  <1>9. ASSUME NEW k \in 1..n PROVE (<<Length(n)>> \o p)[1 + k] = Text(m, k)
    BY <1>2, <1>4, <1>7
  <1>10. (<<Length(n)>> \o p)[1] = Length(n)
    BY <1>2, <1>6, <1>7
  <1> QED BY <1>2, <1>7, <1>8, <1>9, <1>10

(* What a read or a write takes, and what it leaves. *)
LEMMA Cut ==
    ASSUME NEW s \in Seq(Cell), NEW n \in 1..Len(s)
    PROVE  /\ SubSeq(s, 1, n) \in Seq(Cell)
           /\ Len(SubSeq(s, 1, n)) = n
           /\ \A i \in 1..n : SubSeq(s, 1, n)[i] = s[i]
           /\ SubSeq(s, n + 1, Len(s)) \in Seq(Cell)
           /\ Len(SubSeq(s, n + 1, Len(s))) = Len(s) - n
           /\ \A i \in 1..(Len(s) - n) : SubSeq(s, n + 1, Len(s))[i] = s[n + i]
  <1>1. Len(s) \in Nat /\ n \in Nat /\ 1 <= n /\ n <= Len(s)
    OBVIOUS
  <1>2. \A i \in 1..Len(s) : s[i] \in Cell
    BY ElementOfSeq
  <1>3. /\ SubSeq(s, 1, n) \in Seq(Cell)
        /\ Len(SubSeq(s, 1, n)) = IF 1 <= n THEN n - 1 + 1 ELSE 0
        /\ \A i \in 1..(n - 1 + 1) : SubSeq(s, 1, n)[i] = s[1 + i - 1]
    <2>1. \A i \in 1..n : s[i] \in Cell
      BY <1>1, <1>2
    <2> QED BY <1>1, <2>1, SubSeqProperties
  <1>4. /\ SubSeq(s, n + 1, Len(s)) \in Seq(Cell)
        /\ Len(SubSeq(s, n + 1, Len(s))) = IF n + 1 <= Len(s) THEN Len(s) - (n + 1) + 1 ELSE 0
        /\ \A i \in 1..(Len(s) - (n + 1) + 1) :
               SubSeq(s, n + 1, Len(s))[i] = s[n + 1 + i - 1]
    <2>1. \A i \in (n + 1)..Len(s) : s[i] \in Cell
      BY <1>1, <1>2
    <2> QED BY <1>1, <2>1, SubSeqProperties
  <1> QED BY <1>1, <1>3, <1>4

(* One connection of a list is replaced. *)
LEMMA Changed ==
    ASSUME NEW cs \in Seq(Connection), NEW c \in 1..Len(cs), NEW r \in Connection
    PROVE  /\ [cs EXCEPT ![c] = r] \in Seq(Connection)
           /\ Len([cs EXCEPT ![c] = r]) = Len(cs)
           /\ [cs EXCEPT ![c] = r][c] = r
           /\ \A d \in 1..Len(cs) : d # c => [cs EXCEPT ![c] = r][d] = cs[d]
  BY ExceptSeq

(* A field of a connection is replaced. *)
LEMMA FieldSet ==
    ASSUME NEW r \in Connection, NEW s \in Seq(Cell), NEW t \in Seq(Cell)
    PROVE  /\ [r EXCEPT !.up = s] \in Connection
           /\ [r EXCEPT !.up = s].up = s /\ [r EXCEPT !.up = s].down = r.down
           /\ [r EXCEPT !.down = s] \in Connection
           /\ [r EXCEPT !.down = s].down = s /\ [r EXCEPT !.down = s].up = r.up
           /\ [r EXCEPT !.up = s, !.down = t] \in Connection
           /\ [r EXCEPT !.up = s, !.down = t].up = s /\ [r EXCEPT !.up = s, !.down = t].down = t
           /\ [r EXCEPT !.up = s, !.subscribed = TRUE, !.down = t] \in Connection
           /\ [r EXCEPT !.up = s, !.subscribed = TRUE, !.down = t].up = s
           /\ [r EXCEPT !.up = s, !.subscribed = TRUE, !.down = t].down = t
           /\ [r EXCEPT !.up = s, !.server = FALSE] \in Connection
           /\ [r EXCEPT !.up = s, !.server = FALSE].up = s
           /\ [r EXCEPT !.up = s, !.server = FALSE].down = r.down
           /\ [r EXCEPT !.client = FALSE] \in Connection
           /\ [r EXCEPT !.client = FALSE].up = r.up /\ [r EXCEPT !.client = FALSE].down = r.down
  BY DEF Connection

(* A connection of the list, and its two streams. *)
LEMMA OneOf ==
    ASSUME NEW cs \in Seq(Connection), NEW c \in 1..Len(cs)
    PROVE  cs[c] \in Connection /\ cs[c].up \in Seq(Cell) /\ cs[c].down \in Seq(Cell)
  <1>1. cs[c] \in Connection
    BY ElementOfSeq
  <1> QED BY <1>1 DEF Connection

(* A connection is closed by the client. *)
LEMMA HungIs ==
    ASSUME NEW cs \in Seq(Connection), NEW c \in 1..Len(cs)
    PROVE  /\ Hung(cs, c) \in Seq(Connection) /\ Len(Hung(cs, c)) = Len(cs)
           /\ \A d \in 1..Len(cs) : Hung(cs, c)[d].up = cs[d].up /\ Hung(cs, c)[d].down = cs[d].down
  <1>1. cs[c] \in Connection
    BY OneOf, SMTT(30)
  <1> DEFINE r == [cs[c] EXCEPT !.client = FALSE]
  <1>2. r \in Connection /\ r.up = cs[c].up /\ r.down = cs[c].down
    BY <1>1, FieldSet, EmptySeq
  <1>3. Hung(cs, c) = [cs EXCEPT ![c] = r]
    BY DEF Hung
  <1> HIDE DEF r
  <1> QED BY <1>2, <1>3, Changed

(* What every message of the model is. *)
LEMMA MessageType ==
    /\ \A id \in Nat, m \in Method \cup {"hello", "subscribe"} : Request(id, m) \in Message
    /\ \A id \in Nat, ok \in BOOLEAN, of \in Nat \X Nat : Reply(id, ok, of) \in Message
    /\ \A n \in Nat : Event(n) \in Message
    /\ Nobody \in Nat \X Nat
  <1>1. \A id \in Nat, m \in Method \cup {"hello", "subscribe"} : Request(id, m) \in Message
    BY DEF Request, Message, Called
  <1>2. \A id \in Nat, ok \in BOOLEAN, of \in Nat \X Nat : Reply(id, ok, of) \in Message
    BY DEF Reply, Message
  <1>3. \A n \in Nat : Event(n) \in Message
    BY DEF Event, Message
  <1>4. Nobody \in Nat \X Nat
    BY DEF Nobody
  <1> QED BY <1>1, <1>2, <1>3, <1>4

-----------------------------------------------------------------------------
(* Type correctness.                                                        *)

LEMMA InitType == Init => TypeOK
  <1> SUFFICES ASSUME Init PROVE TypeOK
    OBVIOUS
  <1>1. conns = <<>> /\ Len(conns) = 0 /\ conns \in Seq(Connection)
    BY EmptySeq DEF Init
  <1>2. <<>> \in Seq(Cell) /\ <<>> \in Seq(Nat) /\ <<>> \in Seq((1..Len(conns)) \X Nat)
    BY EmptySeq
  <1>3. DaemonType
    BY Bounds DEF Init, DaemonType
  <1>4. CallerType
    <2>1. NoCall \in [id : Nat, method : Called, rest : Seq(Cell)]
      BY <1>2 DEF NoCall, Called
    <2>2. outcome \in [method : Called, call : Nat \X Nat, ok : BOOLEAN, of : Nat \X Nat]
      BY MessageType DEF Init, Called
    <2>3. /\ next_request_id_ \in Nat \ {0} /\ connection_ = 0 /\ reader_ = <<>> /\ pc = "idle"
          /\ call = NoCall /\ attempt = 0
      BY DEF Init
    <2>5. late \in BOOLEAN
      BY DEF Init
    <2>4. 0 \in 0..MaxAttempts /\ 0 \in 0..Len(conns)
      BY <1>1, Bounds
    <2> QED BY <1>2, <2>1, <2>2, <2>3, <2>4, <2>5 DEF CallerType
  <1>5. SubscriptionType
    <2>1. worker = Idle /\ subscription_ = 0 /\ running \in BOOLEAN /\ 0 \in 0..Len(conns)
      <3>1. worker = Idle /\ subscription_ = 0 /\ running \in BOOLEAN
        BY DEF Init
      <3> QED BY <1>1, <3>1
    <2>2. Idle \in [pc : {"none", "loop", "read", "next", "callback", "ended"},
                    conn : 0..Len(conns), reader : Seq(Cell), seen : Seq(Nat)]
      BY <1>2, <2>1 DEF Idle
    <2> QED BY <2>1, <2>2 DEF SubscriptionType, Idle
  <1>6. HistoryType
    BY <1>2 DEF Init, HistoryType
  <1> QED BY <1>1, <1>3, <1>4, <1>5, <1>6 DEF TypeOK

(* What the daemon ran stays in its type when connections are added. *)
LEMMA ExecutedGrows ==
    ASSUME HistoryType, NEW n \in Nat, Len(conns) \in Nat, Len(conns) <= n
    PROVE  executed \in Seq((1..n) \X Nat)
  <1>1. (1..Len(conns)) \X Nat \subseteq (1..n) \X Nat
    OBVIOUS
  <1> QED BY <1>1, SeqMonotonic DEF HistoryType

(* The subscription keeps its type when connections are added. *)
LEMMA SubscriptionKept ==
    ASSUME SubscriptionType, UNCHANGED sub, Len(conns) \in Nat, Len(conns') \in Nat,
           Len(conns) <= Len(conns')
    PROVE  SubscriptionType'
  <1>1. 0..Len(conns) \subseteq 0..Len(conns')
    OBVIOUS
  <1>2. worker \in [pc : {"none", "loop", "read", "next", "callback", "ended"},
                    conn : 0..Len(conns'), reader : Seq(Cell), seen : Seq(Nat)]
    BY <1>1 DEF SubscriptionType
  <1> QED BY <1>1, <1>2 DEF SubscriptionType, sub

Outcome == [method : Called, call : Nat \X Nat, ok : BOOLEAN, of : Nat \X Nat]
Call    == [id : Nat, method : Called, rest : Seq(Cell)]

(* An attempt to connect that fails leaves no call under way. *)
LEMMA AttemptType ==
    ASSUME DaemonType, CallerType, AttemptFails, UNCHANGED events
    PROVE  /\ DaemonType'
           /\ connection_' = 0 /\ attempt' \in 0..MaxAttempts /\ pc' \in {"dial", "idle"}
           /\ outcome' \in Outcome /\ ~outcome'.ok /\ call' \in Call
  <1>1. DaemonType'
    BY DEF DaemonType, AttemptFails
  <1>2. attempt' \in 0..MaxAttempts
    <2>1. attempt \in 0..MaxAttempts
      BY DEF CallerType
    <2>2. (attempt' = attempt + 1 /\ attempt < MaxAttempts) \/ attempt' = 0
      BY DEF AttemptFails
    <2> QED BY <2>1, <2>2, Bounds
  <1>3. connection_' = 0 /\ pc' \in {"dial", "idle"}
    BY DEF AttemptFails
  <1>4. outcome' \in Outcome /\ ~outcome'.ok
    BY MessageType DEF AttemptFails, Outcome, Called
  <1>5. call' \in Call
    BY EmptySeq DEF AttemptFails, NoCall, Call, Called
  <1> QED BY <1>1, <1>2, <1>3, <1>4, <1>5

(* The end of a round trip. *)
LEMMA RoundTripEndsType ==
    ASSUME TypeOK, connection_ # 0, NEW cs \in Seq(Connection), Len(cs) = Len(conns),
           NEW ok \in BOOLEAN, NEW of \in Nat \X Nat, RoundTripEnds(cs, ok, of),
           UNCHANGED <<next_request_id_, events, sub, history>>,
           reader_' \in Seq(Cell), late' \in BOOLEAN
    PROVE  TypeOK'
  <1>1. connection_ \in 1..Len(cs) /\ Len(conns) \in Nat
    BY DEF TypeOK, CallerType
  <1>2. conns' \in Seq(Connection) /\ Len(conns') = Len(conns)
    BY <1>1, HungIs DEF RoundTripEnds
  <1>3. HistoryType'
    <2>1. executed' \in Seq((1..Len(conns')) \X Nat)
      BY <1>2 DEF TypeOK, HistoryType, history
    <2> QED BY <2>1 DEF TypeOK, HistoryType, history
  <1>4. SubscriptionType'
    BY <1>1, <1>2, SubscriptionKept DEF TypeOK
  <1>5. DaemonType' /\ CallerType'
    <2>1. CASE call.method = "hello" /\ ~ok
      <3>1. AttemptFails
        BY <2>1 DEF RoundTripEnds
      <3>2. /\ DaemonType'
            /\ connection_' = 0 /\ attempt' \in 0..MaxAttempts /\ pc' \in {"dial", "idle"}
            /\ outcome' \in Outcome /\ call' \in Call
        BY <3>1, AttemptType DEF TypeOK
      <3>3. connection_' \in 0..Len(conns') /\ next_request_id_' \in Nat \ {0}
        BY <1>1, <1>2, <3>2 DEF TypeOK, CallerType
      <3> QED BY <3>2, <3>3 DEF CallerType, Outcome, Call
    <2>2. CASE ~(call.method = "hello" /\ ~ok)
      <3>1. /\ outcome' = [method |-> call.method, call |-> <<connection_, call.id>>,
                           ok |-> ok, of |-> of]
            /\ attempt' = 0 /\ pc' = "idle" /\ call' = NoCall
            /\ UNCHANGED <<connection_, daemon, stops>>
        BY <2>2 DEF RoundTripEnds
      <3>2. outcome' \in Outcome
        BY <1>1, <3>1 DEF Outcome, TypeOK, CallerType
      <3>3. call' \in Call
        BY <3>1, EmptySeq DEF NoCall, Call, Called
      <3>4. connection_' \in 0..Len(conns') /\ next_request_id_' \in Nat \ {0}
            /\ attempt' \in 0..MaxAttempts
        BY <1>1, <1>2, <3>1, Bounds DEF TypeOK, CallerType
      <3>5. CallerType'
        BY <3>1, <3>2, <3>3, <3>4 DEF CallerType, Outcome, Call
      <3>6. DaemonType'
        BY <3>1 DEF TypeOK, DaemonType
      <3> QED BY <3>5, <3>6
    <2> QED BY <2>1, <2>2
  <1> QED BY <1>2, <1>3, <1>4, <1>5 DEF TypeOK

(* A round trip that fails leaves the connections as they are. *)
LEMMA RoundTripFailsType ==
    ASSUME TypeOK, connection_ # 0, RoundTripFails(conns),
           UNCHANGED <<next_request_id_, reader_, late, events, sub, history>>
    PROVE  TypeOK'
  <1>1. reader_' \in Seq(Cell) /\ late' \in BOOLEAN
    <2>1. reader_' \in Seq(Cell)
      BY DEF TypeOK, CallerType
    <2>2. late' \in BOOLEAN
      BY Zenon DEF TypeOK, CallerType
    <2> QED BY <2>1, <2>2
  <1>2. conns \in Seq(Connection) /\ Nobody \in Nat \X Nat
    BY MessageType DEF TypeOK
  <1> QED BY <1>1, <1>2, RoundTripEndsType DEF RoundTripFails

(* Steps that leave the connections alone, or change one of them, concern these parts. *)
LEMMA TypeKept ==
    ASSUME TypeOK, conns' \in Seq(Connection), Len(conns') = Len(conns)
    PROVE  /\ UNCHANGED server => DaemonType'
           /\ UNCHANGED caller => CallerType'
           /\ UNCHANGED sub => SubscriptionType'
           /\ UNCHANGED history => HistoryType'
  <1>1. UNCHANGED server => DaemonType'
    BY Zenon DEF TypeOK, DaemonType, server
  <1>2. UNCHANGED caller => CallerType'
    BY Zenon DEF TypeOK, CallerType, caller
  <1>3. UNCHANGED sub => SubscriptionType'
    BY Zenon DEF TypeOK, SubscriptionType, sub
  <1>4. UNCHANGED history => HistoryType'
    BY Zenon DEF TypeOK, HistoryType, history
  <1> QED BY <1>1, <1>2, <1>3, <1>4

(* The beginning of a round trip. *)
LEMMA StartType ==
    ASSUME NEW id \in Nat \ {0}, NEW method \in Method \cup {"hello"}, StartRoundTrip(method, id)
    PROVE  next_request_id_' \in Nat \ {0} /\ call' \in Call /\ pc' = "write" /\ late' \in BOOLEAN
  <1>1. Request(id, method) \in Message
    BY MessageType
  <1>2. Encoded(Request(id, method)) \in Seq(Cell)
    BY <1>1, EncodedIs
  <1>3. call' = [id |-> id, method |-> method, rest |-> Encoded(Request(id, method))]
    BY DEF StartRoundTrip
  <1>4. call' \in Call
    BY <1>2, <1>3 DEF Call, Called
  <1>5. next_request_id_' \in Nat \ {0} /\ pc' = "write"
    BY DEF StartRoundTrip
  <1>6. late' \in BOOLEAN
    BY Zenon DEF StartRoundTrip
  <1> QED BY <1>4, <1>5, <1>6

(* The steps of a caller outside a round trip. *)
LEMMA AskType ==
    ASSUME TypeOK, Ask
    PROVE  TypeOK'
  <1>1. conns' = conns /\ conns' \in Seq(Connection) /\ Len(conns') = Len(conns)
    BY DEF TypeOK, Ask, StartConnect, StartCall, RefuseCall
  <1>2. UNCHANGED <<server, sub, history>>
    BY DEF Ask, StartConnect, StartCall, RefuseCall
  <1>3. CallerType'
    <2>1. CASE StartConnect
      BY <1>1, <2>1, Bounds DEF StartConnect, TypeOK, CallerType
    <2>2. ASSUME NEW m \in Method, StartCall(m) PROVE CallerType'
      <3>1. next_request_id_ \in Nat \ {0}
        BY DEF TypeOK, CallerType
      <3>2. /\ next_request_id_' \in Nat \ {0} /\ call' \in Call /\ pc' = "write"
            /\ late' \in BOOLEAN
        BY <2>2, <3>1, StartType DEF StartCall
      <3>3. connection_ # 0 /\ UNCHANGED <<connection_, reader_, attempt, outcome>>
        BY <2>2 DEF StartCall
      <3> QED BY <1>1, <3>2, <3>3 DEF TypeOK, CallerType, Call
    <2>3. ASSUME NEW m \in Method, RefuseCall(m) PROVE CallerType'
      <3>1. outcome' = [method |-> m, call |-> <<connection_, next_request_id_>>,
                        ok |-> FALSE, of |-> Nobody]
        BY <2>3 DEF RefuseCall
      <3>2. connection_ \in Nat /\ next_request_id_ \in Nat \ {0}
        BY DEF TypeOK, CallerType
      <3>3. outcome' \in Outcome
        BY <3>1, <3>2, MessageType DEF Outcome, Called
      <3>4. next_request_id_' \in Nat \ {0}
        BY <2>3, <3>2 DEF RefuseCall
      <3>5. UNCHANGED <<connection_, reader_, pc, call, late, attempt>>
        BY <2>3 DEF RefuseCall
      <3> QED BY <1>1, <3>3, <3>4, <3>5 DEF TypeOK, CallerType, Outcome
    <2> QED BY <2>1, <2>2, <2>3 DEF Ask
  <1> QED BY <1>1, <1>2, <1>3, TypeKept DEF TypeOK

(* A new connection is empty. *)
LEMMA NewIs ==
    NewConnection \in Connection /\ NewConnection.up = <<>> /\ NewConnection.down = <<>>
  BY EmptySeq DEF NewConnection, Connection

LEMMA DialType ==
    ASSUME TypeOK, Dial
    PROVE  TypeOK'
  <1>1. /\ conns' \in Seq(Connection) /\ Len(conns') = Len(conns) + 1 /\ Len(conns) \in Nat
        /\ Len(conns') \in Nat
    <2>1. conns \in Seq(Connection) /\ conns' = Append(conns, NewConnection)
      BY DEF TypeOK, Dial
    <2> QED BY <2>1, NewIs, AppendProperties
  <1>2. DaemonType'
    BY DEF TypeOK, DaemonType, Dial, server
  <1>3. SubscriptionType'
    BY <1>1, SubscriptionKept DEF TypeOK, Dial
  <1>4. HistoryType'
    <2>1. executed' \in Seq((1..Len(conns')) \X Nat)
      BY <1>1, ExecutedGrows DEF TypeOK, Dial, history
    <2> QED BY <2>1 DEF TypeOK, HistoryType, Dial, history
  <1>5. CallerType'
    <2>1. next_request_id_ \in Nat \ {0}
      BY DEF TypeOK, CallerType
    <2>2. /\ next_request_id_' \in Nat \ {0} /\ call' \in Call /\ pc' = "write"
          /\ late' \in BOOLEAN
      BY <2>1, StartType DEF Dial
    <2>3. /\ connection_' = Len(conns) + 1 /\ reader_' = <<>>
          /\ UNCHANGED <<attempt, outcome>>
      BY DEF Dial
    <2>4. connection_' \in 0..Len(conns') /\ connection_' # 0 /\ reader_' \in Seq(Cell)
      BY <1>1, <2>3, EmptySeq
    <2> QED BY <2>2, <2>3, <2>4 DEF TypeOK, CallerType, Call
  <1> QED BY <1>1, <1>2, <1>3, <1>4, <1>5 DEF TypeOK

LEMMA DialFailsType ==
    ASSUME TypeOK, DialFails
    PROVE  TypeOK'
  <1>1. conns' \in Seq(Connection) /\ Len(conns') = Len(conns) /\ Len(conns) \in Nat
    BY DEF TypeOK, DialFails
  <1>2. /\ DaemonType'
        /\ connection_' = 0 /\ attempt' \in 0..MaxAttempts /\ pc' \in {"dial", "idle"}
        /\ outcome' \in Outcome /\ call' \in Call
    BY AttemptType DEF TypeOK, DialFails
  <1>3. UNCHANGED <<next_request_id_, reader_, late, sub, history>>
    BY DEF DialFails
  <1>4. connection_' \in 0..Len(conns')
    BY <1>1, <1>2
  <1>5. CallerType'
    BY <1>2, <1>3, <1>4 DEF TypeOK, CallerType, Outcome, Call
  <1> QED BY <1>1, <1>2, <1>3, <1>5, TypeKept DEF TypeOK

LEMMA WriteType ==
    ASSUME TypeOK, Write
    PROVE  TypeOK'
  <1>1. PICK n \in 1..Len(call.rest) :
            /\ conns' = Sent(conns, connection_, SubSeq(call.rest, 1, n))
            /\ call' = [call EXCEPT !.rest = SubSeq(@, n + 1, Len(@))]
            /\ pc' = IF n = Len(call.rest) THEN "next" ELSE "write"
            /\ written' = IF n = Len(call.rest)
                          THEN written \cup {<<connection_, call.id>>} ELSE written
    BY DEF Write
  <1>2. connection_ \in 1..Len(conns) /\ call \in Call /\ call.rest \in Seq(Cell)
    BY SMTT(30) DEF TypeOK, CallerType, Write, Call
  <1>3. SubSeq(call.rest, 1, n) \in Seq(Cell) /\ SubSeq(call.rest, n + 1, Len(call.rest)) \in Seq(Cell)
    BY <1>2, Cut
  <1>4. conns' \in Seq(Connection) /\ Len(conns') = Len(conns)
    <2> DEFINE s == conns[connection_].up \o SubSeq(call.rest, 1, n)
    <2>1. s \in Seq(Cell) /\ conns[connection_] \in Connection
      BY <1>2, <1>3, OneOf, ConcatProperties DEF TypeOK
    <2>2. conns' = [conns EXCEPT ![connection_] = [conns[connection_] EXCEPT !.up = s]]
      BY <1>1 DEF Sent
    <2>3. [conns[connection_] EXCEPT !.up = s] \in Connection
      BY <2>1, FieldSet
    <2> HIDE DEF s
    <2> QED BY <1>2, <2>2, <2>3, Changed DEF TypeOK
  <1>5. UNCHANGED <<server, next_request_id_, connection_, reader_, late, attempt, outcome, sub,
                   executed>>
    BY DEF Write
  <1>6. CallerType'
    <2>1. call' \in Call
      BY <1>1, <1>2, <1>3 DEF Call
    <2>2. pc' \in {"next", "write"}
      BY <1>1
    <2> QED BY <1>2, <1>4, <1>5, <2>1, <2>2 DEF TypeOK, CallerType, Call
  <1>7. HistoryType'
    <2>1. <<connection_, call.id>> \in Nat \X Nat
      BY <1>2 DEF Call, TypeOK
    <2>2. written' \in SUBSET (Nat \X Nat)
      BY <1>1, <2>1 DEF TypeOK, HistoryType
    <2> QED BY <1>4, <1>5, <2>2 DEF TypeOK, HistoryType
  <1> QED BY <1>4, <1>5, <1>6, <1>7, TypeKept DEF TypeOK

(* A reader that is fed by a connection, and the connection. *)
LEMMA Fed ==
    ASSUME NEW cs \in Seq(Connection), NEW c \in 1..Len(cs), NEW reader \in Seq(Cell),
           NEW n \in 1..Len(cs[c].down)
    PROVE  /\ reader \o SubSeq(cs[c].down, 1, n) \in Seq(Cell)
           /\ [cs EXCEPT ![c].down = SubSeq(@, n + 1, Len(@))] \in Seq(Connection)
           /\ Len([cs EXCEPT ![c].down = SubSeq(@, n + 1, Len(@))]) = Len(cs)
  <1> DEFINE s == SubSeq(cs[c].down, n + 1, Len(cs[c].down))
             r == [cs[c] EXCEPT !.down = s]
  <1>1. cs[c] \in Connection /\ cs[c].down \in Seq(Cell)
    BY OneOf
  <1>2. SubSeq(cs[c].down, 1, n) \in Seq(Cell) /\ s \in Seq(Cell)
    BY <1>1, Cut
  <1>3. reader \o SubSeq(cs[c].down, 1, n) \in Seq(Cell)
    BY <1>2, ConcatProperties
  <1>4. [cs EXCEPT ![c].down = SubSeq(@, n + 1, Len(@))] = [cs EXCEPT ![c] = r]
    BY SMTT(30)
  <1> HIDE DEF s
  <1>5. r \in Connection
    BY <1>1, <1>2, FieldSet
  <1> HIDE DEF r
  <1>6. [cs EXCEPT ![c] = r] \in Seq(Connection) /\ Len([cs EXCEPT ![c] = r]) = Len(cs)
    BY <1>5, Changed
  <1> QED BY <1>3, <1>4, <1>6

LEMMA NextFrameType ==
    ASSUME TypeOK, NextFrame
    PROVE  TypeOK'
  <1> DEFINE p == FramePayload(reader_)
  <1>1. reader_ \in Seq(Cell) /\ connection_ # 0 /\ conns \in Seq(Connection)
    BY DEF TypeOK, CallerType, NextFrame
  <1>2. p \in Seq(Cell) /\ AfterFrame(reader_) \in Seq(Cell)
    BY <1>1, FrameOf DEF NextFrame
  <1>3. Parses(p) /\ reader_' = AfterFrame(reader_)
        /\ UNCHANGED <<events, next_request_id_, late, sub, history>>
    BY DEF NextFrame
  <1>4. Parsed(p) \in Message
    BY <1>2, <1>3, ParsedIs
  <1>5. \/ Mine(Parsed(p)) /\ RoundTripEnds(conns, Parsed(p).ok, Parsed(p).of)
        \/ UNCHANGED <<daemon, stops, conns, connection_, pc, call, attempt, outcome>>
    BY DEF NextFrame
  <1> HIDE DEF p
  <1>6. CASE Mine(Parsed(p)) /\ RoundTripEnds(conns, Parsed(p).ok, Parsed(p).of)
    <2>1. Parsed(p).ok \in BOOLEAN /\ Parsed(p).of \in Nat \X Nat
      <3>1. Parsed(p).kind = "reply"
        BY <1>6 DEF Mine
      <3> QED BY <1>4, <3>1 DEF Message
    <2>2. reader_' \in Seq(Cell)
      BY <1>2, <1>3
    <2>3. late' \in BOOLEAN
      BY <1>3, Zenon DEF TypeOK, CallerType
    <2> QED BY <1>1, <1>3, <1>6, <2>1, <2>2, <2>3, RoundTripEndsType
  <1>7. CASE UNCHANGED <<daemon, stops, conns, connection_, pc, call, attempt, outcome>>
    <2>1. UNCHANGED server
      BY <1>3, <1>7 DEF server
    <2>2. CallerType'
      BY <1>2, <1>3, <1>7 DEF TypeOK, CallerType
    <2> QED BY <1>1, <1>3, <1>7, <2>1, <2>2, TypeKept DEF TypeOK
  <1> QED BY <1>5, <1>6, <1>7

LEMMA RoundTripType ==
    ASSUME TypeOK, RoundTrip \/ Tick
    PROVE  TypeOK'
  <1>1. CASE Dial
    BY <1>1, DialType
  <1>2. CASE DialFails
    BY <1>2, DialFailsType
  <1>3. CASE Write
    BY <1>3, WriteType
  <1>4. CASE WriteFails \/ DeadlinePasses \/ ReadsEnd
    <2>1. connection_ # 0
      BY <1>4 DEF TypeOK, CallerType, WriteFails, DeadlinePasses, ReadsEnd
    <2>2. /\ RoundTripFails(conns)
          /\ UNCHANGED <<next_request_id_, reader_, late, events, sub, history>>
      BY <1>4 DEF WriteFails, DeadlinePasses, ReadsEnd
    <2> QED BY <2>1, <2>2, RoundTripFailsType
  <1>5. CASE NextFrame
    BY <1>5, NextFrameType
  <1>6. CASE ReadMore
    <2>1. conns' = conns /\ connection_ # 0 /\ pc' = "read" /\ UNCHANGED <<server, sub, history>>
          /\ UNCHANGED <<next_request_id_, connection_, reader_, call, late, attempt, outcome>>
      BY <1>6 DEF TypeOK, CallerType, ReadMore
    <2>2. CallerType'
      BY <2>1 DEF TypeOK, CallerType
    <2> QED BY <2>1, <2>2, TypeKept DEF TypeOK
  <1>7. CASE Read
    <2>1. connection_ \in 1..Len(conns) /\ reader_ \in Seq(Cell) /\ conns \in Seq(Connection)
      BY <1>7 DEF TypeOK, CallerType, Read
    <2>2. /\ pc' = "next" /\ UNCHANGED <<server, sub, history>>
          /\ UNCHANGED <<next_request_id_, connection_, call, late, attempt, outcome>>
      BY <1>7 DEF Read
    <2>3. reader_' \in Seq(Cell) /\ conns' \in Seq(Connection) /\ Len(conns') = Len(conns)
      <3>1. CASE UNCHANGED <<reader_, conns>>
        BY <2>1, <3>1
      <3>2. ASSUME NEW n \in 1..Len(conns[connection_].down),
                   reader_' = reader_ \o SubSeq(conns[connection_].down, 1, n),
                   conns' = [conns EXCEPT ![connection_].down = SubSeq(@, n + 1, Len(@))]
            PROVE  reader_' \in Seq(Cell) /\ conns' \in Seq(Connection) /\ Len(conns') = Len(conns)
        BY <2>1, <3>2, Fed
      <3> QED BY <1>7, <3>1, <3>2 DEF Read
    <2>4. CallerType'
      BY <2>1, <2>2, <2>3 DEF TypeOK, CallerType
    <2> QED BY <2>2, <2>3, <2>4, TypeKept DEF TypeOK
  <1>8. CASE Tick
    <2>1. /\ conns' = conns /\ pc' = pc /\ UNCHANGED <<server, sub, history>>
          /\ UNCHANGED <<next_request_id_, connection_, reader_, call, attempt, outcome>>
      BY <1>8 DEF Tick
    <2>2. late' \in BOOLEAN
      BY <1>8, Zenon DEF Tick
    <2>3. CallerType'
      BY <2>1, <2>2 DEF TypeOK, CallerType
    <2> QED BY <2>1, <2>3, TypeKept DEF TypeOK
  <1> QED BY <1>1, <1>2, <1>3, <1>4, <1>5, <1>6, <1>7, <1>8 DEF RoundTrip

(* The subscription and its thread. *)
Thread == [pc : {"none", "loop", "read", "next", "callback", "ended"},
           conn : 0..Len(conns), reader : Seq(Cell), seen : Seq(Nat)]

LEMMA SubscribeType ==
    ASSUME TypeOK, Subscribe
    PROVE  TypeOK'
  <1> DEFINE m == Request(next_request_id_, "subscribe")
             r == [NewConnection EXCEPT !.up = Encoded(m)]
  <1>1. next_request_id_ \in Nat \ {0} /\ conns \in Seq(Connection)
    BY DEF TypeOK, CallerType
  <1>2. m \in Message
    BY <1>1, MessageType
  <1>3. Encoded(m) \in Seq(Cell)
    BY <1>2, EncodedIs, SMTT(30)
  <1> HIDE DEF m
  <1>4. r \in Connection
    BY <1>3, NewIs, FieldSet
  <1>5. conns' = Append(conns, r) /\ UNCHANGED server
    BY DEF Subscribe, m
  <1> HIDE DEF r
  <1>6. /\ conns' \in Seq(Connection) /\ Len(conns') = Len(conns) + 1 /\ Len(conns) \in Nat
        /\ Len(conns') \in Nat
    BY <1>1, <1>4, <1>5, AppendProperties
  <1>7. DaemonType'
    BY <1>5 DEF TypeOK, DaemonType, server
  <1>8. CallerType'
    <2>1. next_request_id_' \in Nat \ {0}
      BY <1>1 DEF Subscribe
    <2>2. UNCHANGED <<connection_, reader_, pc, call, late, attempt, outcome>>
      BY DEF Subscribe
    <2>3. connection_' \in 0..Len(conns')
      BY <1>6, <2>2 DEF TypeOK, CallerType
    <2> QED BY <2>1, <2>2, <2>3 DEF TypeOK, CallerType
  <1>9. HistoryType'
    <2>1. executed' \in Seq((1..Len(conns')) \X Nat)
      <3>1. executed' = executed
        BY DEF Subscribe
      <3>2. HistoryType /\ Len(conns) <= Len(conns')
        BY <1>6 DEF TypeOK
      <3> QED BY <1>6, <3>1, <3>2, ExecutedGrows
    <2>2. written' = written \cup {<<Len(conns) + 1, next_request_id_>>}
      BY DEF Subscribe
    <2>3. written' \in SUBSET (Nat \X Nat)
      BY <1>1, <1>6, <2>2 DEF TypeOK, HistoryType
    <2> QED BY <2>1, <2>3 DEF HistoryType
  <1>10. SubscriptionType'
    <2>1. subscription_' = Len(conns) + 1 /\ worker' = [Idle EXCEPT !.pc = "loop", !.conn = Len(conns) + 1]
      BY DEF Subscribe
    <2>2. worker' = [pc |-> "loop", conn |-> Len(conns) + 1, reader |-> <<>>, seen |-> <<>>]
      BY <2>1 DEF Idle
    <2>3. running' \in BOOLEAN
      BY Zenon DEF Subscribe
    <2>4. Len(conns) + 1 \in 0..Len(conns') /\ Len(conns) + 1 # 0
      BY <1>6
    <2>5. worker' \in Thread'
      BY <2>2, <2>4, EmptySeq DEF Thread
    <2> QED BY <2>1, <2>2, <2>3, <2>4, <2>5 DEF SubscriptionType, Thread
  <1> QED BY <1>6, <1>7, <1>8, <1>9, <1>10 DEF TypeOK

LEMMA UnsubscribeType ==
    ASSUME TypeOK, Unsubscribe \/ Join
    PROVE  TypeOK'
  <1>1. CASE Unsubscribe
    <2>1. subscription_ \in 1..Len(conns) /\ conns \in Seq(Connection)
      BY <1>1 DEF TypeOK, SubscriptionType, Unsubscribe
    <2>2. conns' \in Seq(Connection) /\ Len(conns') = Len(conns)
      BY <1>1, <2>1, HungIs DEF Unsubscribe
    <2>3. /\ pc' = "join" /\ UNCHANGED <<server, history>>
          /\ UNCHANGED <<next_request_id_, connection_, reader_, call, late, attempt, outcome,
                         subscription_, worker>>
      BY <1>1 DEF Unsubscribe
    <2>4. CallerType'
      BY <2>2, <2>3 DEF TypeOK, CallerType
    <2>5. running' \in BOOLEAN
      BY <1>1, Zenon DEF Unsubscribe
    <2>6. SubscriptionType'
      BY <2>2, <2>3, <2>5 DEF TypeOK, SubscriptionType
    <2> QED BY <2>2, <2>3, <2>4, <2>6, TypeKept DEF TypeOK
  <1>2. CASE Join
    <2>1. /\ pc' = "idle" /\ subscription_' = 0 /\ worker' = Idle
          /\ UNCHANGED <<server, conns, next_request_id_, connection_, reader_, call, late,
                         attempt, outcome, running, history>>
      BY <1>2 DEF Join
    <2>2. conns' \in Seq(Connection) /\ Len(conns') = Len(conns) /\ Len(conns) \in Nat
      BY <2>1 DEF TypeOK
    <2>3. CallerType'
      BY <2>1 DEF TypeOK, CallerType
    <2>4. Idle \in Thread' /\ Idle.pc = "none" /\ 0 \in 0..Len(conns')
      BY <2>2, EmptySeq DEF Idle, Thread
    <2>5. SubscriptionType'
      BY <2>1, <2>4 DEF TypeOK, SubscriptionType, Thread
    <2> QED BY <2>1, <2>2, <2>3, <2>5, TypeKept DEF TypeOK
  <1> QED BY <1>1, <1>2

LEMMA WorkerType ==
    ASSUME TypeOK, Worker
    PROVE  TypeOK'
  <1>1. worker \in Thread /\ conns \in Seq(Connection) /\ worker.reader \in Seq(Cell)
    BY SMTT(30) DEF TypeOK, SubscriptionType, Thread
  <1>2. UNCHANGED <<server, caller, subscription_, running, history>>
    BY DEF Worker, WorkerLoop, WorkerReads, WorkerNext, CallbackReturns
  <1>3. running' \in BOOLEAN
    BY <1>2, Zenon DEF TypeOK, SubscriptionType
  <1>4. ASSUME conns' = conns, NEW p \in {"loop", "read", "next", "callback", "ended"},
               worker' = [worker EXCEPT !.pc = p], worker.pc # "none"
        PROVE  TypeOK'
    <2>1. worker' \in Thread' /\ worker'.conn # 0
      BY <1>1, <1>4, SMTT(30) DEF Thread, TypeOK, SubscriptionType
    <2>2. SubscriptionType'
      BY <1>2, <1>3, <1>4, <2>1 DEF TypeOK, SubscriptionType, Thread
    <2> QED BY <1>1, <1>2, <1>4, <2>2, TypeKept DEF TypeOK
  <1>5. CASE WorkerLoop
    <2>1. conns' = conns /\ worker.pc = "loop"
          /\ \/ worker' = [worker EXCEPT !.pc = "read"]
             \/ worker' = [worker EXCEPT !.pc = "ended"]
      BY <1>5, ZenonT(60) DEF WorkerLoop
    <2> QED BY <2>1, <1>4
  <1>6. CASE WorkerReads
    <2>1. worker.pc = "read" /\ worker.conn \in 1..Len(conns)
      <3>1. worker.pc = "read"
        BY <1>6 DEF WorkerReads
      <3>2. worker.conn # 0
        BY <3>1 DEF TypeOK, SubscriptionType
      <3>3. worker.conn \in 0..Len(conns) /\ Len(conns) \in Nat
        BY <1>1 DEF Thread
      <3> QED BY <3>1, <3>2, <3>3, SMTT(30)
    <2>2. CASE conns' = conns /\ \/ worker' = [worker EXCEPT !.pc = "loop"]
                                 \/ worker' = [worker EXCEPT !.pc = "ended"]
      BY <2>1, <2>2, <1>4
    <2>3. ASSUME NEW n \in 1..Len(conns[worker.conn].down),
                 worker' = [worker EXCEPT !.pc = "next",
                                !.reader = @ \o SubSeq(conns[worker.conn].down, 1, n)],
                 conns' = [conns EXCEPT ![worker.conn].down = SubSeq(@, n + 1, Len(@))]
          PROVE  TypeOK'
      <3>1. /\ worker.reader \o SubSeq(conns[worker.conn].down, 1, n) \in Seq(Cell)
            /\ conns' \in Seq(Connection) /\ Len(conns') = Len(conns)
        BY <1>1, <2>1, <2>3, Fed
      <3> DEFINE reader == worker.reader \o SubSeq(conns[worker.conn].down, 1, n)
      <3>2. worker' = [worker EXCEPT !.pc = "next", !.reader = reader]
        BY <2>3
      <3> HIDE DEF reader
      <3>3. worker.conn # 0 /\ reader \in Seq(Cell)
        BY <2>1, <3>1 DEF reader
      <3>4. worker' \in Thread' /\ worker'.conn # 0
        BY <1>1, <3>1, <3>2, <3>3 DEF Thread
      <3>5. subscription_' \in 0..Len(conns')
        BY <1>2, <3>1 DEF TypeOK, SubscriptionType
      <3>6. SubscriptionType'
        BY <1>3, <3>4, <3>5 DEF SubscriptionType, Thread
      <3> QED BY <1>2, <3>1, <3>6, TypeKept DEF TypeOK
    <2> QED BY <1>6, <2>2, <2>3 DEF WorkerReads
  <1>7. CASE WorkerNext
    <2>1. worker.pc = "next" /\ conns' = conns
      BY <1>7 DEF WorkerNext
    <2>2. CASE worker' = [worker EXCEPT !.pc = "loop"]
      BY <2>1, <2>2, <1>4
    <2>3. CASE worker' # [worker EXCEPT !.pc = "loop"]
      <3> DEFINE p == FramePayload(worker.reader)
                 isEvent == Parses(p) /\ Parsed(p).kind = "event"
      <3>1. /\ HasFrame(worker.reader, MaxFrame)
            /\ worker' = [worker EXCEPT
                   !.reader = AfterFrame(@),
                   !.pc = IF isEvent THEN "callback" ELSE "next",
                   !.seen = IF isEvent THEN Append(@, Parsed(p).n) ELSE @]
        BY <1>7, <2>3 DEF WorkerNext
      <3>2. p \in Seq(Cell) /\ AfterFrame(worker.reader) \in Seq(Cell)
        BY <1>1, <3>1, FrameOf
      <3>3. Parses(p) => Parsed(p) \in Message
        BY <3>2, ParsedIs
      <3> HIDE DEF p
      <3>4. isEvent => Parsed(p).n \in Nat
        BY <3>3 DEF Message
      <3>5. worker.seen \in Seq(Nat)
        BY <1>1 DEF Thread
      <3> DEFINE seen == IF isEvent THEN Append(worker.seen, Parsed(p).n) ELSE worker.seen
                 label == IF isEvent THEN "callback" ELSE "next"
      <3>6. seen \in Seq(Nat) /\ label \in {"callback", "next"}
        BY <3>4, <3>5, AppendProperties
      <3>7. worker' = [worker EXCEPT !.reader = AfterFrame(worker.reader), !.pc = label, !.seen = seen]
        BY <3>1
      <3> HIDE DEF isEvent, seen, label
      <3>8. worker' \in Thread' /\ worker'.conn # 0
        BY <1>1, <2>1, <3>2, <3>6, <3>7 DEF Thread, TypeOK, SubscriptionType
      <3>9. SubscriptionType'
        BY <1>2, <1>3, <2>1, <3>8 DEF TypeOK, SubscriptionType, Thread
      <3> QED BY <1>1, <1>2, <2>1, <3>9, TypeKept DEF TypeOK
    <2> QED BY <2>2, <2>3
  <1>8. CASE CallbackReturns
    <2>1. conns' = conns /\ worker.pc = "callback" /\ worker' = [worker EXCEPT !.pc = "next"]
      BY <1>8 DEF CallbackReturns
    <2> QED BY <2>1, <1>4
  <1> QED BY <1>5, <1>6, <1>7, <1>8 DEF Worker

(* What a request leaves of its connection when it is answered. *)
LEMMA AnswersIs ==
    ASSUME NEW cs \in Seq(Connection), NEW c \in 1..Len(cs), NEW m \in Message,
           HasFrame(cs[c].up, MaxFrame)
    PROVE  /\ [cs EXCEPT ![c].up = AfterFrame(@), ![c].down = @ \o Encoded(m)] =
                  [cs EXCEPT ![c] = [cs[c] EXCEPT !.up = AfterFrame(cs[c].up),
                                                  !.down = cs[c].down \o Encoded(m)]]
           /\ [cs EXCEPT ![c].up = AfterFrame(@), ![c].subscribed = TRUE,
                         ![c].down = @ \o Encoded(m)] =
                  [cs EXCEPT ![c] = [cs[c] EXCEPT !.up = AfterFrame(cs[c].up), !.subscribed = TRUE,
                                                  !.down = cs[c].down \o Encoded(m)]]
           /\ AfterFrame(cs[c].up) \in Seq(Cell)
           /\ cs[c].down \o Encoded(m) \in Seq(Cell)
  <1>1. cs[c] \in Connection /\ cs[c].up \in Seq(Cell) /\ cs[c].down \in Seq(Cell)
    BY OneOf
  <1>2. AfterFrame(cs[c].up) \in Seq(Cell)
    BY <1>1, FrameOf
  <1>3. Encoded(m) \in Seq(Cell)
    BY EncodedIs
  <1>4. cs[c].down \o Encoded(m) \in Seq(Cell)
    BY <1>1, <1>3, ConcatProperties
  <1>5. DOMAIN cs = 1..Len(cs) /\ cs[c] = [i \in DOMAIN cs[c] |-> cs[c][i]]
        /\ "up" \in DOMAIN cs[c] /\ "down" \in DOMAIN cs[c] /\ "subscribed" \in DOMAIN cs[c]
    BY <1>1 DEF Connection
  <1> QED BY <1>2, <1>4, <1>5

(* A request is answered, behind what the connection still holds, or takes it down. *)
LEMMA ServeIs ==
    ASSUME TypeOK, NEW c \in DOMAIN conns, Serve(c)
    PROVE  LET up == conns[c].up
               request == Parsed(FramePayload(up))
           IN /\ c \in 1..Len(conns) /\ request \in Message /\ request.id \in Nat
              /\ HasFrame(up, MaxFrame) /\ Parses(FramePayload(up))
              /\ \E r \in Connection :
                     /\ conns' = [conns EXCEPT ![c] = r]
                     /\ \/ /\ r.up = AfterFrame(up)
                           /\ \E ok \in BOOLEAN : r.down =
                                  conns[c].down \o Encoded(Reply(request.id, ok, <<c, request.id>>))
                        \/ r.up = <<>> /\ r.down = conns[c].down
              /\ executed' = Append(executed, <<c, request.id>>)
              /\ UNCHANGED <<server, caller, sub, written>>
  <1> DEFINE up == conns[c].up
             request == Parsed(FramePayload(up))
  <1>1. c \in 1..Len(conns) /\ conns \in Seq(Connection)
    BY DEF TypeOK
  <1>2. conns[c] \in Connection /\ up \in Seq(Cell) /\ conns[c].down \in Seq(Cell)
    BY <1>1, OneOf
  <1>3. HasFrame(up, MaxFrame) /\ Parses(FramePayload(up)) /\ request.kind = "request"
    BY DEF Serve, IsRequest
  <1>4. FramePayload(up) \in Seq(Cell)
    BY <1>2, <1>3, FrameOf
  <1>5. request \in Message
    BY <1>3, <1>4, ParsedIs
  <1>6. /\ executed' = Append(executed, <<c, request.id>>)
        /\ UNCHANGED <<server, caller, sub, written>>
        /\ \/ conns' = [conns EXCEPT ![c].up = AfterFrame(@), ![c].subscribed = TRUE,
                                     ![c].down = @ \o Encoded(Reply(request.id, TRUE,
                                                                    <<c, request.id>>))]
           \/ \E ok \in BOOLEAN : Answers(c, Reply(request.id, ok, <<c, request.id>>))
           \/ conns' = [conns EXCEPT ![c].up = <<>>, ![c].server = FALSE]
    BY SMTT(30) DEF Serve
  <1> HIDE DEF request
  <1>7. request.id \in Nat
    BY <1>3, <1>5 DEF Message
  <1>8. c \in Nat
    BY <1>1
  <1> DEFINE of == <<c, request.id>>
             r(ok) == [conns[c] EXCEPT !.up = AfterFrame(up),
                                       !.down = conns[c].down \o Encoded(Reply(request.id, ok, of))]
             q == [conns[c] EXCEPT !.up = AfterFrame(up), !.subscribed = TRUE,
                                   !.down = conns[c].down \o Encoded(Reply(request.id, TRUE, of))]
             z == [conns[c] EXCEPT !.up = <<>>, !.server = FALSE]
  <1>9. \A ok \in BOOLEAN : Reply(request.id, ok, of) \in Message
    BY <1>7, <1>8, MessageType
  <1>10. ASSUME NEW x \in Connection, conns' = [conns EXCEPT ![c] = x],
                \/ /\ x.up = AfterFrame(up)
                   /\ \E ok \in BOOLEAN : x.down =
                          conns[c].down \o Encoded(Reply(request.id, ok, of))
                \/ x.up = <<>> /\ x.down = conns[c].down
         PROVE  \E s \in Connection :
                     /\ conns' = [conns EXCEPT ![c] = s]
                     /\ \/ /\ s.up = AfterFrame(up)
                           /\ \E ok \in BOOLEAN : s.down =
                                  conns[c].down \o Encoded(Reply(request.id, ok, of))
                        \/ s.up = <<>> /\ s.down = conns[c].down
    BY <1>10, Zenon
  <1>11. CASE conns' = [conns EXCEPT ![c].up = AfterFrame(@), ![c].subscribed = TRUE,
                                     ![c].down = @ \o Encoded(Reply(request.id, TRUE, of))]
    <2>1. /\ conns' = [conns EXCEPT ![c] = q]
          /\ AfterFrame(up) \in Seq(Cell)
          /\ conns[c].down \o Encoded(Reply(request.id, TRUE, of)) \in Seq(Cell)
      BY <1>1, <1>3, <1>9, <1>11, AnswersIs
    <2>2. /\ q \in Connection /\ q.up = AfterFrame(up)
          /\ q.down = conns[c].down \o Encoded(Reply(request.id, TRUE, of))
      <3> DEFINE s == AfterFrame(up)
                 t == conns[c].down \o Encoded(Reply(request.id, TRUE, of))
      <3>1. s \in Seq(Cell) /\ t \in Seq(Cell)
        BY <2>1
      <3>2. q = [conns[c] EXCEPT !.up = s, !.subscribed = TRUE, !.down = t]
        OBVIOUS
      <3> HIDE DEF s, t, q, up
      <3>3. q \in Connection /\ q.up = s /\ q.down = t
        BY <1>2, <3>1, <3>2 DEF Connection
      <3> QED BY <3>3 DEF s, t
    <2> HIDE DEF q
    <2>3. \E ok \in BOOLEAN : q.down = conns[c].down \o Encoded(Reply(request.id, ok, of))
      BY <2>2
    <2> QED BY <1>1, <1>3, <1>5, <1>6, <1>7, <1>10, <2>1, <2>2, <2>3 DEF request
  <1>12. ASSUME NEW ok \in BOOLEAN, Answers(c, Reply(request.id, ok, of))
         PROVE  \E s \in Connection :
                     /\ conns' = [conns EXCEPT ![c] = s]
                     /\ \/ /\ s.up = AfterFrame(up)
                           /\ \E b \in BOOLEAN : s.down =
                                  conns[c].down \o Encoded(Reply(request.id, b, of))
                        \/ s.up = <<>> /\ s.down = conns[c].down
    <2>1. /\ conns' = [conns EXCEPT ![c] = r(ok)]
          /\ AfterFrame(up) \in Seq(Cell)
          /\ conns[c].down \o Encoded(Reply(request.id, ok, of)) \in Seq(Cell)
      BY <1>1, <1>3, <1>9, <1>12, AnswersIs DEF Answers
    <2>2. /\ r(ok) \in Connection /\ r(ok).up = AfterFrame(up)
          /\ r(ok).down = conns[c].down \o Encoded(Reply(request.id, ok, of))
      <3> DEFINE s == AfterFrame(up)
                 t == conns[c].down \o Encoded(Reply(request.id, ok, of))
                 q1 == r(ok)
      <3>1. s \in Seq(Cell) /\ t \in Seq(Cell)
        BY <2>1
      <3>2. q1 = [conns[c] EXCEPT !.up = s, !.down = t]
        OBVIOUS
      <3> HIDE DEF s, t, q1, up
      <3>3. q1 \in Connection /\ q1.up = s /\ q1.down = t
        BY <1>2, <3>1, <3>2 DEF Connection
      <3> QED BY <3>3 DEF s, t, q1
    <2> HIDE DEF r
    <2>3. \E b \in BOOLEAN : r(ok).down = conns[c].down \o Encoded(Reply(request.id, b, of))
      BY <2>2
    <2> QED BY <1>10, <2>1, <2>2, <2>3
  <1>13. CASE conns' = [conns EXCEPT ![c].up = <<>>, ![c].server = FALSE]
    <2>1. z \in Connection /\ z.up = <<>> /\ z.down = conns[c].down
      BY <1>2, EmptySeq, FieldSet, ZenonT(60)
    <2>2. conns' = [conns EXCEPT ![c] = z]
      BY <1>1, <1>2, <1>13 DEF Connection
    <2> HIDE DEF z
    <2> QED BY <1>1, <1>3, <1>5, <1>6, <1>7, <1>10, <2>1, <2>2 DEF request
  <1> QED BY <1>1, <1>3, <1>5, <1>6, <1>7, <1>11, <1>12, <1>13 DEF request

(* What the other steps of the daemon make of the two streams of a connection. *)
Emptied(cs, new, c) ==
    \/ new[c].up = cs[c].up
    \/ new[c].up = <<>>
    \/ HasFrame(cs[c].up, MaxFrame) /\ new[c].up = AfterFrame(cs[c].up)

Extended(cs, new, c) ==
    \/ new[c].down = cs[c].down
    \/ new[c].down = cs[c].down \o Encoded(Reply(0, FALSE, Nobody))
    \/ \E n \in Nat : new[c].down = cs[c].down \o Encoded(Event(n))

LEMMA ReplacedIs ==
    ASSUME NEW cs \in Seq(Connection), NEW c \in 1..Len(cs), NEW r \in Connection,
           \/ r.up = <<>>
           \/ HasFrame(cs[c].up, MaxFrame) /\ r.up = AfterFrame(cs[c].up),
           \/ r.down = cs[c].down
           \/ r.down = cs[c].down \o Encoded(Reply(0, FALSE, Nobody))
    PROVE  /\ [cs EXCEPT ![c] = r] \in Seq(Connection) /\ Len([cs EXCEPT ![c] = r]) = Len(cs)
           /\ \A d \in 1..Len(cs) :
                  Emptied(cs, [cs EXCEPT ![c] = r], d) /\ Extended(cs, [cs EXCEPT ![c] = r], d)
  <1> DEFINE new == [cs EXCEPT ![c] = r]
  <1>1. /\ new \in Seq(Connection) /\ Len(new) = Len(cs)
        /\ new[c] = r /\ \A d \in 1..Len(cs) : d # c => new[d] = cs[d]
    BY Changed
  <1> HIDE DEF new
  <1>2. \A d \in 1..Len(cs) : Emptied(cs, new, d) /\ Extended(cs, new, d)
    BY <1>1, Zenon DEF Emptied, Extended
  <1> QED BY <1>1, <1>2 DEF new

LEMMA ServerIs ==
    ASSUME TypeOK,
           \/ \E c \in DOMAIN conns : ServeGarbage(c) \/ CloseSession(c)
           \/ Publish \/ DaemonStarts \/ DaemonStops
    PROVE  /\ conns' \in Seq(Connection) /\ Len(conns') = Len(conns)
           /\ \A d \in 1..Len(conns) : Emptied(conns, conns', d) /\ Extended(conns, conns', d)
           /\ UNCHANGED <<caller, sub, history>>
           /\ DaemonType'
  <1> DEFINE Goal == /\ conns' \in Seq(Connection) /\ Len(conns') = Len(conns)
                     /\ \A d \in 1..Len(conns) :
                            Emptied(conns, conns', d) /\ Extended(conns, conns', d)
  <1>1. conns \in Seq(Connection) /\ DOMAIN conns = 1..Len(conns) /\ Len(conns) \in Nat
    BY DEF TypeOK
  <1>2. ASSUME NEW c \in DOMAIN conns, ServeGarbage(c) PROVE Goal
    <2>1. c \in 1..Len(conns) /\ HasFrame(conns[c].up, MaxFrame)
          /\ Reply(0, FALSE, Nobody) \in Message
      BY <1>1, <1>2, MessageType DEF ServeGarbage
    <2> DEFINE s == AfterFrame(conns[c].up)
               t == conns[c].down \o Encoded(Reply(0, FALSE, Nobody))
               r == [conns[c] EXCEPT !.up = s, !.down = t]
    <2>2. conns' = [conns EXCEPT ![c] = r] /\ s \in Seq(Cell) /\ t \in Seq(Cell)
      BY <1>1, <1>2, <2>1, AnswersIs DEF ServeGarbage, Answers
    <2>3. conns[c] \in Connection
      BY <1>1, <2>1, OneOf
    <2> HIDE DEF s, t
    <2>4. r \in Connection /\ r.up = s /\ r.down = t
      BY <2>2, <2>3 DEF Connection
    <2> HIDE DEF r
    <2>5. r.up = AfterFrame(conns[c].up)
          /\ r.down = conns[c].down \o Encoded(Reply(0, FALSE, Nobody))
      BY <2>4 DEF s, t
    <2>6. /\ [conns EXCEPT ![c] = r] \in Seq(Connection)
          /\ Len([conns EXCEPT ![c] = r]) = Len(conns)
          /\ \A d \in 1..Len(conns) : Emptied(conns, [conns EXCEPT ![c] = r], d)
                                       /\ Extended(conns, [conns EXCEPT ![c] = r], d)
      BY <1>1, <2>1, <2>4, <2>5, ReplacedIs
    <2> QED BY <2>2, <2>6, Zenon
  <1>3. ASSUME NEW c \in DOMAIN conns, CloseSession(c) PROVE Goal
    <2> DEFINE r == [conns[c] EXCEPT !.up = <<>>, !.server = FALSE]
    <2>1. c \in 1..Len(conns)
      BY <1>1
    <2>2. conns[c] \in Connection
      BY <1>1, <2>1, OneOf
    <2>3. conns' = [conns EXCEPT ![c] = r]
      BY <1>1, <1>3, <2>1, <2>2 DEF CloseSession, Connection
    <2>4. r \in Connection /\ r.up = <<>> /\ r.down = conns[c].down
      BY <2>2, EmptySeq DEF Connection
    <2> HIDE DEF r
    <2>5. /\ [conns EXCEPT ![c] = r] \in Seq(Connection)
          /\ Len([conns EXCEPT ![c] = r]) = Len(conns)
          /\ \A d \in 1..Len(conns) : Emptied(conns, [conns EXCEPT ![c] = r], d)
                                       /\ Extended(conns, [conns EXCEPT ![c] = r], d)
      BY <1>1, <2>1, <2>4, ReplacedIs
    <2> QED BY <2>3, <2>5, Zenon
  <1>4. ASSUME Publish PROVE Goal
    <2>1. events + 1 \in Nat
      BY DEF TypeOK, DaemonType
    <2> DEFINE m == Event(events + 1)
               new(c) == IF conns[c].subscribed /\ conns[c].server
                         THEN [conns[c] EXCEPT !.down = @ \o Encoded(m)] ELSE conns[c]
    <2>2. Encoded(m) \in Seq(Cell)
      BY <2>1, MessageType, EncodedIs
    <2>3. conns' = [c \in 1..Len(conns) |-> new(c)]
      BY <1>1, <1>4 DEF Publish
    <2>4. ASSUME NEW c \in 1..Len(conns)
          PROVE  /\ new(c) \in Connection /\ new(c).up = conns[c].up
                 /\ new(c).down = conns[c].down \/ new(c).down = conns[c].down \o Encoded(m)
      <3> DEFINE t == conns[c].down \o Encoded(m)
      <3>1. conns[c] \in Connection /\ t \in Seq(Cell)
        BY <1>1, <2>2, OneOf, ConcatProperties
      <3>2. new(c) = conns[c] \/ new(c) = [conns[c] EXCEPT !.down = t]
        OBVIOUS
      <3> HIDE DEF t, new
      <3>3. /\ new(c) \in Connection /\ new(c).up = conns[c].up
            /\ new(c).down = conns[c].down \/ new(c).down = t
        BY <3>1, <3>2 DEF Connection
      <3> QED BY <3>3 DEF t
    <2> HIDE DEF new
    <2>5. conns' \in Seq(Connection) /\ Len(conns') = Len(conns)
          /\ \A c \in 1..Len(conns) : conns'[c] = new(c)
      <3>1. \A c \in 1..Len(conns) : new(c) \in Connection
        BY <2>4
      <3>2. [c \in 1..Len(conns) |-> new(c)] \in Seq(Connection)
        BY <1>1, <3>1, IsASeq
      <3> QED BY <1>1, <2>3, <3>2
    <2>6. ASSUME NEW c \in 1..Len(conns)
          PROVE  Emptied(conns, conns', c) /\ Extended(conns, conns', c)
      <3>1. conns'[c].up = conns[c].up
        BY <2>4, <2>5
      <3>2. conns'[c].down = conns[c].down
            \/ conns'[c].down = conns[c].down \o Encoded(Event(events + 1))
        BY <2>4, <2>5
      <3> QED BY <2>1, <3>1, <3>2, Zenon DEF Emptied, Extended
    <2> QED BY <2>5, <2>6
  <1>5. ASSUME DaemonStarts PROVE Goal
    <2>1. conns' = conns
      BY <1>5 DEF DaemonStarts
    <2> QED BY <1>1, <2>1, Zenon DEF Emptied, Extended
  <1>6. ASSUME DaemonStops PROVE Goal
    <2> DEFINE new(c) == [conns[c] EXCEPT !.server = FALSE, !.up = <<>>]
    <2>1. conns' = [c \in 1..Len(conns) |-> new(c)]
      BY <1>1, <1>6 DEF DaemonStops
    <2>2. ASSUME NEW c \in 1..Len(conns)
          PROVE  new(c) \in Connection /\ new(c).up = <<>> /\ new(c).down = conns[c].down
      <3>1. conns[c] \in Connection
        BY <1>1, OneOf
      <3> QED BY <3>1, EmptySeq DEF Connection
    <2> HIDE DEF new
    <2>3. conns' \in Seq(Connection) /\ Len(conns') = Len(conns)
          /\ \A c \in 1..Len(conns) : conns'[c] = new(c)
      BY <1>1, <2>1, <2>2, IsASeq
    <2>4. ASSUME NEW c \in 1..Len(conns)
          PROVE  Emptied(conns, conns', c) /\ Extended(conns, conns', c)
      <3>1. conns'[c].up = <<>> /\ conns'[c].down = conns[c].down
        BY <2>2, <2>3
      <3> QED BY <3>1, Zenon DEF Emptied, Extended
    <2> QED BY <2>3, <2>4
  <1>7. Goal
    BY <1>2, <1>3, <1>4, <1>5, <1>6
  <1>8. UNCHANGED <<caller, sub, history>>
    BY DEF ServeGarbage, CloseSession, Publish, DaemonStarts, DaemonStops
  <1>9. DaemonType'
    <2>1. UNCHANGED server \/ Publish \/ DaemonStarts \/ DaemonStops
      BY DEF ServeGarbage, CloseSession
    <2>2. CASE UNCHANGED server
      BY <2>2 DEF TypeOK, DaemonType, server
    <2>3. CASE Publish
      BY <2>3, Bounds DEF TypeOK, DaemonType, Publish
    <2>4. CASE DaemonStarts
      BY <2>4 DEF TypeOK, DaemonType, DaemonStarts
    <2>5. CASE DaemonStops
      <3>1. daemon' = "down" /\ stops' = stops + 1 /\ stops < MaxStops /\ events' = events
        BY <2>5 DEF DaemonStops
      <3> QED BY <3>1, Bounds DEF TypeOK, DaemonType
    <2> QED BY <2>1, <2>2, <2>3, <2>4, <2>5
  <1> QED BY <1>7, <1>8, <1>9

LEMMA ServerType ==
    ASSUME TypeOK, Server
    PROVE  TypeOK'
  <1>1. conns \in Seq(Connection) /\ Len(conns) \in Nat
    BY DEF TypeOK
  <1>2. ASSUME NEW c \in DOMAIN conns, Serve(c) PROVE TypeOK'
    <2> DEFINE request == Parsed(FramePayload(conns[c].up))
    <2>1. /\ c \in 1..Len(conns) /\ request.id \in Nat
          /\ \E r \in Connection : conns' = [conns EXCEPT ![c] = r]
          /\ executed' = Append(executed, <<c, request.id>>)
          /\ UNCHANGED <<server, caller, sub, written>>
      <3>1. Serve(c)
        BY <1>2
      <3> QED BY <3>1, ServeIs
    <2> HIDE DEF request
    <2>2. conns' \in Seq(Connection) /\ Len(conns') = Len(conns)
      <3>1. PICK r \in Connection : conns' = [conns EXCEPT ![c] = r]
        BY <2>1
      <3>2. /\ [conns EXCEPT ![c] = r] \in Seq(Connection)
            /\ Len([conns EXCEPT ![c] = r]) = Len(conns)
        BY <1>1, <2>1, Changed
      <3> QED BY <3>1, <3>2
    <2>3. HistoryType'
      <3>1. executed' \in Seq((1..Len(conns)) \X Nat)
        BY <2>1, AppendProperties DEF TypeOK, HistoryType
      <3> QED BY <2>1, <2>2, <3>1 DEF TypeOK, HistoryType
    <2> QED BY <2>1, <2>2, <2>3, TypeKept DEF TypeOK
  <1>3. ASSUME \/ \E c \in DOMAIN conns : ServeGarbage(c) \/ CloseSession(c)
               \/ Publish \/ DaemonStarts \/ DaemonStops
        PROVE  TypeOK'
    <2>1. /\ conns' \in Seq(Connection) /\ Len(conns') = Len(conns)
          /\ UNCHANGED <<caller, sub, history>> /\ DaemonType'
      BY <1>3, ServerIs
    <2> QED BY <2>1, TypeKept DEF TypeOK
  <1> QED BY <1>2, <1>3 DEF Server

LEMMA DisconnectType ==
    ASSUME TypeOK, Disconnect,
           pc = "idle", UNCHANGED <<server, pc, call, late, attempt, outcome, sub, history>>
    PROVE  TypeOK'
  <1>1. conns \in Seq(Connection) /\ connection_ \in 0..Len(conns) /\ Len(conns) \in Nat
    BY DEF TypeOK, CallerType
  <1>2. conns' \in Seq(Connection) /\ Len(conns') = Len(conns)
    <2>1. connection_ # 0 => connection_ \in 1..Len(conns)
      BY <1>1
    <2> QED BY <1>1, <2>1, HungIs DEF Disconnect
  <1>3. connection_' = 0 /\ reader_' = <<>> /\ next_request_id_' = 1
    BY DEF Disconnect
  <1>4. connection_' \in 0..Len(conns') /\ reader_' \in Seq(Cell)
    BY <1>1, <1>2, <1>3, EmptySeq
  <1>5. CallerType'
    BY <1>3, <1>4 DEF TypeOK, CallerType
  <1> QED BY <1>2, <1>5, TypeKept DEF TypeOK

(* No step of the client or of the daemon leaves the types. *)
LEMMA StepType ==
    ASSUME TypeOK, Changes \/ UNCHANGED vars
    PROVE  TypeOK'
  <1>1. CASE Ask
    BY <1>1, AskType
  <1>2. CASE RoundTrip \/ Tick
    BY <1>2, RoundTripType
  <1>3. CASE Subscribe
    BY <1>3, SubscribeType
  <1>4. CASE Unsubscribe \/ Join
    BY <1>4, UnsubscribeType
  <1>5. CASE Worker
    BY <1>5, WorkerType
  <1>6. CASE Server
    BY <1>6, ServerType
  <1>7. CASE /\ Disconnect
             /\ pc = "idle"
             /\ UNCHANGED <<server, pc, call, late, attempt, outcome, sub, history>>
    BY <1>7, DisconnectType
  <1>8. CASE UNCHANGED vars
    <2>1. UNCHANGED <<server, conns, caller, sub, history>>
      BY <1>8 DEF vars
    <2>2. conns' \in Seq(Connection) /\ Len(conns') = Len(conns)
      BY <2>1 DEF TypeOK
    <2> QED BY <2>1, <2>2, TypeKept DEF TypeOK
  <1> QED BY <1>1, <1>2, <1>3, <1>4, <1>5, <1>6, <1>7, <1>8 DEF Changes, Next

-----------------------------------------------------------------------------
(* Answers.                                                                 *)

\* Every reply of success among these cells answers a request of connection c.
Own(c, s) ==
    \A i \in 1..Len(s) : \A m \in Message, k \in Nat :
        s[i] = Text(m, k) /\ m.kind = "reply" /\ m.ok => m.of = <<c, m.id>>

\* The answers on a line, and those read from the request connection, are its own.
AnswerInv ==
    /\ \A c \in 1..Len(conns) : Own(c, conns[c].down)
    /\ connection_ # 0 => Own(connection_, reader_)
    /\ AnswersAreOwn

LEMMA OwnNone == ASSUME NEW c PROVE Own(c, <<>>)
  BY EmptySeq DEF Own

(* A part of what was received, and two parts behind one another. *)
LEMMA OwnParts ==
    ASSUME NEW c, NEW s \in Seq(Cell), NEW t \in Seq(Cell), Own(c, s), Own(c, t)
    PROVE  /\ Own(c, s \o t)
           /\ \A n \in 1..Len(s) : Own(c, SubSeq(s, 1, n)) /\ Own(c, SubSeq(s, n + 1, Len(s)))
           /\ HasFrame(s, MaxFrame) => Own(c, AfterFrame(s))
  <1>1. Own(c, s \o t)
    <2>1. /\ Len(s \o t) = Len(s) + Len(t) /\ Len(s) \in Nat /\ Len(t) \in Nat
          /\ \A i \in 1..(Len(s) + Len(t)) :
                 (s \o t)[i] = IF i <= Len(s) THEN s[i] ELSE t[i - Len(s)]
      BY ConcatProperties
    <2>2. ASSUME NEW i \in 1..Len(s \o t), NEW m \in Message, NEW k \in Nat,
                 (s \o t)[i] = Text(m, k), m.kind = "reply", m.ok
          PROVE  m.of = <<c, m.id>>
      <3>1. CASE i <= Len(s)
        <4>1. i \in 1..Len(s) /\ s[i] = Text(m, k)
          BY <2>1, <2>2, <3>1
        <4> QED BY <2>2, <4>1, Zenon DEF Own
      <3>2. CASE ~(i <= Len(s))
        <4>1. i - Len(s) \in 1..Len(t) /\ t[i - Len(s)] = Text(m, k)
          BY <2>1, <2>2, <3>2
        <4> QED BY <2>2, <4>1, Zenon DEF Own
      <3> QED BY <3>1, <3>2
    <2> QED BY <2>2, Zenon DEF Own
  <1>2. ASSUME NEW u \in Seq(Cell), NEW d \in Nat, \A i \in 1..Len(u) : i + d \in 1..Len(s) /\ u[i] = s[i + d]
        PROVE  Own(c, u)
    <2>1. ASSUME NEW i \in 1..Len(u), NEW m \in Message, NEW k \in Nat,
                 u[i] = Text(m, k), m.kind = "reply", m.ok
          PROVE  m.of = <<c, m.id>>
      <3>1. i + d \in 1..Len(s) /\ s[i + d] = Text(m, k)
        BY <1>2, <2>1
      <3> QED BY <2>1, <3>1, Zenon DEF Own
    <2> QED BY <2>1, Zenon DEF Own
  <1>3. ASSUME NEW n \in 1..Len(s)
        PROVE  Own(c, SubSeq(s, 1, n)) /\ Own(c, SubSeq(s, n + 1, Len(s)))
    <2>1. /\ SubSeq(s, 1, n) \in Seq(Cell) /\ Len(SubSeq(s, 1, n)) = n
          /\ \A i \in 1..n : SubSeq(s, 1, n)[i] = s[i]
          /\ SubSeq(s, n + 1, Len(s)) \in Seq(Cell)
          /\ Len(SubSeq(s, n + 1, Len(s))) = Len(s) - n
          /\ \A i \in 1..(Len(s) - n) : SubSeq(s, n + 1, Len(s))[i] = s[n + i]
      BY Cut
    <2> DEFINE u == SubSeq(s, 1, n)
               v == SubSeq(s, n + 1, Len(s))
    <2>2. /\ u \in Seq(Cell) /\ Len(u) = n /\ \A i \in 1..n : u[i] = s[i]
          /\ v \in Seq(Cell) /\ Len(v) = Len(s) - n /\ \A i \in 1..(Len(s) - n) : v[i] = s[n + i]
      BY <2>1
    <2> HIDE DEF u, v
    <2>3. \A i \in 1..Len(u) : i + 0 \in 1..Len(s) /\ u[i] = s[i + 0]
      BY <2>2
    <2>4. \A i \in 1..Len(v) : i + n \in 1..Len(s) /\ v[i] = s[i + n]
      BY <2>2
    <2>5. 0 \in Nat /\ n \in Nat /\ u \in Seq(Cell) /\ v \in Seq(Cell)
      BY <2>2
    <2>6. Own(c, u)
      BY <1>2, <2>3, <2>5, Zenon
    <2>7. Own(c, v)
      BY <1>2, <2>4, <2>5, Zenon
    <2> QED BY <2>6, <2>7 DEF u, v
  <1>4. ASSUME HasFrame(s, MaxFrame) PROVE Own(c, AfterFrame(s))
    <2> DEFINE v == AfterFrame(s)
               n == s[1].length
    <2>1. /\ n \in Nat /\ 1 + n <= Len(s) /\ Len(s) \in Nat
          /\ v \in Seq(Cell) /\ Len(v) = Len(s) - (1 + n)
          /\ \A i \in 1..(Len(s) - (1 + n)) : v[i] = s[i + 1 + n]
      BY <1>4, FrameOf
    <2> HIDE DEF v, n
    <2>2. \A i \in 1..Len(v) : i + (1 + n) \in 1..Len(s) /\ v[i] = s[i + (1 + n)]
      BY <2>1
    <2>3. 1 + n \in Nat /\ v \in Seq(Cell)
      BY <2>1
    <2>4. Own(c, v)
      BY <1>2, <2>2, <2>3, Zenon
    <2> QED BY <2>4 DEF v
  <1> QED BY <1>1, <1>3, <1>4

(* What the daemon says: an answer to a request of this connection, or something else. *)
LEMMA OwnSaid ==
    ASSUME NEW c, NEW m \in Message, m.kind = "reply" /\ m.ok => m.of = <<c, m.id>>
    PROVE  Own(c, Encoded(m)) /\ Encoded(m) \in Seq(Cell)
  <1>1. /\ Cells(m) \in Nat \ {0}
        /\ Encoded(m) \in Seq(Cell)
        /\ Len(Encoded(m)) = 1 + Cells(m)
        /\ Encoded(m)[1] = Length(Cells(m))
        /\ \A k \in 1..Cells(m) : Encoded(m)[1 + k] = Text(m, k)
    BY EncodedIs
  <1>2. ASSUME NEW i \in 1..Len(Encoded(m)), NEW x \in Message, NEW k \in Nat,
               Encoded(m)[i] = Text(x, k)
        PROVE  x = m
    <2>1. CASE i = 1
      <3>1. Length(Cells(m)) = Text(x, k)
        BY <1>1, <1>2, <2>1
      <3> QED BY <3>1 DEF Length, Text
    <2>2. CASE i # 1
      <3>1. i - 1 \in 1..Cells(m) /\ 1 + (i - 1) = i
        BY <1>1, <2>2
      <3>2. Encoded(m)[i] = Text(m, i - 1)
        BY <1>1, <3>1
      <3>3. Text(m, i - 1) = Text(x, k)
        BY <1>2, <3>2
      <3> QED BY <3>3 DEF Text
    <2> QED BY <2>1, <2>2
  <1> QED BY <1>1, <1>2, Zenon DEF Own

(* The downward streams where none of them changes, and where a connection is added. *)
SameDown == /\ Len(conns') = Len(conns)
            /\ \A c \in 1..Len(conns) : conns'[c].down = conns[c].down

OneMore(r) == conns' = Append(conns, r) /\ r \in Connection /\ r.down = <<>>

LEMMA DownKept ==
    ASSUME TypeOK, AnswerInv, SameDown \/ \E r \in Connection : OneMore(r)
    PROVE  \A c \in 1..Len(conns') : Own(c, conns'[c].down)
  <1>1. CASE SameDown
    BY <1>1, Zenon DEF SameDown, AnswerInv
  <1>2. ASSUME NEW r \in Connection, OneMore(r)
        PROVE  \A c \in 1..Len(conns') : Own(c, conns'[c].down)
    <2>1. /\ Len(conns') = Len(conns) + 1 /\ Len(conns) \in Nat
          /\ \A c \in 1..Len(conns) : conns'[c] = conns[c]
          /\ conns'[Len(conns) + 1] = r
      BY <1>2, AppendProperties DEF OneMore, TypeOK
    <2>2. ASSUME NEW c \in 1..Len(conns') PROVE Own(c, conns'[c].down)
      <3>1. CASE c \in 1..Len(conns)
        BY <2>1, <3>1, Zenon DEF AnswerInv
      <3>2. CASE c \notin 1..Len(conns)
        <4>1. conns'[c] = r
          BY <2>1, <3>2
        <4> QED BY <1>2, <4>1, OwnNone, Zenon DEF OneMore
      <3> QED BY <3>1, <3>2
    <2> QED BY <2>2
  <1> QED BY <1>1, <1>2

(* The end of a round trip, with the answer to this call or without one. *)
LEMMA EndsOwn ==
    ASSUME TypeOK, AnswerInv, connection_ # 0, NEW ok \in BOOLEAN, NEW of,
           RoundTripEnds(conns, ok, of),
           ok => of = <<connection_, call.id>>
    PROVE  /\ AnswersAreOwn' /\ SameDown
           /\ connection_' = 0 \/ connection_' = connection_
  <1>1. conns \in Seq(Connection) /\ connection_ \in 1..Len(conns)
    BY DEF TypeOK, CallerType
  <1>2. SameDown
    <2>1. conns' = conns \/ conns' = Hung(conns, connection_)
      BY DEF RoundTripEnds
    <2>2. Len(Hung(conns, connection_)) = Len(conns)
          /\ \A c \in 1..Len(conns) : Hung(conns, connection_)[c].down = conns[c].down
      BY <1>1, HungIs
    <2> QED BY <2>1, <2>2, Zenon DEF SameDown
  <1>3. CASE call.method = "hello" /\ ~ok
    <2>1. AttemptFails
      BY <1>3, Zenon DEF RoundTripEnds
    <2>2. connection_' = 0 /\ ~outcome'.ok
      BY <2>1 DEF AttemptFails
    <2> QED BY <1>2, <2>2, Zenon DEF AnswersAreOwn
  <1>4. CASE ~(call.method = "hello" /\ ~ok)
    <2>1. /\ outcome' = [method |-> call.method, call |-> <<connection_, call.id>>,
                         ok |-> ok, of |-> of]
          /\ connection_' = connection_
      BY <1>4, Zenon DEF RoundTripEnds
    <2>2. outcome'.ok = ok /\ outcome'.of = of /\ outcome'.call = <<connection_, call.id>>
      BY <2>1
    <2> QED BY <1>2, <2>1, <2>2, Zenon DEF AnswersAreOwn
  <1> QED BY <1>3, <1>4

LEMMA NextFrameOwn ==
    ASSUME TypeOK, AnswerInv, NextFrame
    PROVE  AnswerInv'
  <1> DEFINE p == FramePayload(reader_)
             m == Parsed(p)
  <1>1. /\ reader_ \in Seq(Cell) /\ connection_ # 0 /\ HasFrame(reader_, MaxFrame) /\ Parses(p)
        /\ reader_' = AfterFrame(reader_)
    BY DEF TypeOK, CallerType, NextFrame
  <1>2. Own(connection_, reader_) /\ Own(connection_, reader_')
    <2>1. Own(connection_, reader_)
      BY <1>1, Zenon DEF AnswerInv
    <2> QED BY <1>1, <2>1, OwnParts
  <1>3. m \in Message /\ reader_[2] = Text(m, 1) /\ 2 \in 1..Len(reader_)
    <2>1. /\ p \in Seq(Cell) /\ Len(p) = reader_[1].length /\ reader_[1].length \in Nat
          /\ \A k \in 1..reader_[1].length : p[k] = reader_[1 + k]
          /\ 1 + reader_[1].length <= Len(reader_) /\ Len(reader_) \in Nat
      BY <1>1, FrameOf
    <2>2. m \in Message /\ 1 \in 1..Len(p) /\ p[1] = Text(m, 1)
      BY <1>1, <2>1, ParsedIs
    <2> HIDE DEF p
    <2>3. p[1] = reader_[2] /\ 2 \in 1..Len(reader_)
      BY <2>1, <2>2
    <2> QED BY <2>2, <2>3
  <1>4. \/ Mine(m) /\ RoundTripEnds(conns, m.ok, m.of)
        \/ UNCHANGED <<conns, connection_, outcome>>
    BY Zenon DEF NextFrame
  <1> HIDE DEF m
  <1>5. CASE Mine(m) /\ RoundTripEnds(conns, m.ok, m.of)
    <2>1. m.kind = "reply" /\ m.id = call.id
      BY <1>5 DEF Mine
    <2>2. m.ok \in BOOLEAN
      BY <1>3, <2>1 DEF Message
    <2>3. m.ok => m.of = <<connection_, call.id>>
      BY <1>2, <1>3, <2>1 DEF Own
    <2>4. /\ AnswersAreOwn' /\ SameDown
          /\ connection_' = 0 \/ connection_' = connection_
      BY <1>1, <1>5, <2>2, <2>3, EndsOwn
    <2>5. \A c \in 1..Len(conns') : Own(c, conns'[c].down)
      BY <2>4, DownKept
    <2>6. connection_' # 0 => Own(connection_', reader_')
      BY <1>2, <2>4, Zenon
    <2> QED BY <2>4, <2>5, <2>6, Zenon DEF AnswerInv
  <1>6. CASE UNCHANGED <<conns, connection_, outcome>>
    BY <1>2, <1>6, Zenon DEF AnswerInv, AnswersAreOwn
  <1> QED BY <1>4, <1>5, <1>6

(* What a thread takes from a connection is its own, and so is what it leaves. *)
LEMMA TakenOwn ==
    ASSUME TypeOK, AnswerInv, NEW d \in 1..Len(conns), NEW n \in 1..Len(conns[d].down),
           conns' = [conns EXCEPT ![d].down = SubSeq(@, n + 1, Len(@))]
    PROVE  /\ \A c \in 1..Len(conns') : Own(c, conns'[c].down)
           /\ Own(d, SubSeq(conns[d].down, 1, n)) /\ SubSeq(conns[d].down, 1, n) \in Seq(Cell)
           /\ Len(conns') = Len(conns)
  <1> DEFINE s == conns[d].down
             t == SubSeq(s, n + 1, Len(s))
             r == [conns[d] EXCEPT !.down = t]
  <1>1. conns \in Seq(Connection)
    BY DEF TypeOK
  <1>2. conns[d] \in Connection /\ s \in Seq(Cell) /\ Own(d, s)
    BY <1>1, OneOf DEF AnswerInv
  <1>3. t \in Seq(Cell) /\ SubSeq(s, 1, n) \in Seq(Cell)
    BY <1>2, Cut
  <1>4. Own(d, t) /\ Own(d, SubSeq(s, 1, n))
    BY <1>2, OwnParts
  <1>5. conns' = [conns EXCEPT ![d] = r]
    OBVIOUS
  <1> HIDE DEF t
  <1>6. r \in Connection /\ r.down = t
    BY <1>2, <1>3 DEF Connection
  <1> HIDE DEF r, s
  <1>7. /\ Len([conns EXCEPT ![d] = r]) = Len(conns)
        /\ [conns EXCEPT ![d] = r][d] = r
        /\ \A c \in 1..Len(conns) : c # d => [conns EXCEPT ![d] = r][c] = conns[c]
    BY <1>1, <1>6, Changed
  <1>8. ASSUME NEW c \in 1..Len(conns) PROVE Own(c, [conns EXCEPT ![d] = r][c].down)
    <2>1. CASE c = d
      BY <1>4, <1>6, <1>7, <2>1, Zenon
    <2>2. CASE c # d
      BY <1>7, <2>2, Zenon DEF AnswerInv
    <2> QED BY <2>1, <2>2
  <1> QED BY <1>3, <1>4, <1>5, <1>7, <1>8, Zenon DEF s

(* Each answer the daemon writes is to the request it has just read from that line. *)
LEMMA ServerOwn ==
    ASSUME TypeOK, AnswerInv, Server
    PROVE  AnswerInv'
  <1>1. conns \in Seq(Connection)
    BY DEF TypeOK
  <1>2. ASSUME NEW d \in DOMAIN conns, Serve(d)
        PROVE  AnswerInv'
    <2> DEFINE up == conns[d].up
               request == Parsed(FramePayload(up))
    <2>1. /\ d \in 1..Len(conns) /\ request.id \in Nat
          /\ \E r \in Connection :
                 /\ conns' = [conns EXCEPT ![d] = r]
                 /\ \/ /\ r.up = AfterFrame(up)
                       /\ \E ok \in BOOLEAN : r.down =
                              conns[d].down \o Encoded(Reply(request.id, ok, <<d, request.id>>))
                    \/ r.up = <<>> /\ r.down = conns[d].down
          /\ UNCHANGED caller
      <3>1. Serve(d)
        BY <1>2
      <3> QED BY <3>1, ServeIs
    <2> HIDE DEF request, up
    <2>2. conns[d].down \in Seq(Cell) /\ Own(d, conns[d].down)
      BY <1>1, <2>1, OneOf DEF AnswerInv
    <2>3. ASSUME NEW ok \in BOOLEAN
          PROVE  Own(d, conns[d].down \o Encoded(Reply(request.id, ok, <<d, request.id>>)))
      <3> DEFINE m == Reply(request.id, ok, <<d, request.id>>)
      <3>1. d \in Nat
        BY <2>1
      <3>2. m \in Message /\ m.of = <<d, m.id>>
        BY <2>1, <3>1, MessageType DEF Reply
      <3> HIDE DEF m
      <3>3. Own(d, Encoded(m)) /\ Encoded(m) \in Seq(Cell)
        BY <3>2, OwnSaid
      <3>4. Own(d, conns[d].down \o Encoded(m))
        BY <2>2, <3>3, OwnParts
      <3> QED BY <3>4 DEF m
    <2>4. PICK r \in Connection :
              conns' = [conns EXCEPT ![d] = r] /\ Own(d, r.down)
      BY <2>1, <2>2, <2>3, Zenon
    <2>5. /\ Len([conns EXCEPT ![d] = r]) = Len(conns)
          /\ [conns EXCEPT ![d] = r][d] = r
          /\ \A c \in 1..Len(conns) : c # d => [conns EXCEPT ![d] = r][c] = conns[c]
      BY <1>1, <2>1, Changed
    <2>6. ASSUME NEW c \in 1..Len(conns') PROVE Own(c, conns'[c].down)
      <3>1. CASE c = d
        BY <2>4, <2>5, <3>1, Zenon
      <3>2. CASE c # d
        BY <2>4, <2>5, <3>2, Zenon DEF AnswerInv
      <3> QED BY <3>1, <3>2
    <2>7. UNCHANGED <<connection_, reader_, outcome>>
      BY <2>1 DEF caller
    <2> QED BY <2>6, <2>7, Zenon DEF AnswerInv, AnswersAreOwn
  <1>3. ASSUME \/ \E c \in DOMAIN conns : ServeGarbage(c) \/ CloseSession(c)
               \/ Publish \/ DaemonStarts \/ DaemonStops
        PROVE  AnswerInv'
    <2>1. /\ Len(conns') = Len(conns)
          /\ \A c \in 1..Len(conns) : Extended(conns, conns', c)
          /\ UNCHANGED caller
      BY <1>3, ServerIs
    <2>2. ASSUME NEW c \in 1..Len(conns') PROVE Own(c, conns'[c].down)
      <3>1. c \in 1..Len(conns) /\ Extended(conns, conns', c)
        BY <2>1
      <3>2. conns[c].down \in Seq(Cell) /\ Own(c, conns[c].down)
        BY <1>1, <3>1, OneOf DEF AnswerInv
      <3>3. ASSUME NEW m \in Message, ~(m.kind = "reply" /\ m.ok)
            PROVE  Own(c, conns[c].down \o Encoded(m))
        <4>1. Own(c, Encoded(m)) /\ Encoded(m) \in Seq(Cell)
          BY <3>3, OwnSaid, Zenon
        <4> QED BY <3>2, <4>1, OwnParts
      <3>4. Reply(0, FALSE, Nobody) \in Message /\ ~Reply(0, FALSE, Nobody).ok
        BY MessageType DEF Reply
      <3>5. ASSUME NEW n \in Nat PROVE Event(n) \in Message /\ Event(n).kind # "reply"
        BY MessageType DEF Event
      <3> QED BY <3>1, <3>2, <3>3, <3>4, <3>5, Zenon DEF Extended
    <2>3. UNCHANGED <<connection_, reader_, outcome>>
      BY <2>1 DEF caller
    <2> QED BY <2>2, <2>3, Zenon DEF AnswerInv, AnswersAreOwn
  <1> QED BY <1>2, <1>3 DEF Server

LEMMA ReadOwn ==
    ASSUME TypeOK, AnswerInv, Read
    PROVE  AnswerInv'
  <1>1. connection_ \in 1..Len(conns) /\ reader_ \in Seq(Cell)
    BY DEF TypeOK, CallerType, Read
  <1>2. UNCHANGED <<connection_, outcome>>
    BY DEF Read
  <1>3. Own(connection_, reader_)
    BY <1>1, Zenon DEF AnswerInv, TypeOK, CallerType, Read
  <1>4. CASE UNCHANGED <<reader_, conns>>
    BY <1>2, <1>4, Zenon DEF AnswerInv, AnswersAreOwn
  <1>5. ASSUME NEW n \in 1..Len(conns[connection_].down),
               reader_' = reader_ \o SubSeq(conns[connection_].down, 1, n),
               conns' = [conns EXCEPT ![connection_].down = SubSeq(@, n + 1, Len(@))]
        PROVE  AnswerInv'
    <2>1. /\ \A c \in 1..Len(conns') : Own(c, conns'[c].down)
          /\ Own(connection_, SubSeq(conns[connection_].down, 1, n))
          /\ SubSeq(conns[connection_].down, 1, n) \in Seq(Cell)
      BY <1>1, <1>5, TakenOwn
    <2>2. Own(connection_, reader_')
      BY <1>1, <1>3, <1>5, <2>1, OwnParts
    <2> QED BY <1>2, <2>1, <2>2, Zenon DEF AnswerInv, AnswersAreOwn
  <1> QED BY <1>4, <1>5 DEF Read

LEMMA RoundTripOwn ==
    ASSUME TypeOK, AnswerInv, RoundTrip \/ Tick
    PROVE  AnswerInv'
  <1>1. CASE Dial
    <2>1. OneMore(NewConnection)
      BY <1>1, NewIs DEF OneMore, Dial
    <2>2. \A c \in 1..Len(conns') : Own(c, conns'[c].down)
      BY <2>1, NewIs, DownKept
    <2>3. reader_' = <<>> /\ outcome' = outcome
      BY <1>1 DEF Dial
    <2> QED BY <2>2, <2>3, OwnNone, Zenon DEF AnswerInv, AnswersAreOwn
  <1>2. CASE DialFails
    <2>1. conns' = conns /\ connection_' = 0 /\ ~outcome'.ok
      BY <1>2 DEF DialFails, AttemptFails
    <2> QED BY <2>1, Zenon DEF AnswerInv, AnswersAreOwn
  <1>3. CASE Write
    <2>1. connection_ \in 1..Len(conns) /\ conns \in Seq(Connection) /\ call.rest \in Seq(Cell)
      BY <1>3, SMTT(30) DEF TypeOK, CallerType, Write
    <2>2. PICK n \in 1..Len(call.rest) : conns' = Sent(conns, connection_, SubSeq(call.rest, 1, n))
      BY <1>3 DEF Write
    <2> DEFINE s == conns[connection_].up \o SubSeq(call.rest, 1, n)
               r == [conns[connection_] EXCEPT !.up = s]
    <2>3. conns' = [conns EXCEPT ![connection_] = r]
      BY <2>2 DEF Sent
    <2>4. s \in Seq(Cell) /\ conns[connection_] \in Connection
      BY <2>1, OneOf, Cut, ConcatProperties
    <2> HIDE DEF s
    <2>5. r \in Connection /\ r.down = conns[connection_].down
      BY <2>4 DEF Connection
    <2> HIDE DEF r
    <2>6. SameDown
      <3>1. /\ Len([conns EXCEPT ![connection_] = r]) = Len(conns)
            /\ [conns EXCEPT ![connection_] = r][connection_] = r
            /\ \A c \in 1..Len(conns) : c # connection_ =>
                   [conns EXCEPT ![connection_] = r][c] = conns[c]
        BY <2>1, <2>5, Changed
      <3> QED BY <2>3, <2>5, <3>1, Zenon DEF SameDown
    <2>7. UNCHANGED <<connection_, reader_, outcome>>
      BY <1>3 DEF Write
    <2> QED BY <2>6, <2>7, DownKept, Zenon DEF AnswerInv, AnswersAreOwn
  <1>4. CASE WriteFails \/ DeadlinePasses \/ ReadsEnd
    <2>1. connection_ # 0 /\ reader_' = reader_ /\ RoundTripEnds(conns, FALSE, Nobody)
      BY <1>4 DEF TypeOK, CallerType, WriteFails, DeadlinePasses, ReadsEnd, RoundTripFails
    <2>2. /\ AnswersAreOwn' /\ SameDown
          /\ connection_' = 0 \/ connection_' = connection_
      BY <2>1, EndsOwn
    <2> QED BY <2>1, <2>2, DownKept, Zenon DEF AnswerInv
  <1>5. CASE NextFrame
    BY <1>5, NextFrameOwn
  <1>6. CASE ReadMore \/ Tick
    <2>1. UNCHANGED <<conns, connection_, reader_, outcome>>
      BY <1>6 DEF ReadMore, Tick
    <2> QED BY <2>1, Zenon DEF AnswerInv, AnswersAreOwn
  <1>7. CASE Read
    BY <1>7, ReadOwn
  <1> QED BY <1>1, <1>2, <1>3, <1>4, <1>5, <1>6, <1>7 DEF RoundTrip

LEMMA StepOwn ==
    ASSUME TypeOK, AnswerInv, Changes \/ UNCHANGED vars
    PROVE  AnswerInv'
  <1>1. CASE Ask
    <2>1. UNCHANGED <<conns, connection_, reader_>>
      BY <1>1 DEF Ask, StartConnect, StartCall, RefuseCall
    <2>2. UNCHANGED outcome \/ ~outcome'.ok
      BY <1>1 DEF Ask, StartConnect, StartCall, RefuseCall
    <2> QED BY <2>1, <2>2, Zenon DEF AnswerInv, AnswersAreOwn
  <1>2. CASE RoundTrip \/ Tick
    BY <1>2, RoundTripOwn
  <1>3. CASE Subscribe
    <2> DEFINE r == [NewConnection EXCEPT !.up = Encoded(Request(next_request_id_, "subscribe"))]
    <2>1. Encoded(Request(next_request_id_, "subscribe")) \in Seq(Cell)
      <3>1. next_request_id_ \in Nat
        BY DEF TypeOK, CallerType
      <3> QED BY <3>1, MessageType, EncodedIs
    <2>2. r \in Connection /\ r.down = <<>>
      BY <2>1, NewIs DEF Connection
    <2>3. conns' = Append(conns, r) /\ UNCHANGED <<connection_, reader_, outcome>>
      BY <1>3 DEF Subscribe
    <2> HIDE DEF r
    <2>4. OneMore(r)
      BY <2>2, <2>3 DEF OneMore
    <2> QED BY <2>2, <2>3, <2>4, DownKept, Zenon DEF AnswerInv, AnswersAreOwn
  <1>4. CASE Unsubscribe
    <2>1. subscription_ \in 1..Len(conns) /\ conns \in Seq(Connection)
      BY <1>4 DEF TypeOK, SubscriptionType, Unsubscribe
    <2>2. conns' = Hung(conns, subscription_) /\ UNCHANGED <<connection_, reader_, outcome>>
      BY <1>4 DEF Unsubscribe
    <2>3. SameDown
      BY <2>1, <2>2, HungIs DEF SameDown
    <2> QED BY <2>2, <2>3, DownKept, Zenon DEF AnswerInv, AnswersAreOwn
  <1>5. CASE Join \/ UNCHANGED vars
    <2>1. UNCHANGED <<conns, connection_, reader_, outcome>>
      BY <1>5 DEF Join, vars, caller
    <2> QED BY <2>1, Zenon DEF AnswerInv, AnswersAreOwn
  <1>6. CASE Worker
    <2>1. UNCHANGED <<connection_, reader_, outcome>>
      BY <1>6 DEF Worker, WorkerLoop, WorkerReads, WorkerNext, CallbackReturns, caller
    <2>2. CASE conns' = conns
      BY <2>1, <2>2, Zenon DEF AnswerInv, AnswersAreOwn
    <2>3. ASSUME worker.pc = "read", NEW n \in 1..Len(conns[worker.conn].down),
                 conns' = [conns EXCEPT ![worker.conn].down = SubSeq(@, n + 1, Len(@))]
          PROVE  AnswerInv'
      <3>1. worker.conn \in 1..Len(conns)
        <4>1. worker.conn # 0
          BY <2>3 DEF TypeOK, SubscriptionType
        <4>2. worker.conn \in 0..Len(conns) /\ Len(conns) \in Nat
          BY DEF TypeOK, SubscriptionType
        <4> QED BY <4>1, <4>2
      <3>2. \A c \in 1..Len(conns') : Own(c, conns'[c].down)
        BY <2>3, <3>1, TakenOwn
      <3> QED BY <2>1, <3>2, Zenon DEF AnswerInv, AnswersAreOwn
    <2>4. \/ conns' = conns
          \/ /\ worker.pc = "read"
             /\ \E n \in 1..Len(conns[worker.conn].down) :
                    conns' = [conns EXCEPT ![worker.conn].down = SubSeq(@, n + 1, Len(@))]
      BY <1>6, Zenon DEF Worker, WorkerLoop, WorkerReads, WorkerNext, CallbackReturns
    <2> QED BY <2>2, <2>3, <2>4
  <1>7. CASE Server
    BY <1>7, ServerOwn
  <1>8. CASE Disconnect /\ UNCHANGED outcome
    <2>1. connection_' = 0
      BY <1>8 DEF Disconnect
    <2>2. SameDown
      <3>1. connection_ = 0 \/ connection_ \in 1..Len(conns)
        BY DEF TypeOK, CallerType
      <3>2. conns \in Seq(Connection)
        BY DEF TypeOK
      <3>3. CASE connection_ = 0
        BY <1>8, <3>3, Zenon DEF Disconnect, SameDown
      <3>4. CASE connection_ # 0
        BY <1>8, <3>1, <3>2, <3>4, HungIs DEF Disconnect, SameDown
      <3> QED BY <3>3, <3>4
    <2> QED BY <1>8, <2>1, <2>2, DownKept, Zenon DEF AnswerInv, AnswersAreOwn
  <1> QED BY <1>1, <1>2, <1>3, <1>4, <1>5, <1>6, <1>7, <1>8 DEF Changes, Next, caller

-----------------------------------------------------------------------------
(* Requests.                                                                *)

Requests == {m \in Message : m.kind = "request"}

\* The cells of a stream of requests, some of them without their end and the first of them
\* perhaps without its beginning: each is one of a request, the first cell of a request is
\* behind its length, and they come in the order in which they were written.
Known(s) == \A i \in 1..Len(s) : \A m \in Message, k \in Nat :
                s[i] = Text(m, k) => m \in Requests /\ k <= Cells(m)

Headed(s) == \A i \in 2..Len(s) : \A m \in Message :
                s[i] = Text(m, 1) => s[i - 1] = Length(Cells(m))

Later(m, k, x, l) == m.id < x.id \/ (m = x /\ k < l)

Ordered(s) == \A i, j \in 1..Len(s) : \A m, x \in Message : \A k, l \in Nat :
                i < j /\ s[i] = Text(m, k) /\ s[j] = Text(x, l) => Later(m, k, x, l)

\* A request of which the last cell is on the line has been written whole.
Backed(c, s, sent) == \A i \in 1..Len(s) : \A m \in Message :
                s[i] = Text(m, Cells(m)) => <<c, m.id>> \in sent

\* What is on the line is younger than what was run.
Ahead(c, s, ran) == \A e \in 1..Len(ran) : \A i \in 1..Len(s) : \A m \in Message, k \in Nat :
                ran[e][1] = c /\ s[i] = Text(m, k) => ran[e][2] < m.id

SaidBelow(s, id) == \A i \in 1..Len(s) : \A m \in Message, k \in Nat : s[i] = Text(m, k) => m.id < id

RunBelow(c, ran, id) == \A e \in 1..Len(ran) : ran[e][1] = c => ran[e][2] < id

\* w cells of the frame of m have been written behind older requests, rest has not.
Before(m, w, s) == \A i \in 1..Len(s) : \A x \in Message, k \in Nat :
                s[i] = Text(x, k) => Later(x, k, m, w)

Left(m, w, rest) == /\ Len(rest) = 1 + Cells(m) - w
                    /\ \A j \in 1..Len(rest) : rest[j] = Encoded(m)[w + j]

Led(m, w, s) == w = 1 => s = <<>> \/ s[Len(s)] = Length(Cells(m))

Writing(m, w, s, rest) == Before(m, w, s) /\ Left(m, w, rest) /\ Led(m, w, s)

\* The line from the client to the daemon of connection c; the ids used on the request
\* connection; and the request that is being written to it.
Line(c, s, sent, ran) ==
    Known(s) /\ Headed(s) /\ Ordered(s) /\ Backed(c, s, sent) /\ Ahead(c, s, ran)

Numbered(c, s, ran, id) == c # 0 => SaidBelow(s, id) /\ RunBelow(c, ran, id)

UnderWay(c, s, ran, id, method, rest, next) ==
    LET m == Request(id, method) IN
    /\ m \in Requests /\ id < next
    /\ RunBelow(c, ran, id)
    /\ \E w \in 0..Cells(m) : Writing(m, w, s, rest)

UpInv ==
    /\ \A c \in 1..Len(conns) : Line(c, conns[c].up, written, executed)
    /\ RunsWhatWasSent
    /\ Numbered(connection_, conns[connection_].up, executed, next_request_id_)
    /\ pc = "write" => UnderWay(connection_, conns[connection_].up, executed, call.id,
                                call.method, call.rest, next_request_id_)

\* What holds of a stream holds of another one.
Keeps(s, u) ==
    /\ Known(s) => Known(u)
    /\ Headed(s) => Headed(u)
    /\ Ordered(s) => Ordered(u)
    /\ \A c, sent : Backed(c, s, sent) => Backed(c, u, sent)
    /\ \A c, ran : Ahead(c, s, ran) => Ahead(c, u, ran)
    /\ \A id : SaidBelow(s, id) => SaidBelow(u, id)
    /\ \A m, w : Before(m, w, s) => Before(m, w, u)
    /\ \A m, w : Led(m, w, s) => Led(m, w, u)

(* All of it holds of what is left of a stream. *)
LEMMA Remainder ==
    ASSUME NEW s \in Seq(Cell), NEW u \in Seq(Cell), NEW d \in Nat,
           \A i \in 1..Len(u) : i + d \in 1..Len(s) /\ u[i] = s[i + d],
           u = <<>> \/ Len(u) + d = Len(s)
    PROVE  Keeps(s, u)
  <1> DEFINE Here == \A i \in 1..Len(u) : i + d \in 1..Len(s) /\ u[i] = s[i + d]
  <1>1. Here
    OBVIOUS
  <1>2. Known(s) => Known(u)
    BY <1>1, Zenon DEF Known
  <1>3. Headed(s) => Headed(u)
    <2> SUFFICES ASSUME Headed(s), NEW i \in 2..Len(u), NEW m \in Message, u[i] = Text(m, 1)
                 PROVE  u[i - 1] = Length(Cells(m))
      BY Zenon DEF Headed
    <2>1. Len(u) \in Nat /\ Len(s) \in Nat /\ i \in 1..Len(u) /\ i - 1 \in 1..Len(u)
      OBVIOUS
    <2>2. i + d \in 1..Len(s) /\ u[i] = s[i + d] /\ u[i - 1] = s[i - 1 + d]
      BY <1>1, <2>1
    <2>3. i + d \in 2..Len(s) /\ i + d - 1 = i - 1 + d
      BY <2>1, <2>2
    <2>4. s[i + d] = Text(m, 1)
      BY <2>2
    <2>5. s[i + d - 1] = Length(Cells(m))
      <3>1. \A e \in 2..Len(s) : s[e] = Text(m, 1) => s[e - 1] = Length(Cells(m))
        BY Zenon DEF Headed
      <3> QED BY <2>3, <2>4, <3>1
    <2> QED BY <2>2, <2>3, <2>5
  <1>4. Ordered(s) => Ordered(u)
    <2> SUFFICES ASSUME Ordered(s), NEW i \in 1..Len(u), NEW j \in 1..Len(u), i < j,
                        NEW m \in Message, NEW x \in Message, NEW k \in Nat, NEW l \in Nat,
                        u[i] = Text(m, k), u[j] = Text(x, l)
                 PROVE  Later(m, k, x, l)
      BY Zenon DEF Ordered
    <2>1. i + d \in 1..Len(s) /\ s[i + d] = Text(m, k) /\ j + d \in 1..Len(s) /\ s[j + d] = Text(x, l)
      BY <1>1
    <2>2. i + d < j + d
      OBVIOUS
    <2> QED BY <2>1, <2>2, Zenon DEF Ordered
  <1>5. \A c, sent : Backed(c, s, sent) => Backed(c, u, sent)
    BY <1>1, Zenon DEF Backed
  <1>6. \A c, ran : Ahead(c, s, ran) => Ahead(c, u, ran)
    BY <1>1, Zenon DEF Ahead
  <1>7. \A id : SaidBelow(s, id) => SaidBelow(u, id)
    BY <1>1, Zenon DEF SaidBelow
  <1>8. \A m, w : Before(m, w, s) => Before(m, w, u)
    BY <1>1, Zenon DEF Before
  <1>9. \A m, w : Led(m, w, s) => Led(m, w, u)
    <2> SUFFICES ASSUME NEW m, NEW w, Led(m, w, s), w = 1, u # <<>>
                 PROVE  u[Len(u)] = Length(Cells(m))
      BY Zenon DEF Led
    <2>1. Len(u) \in Nat \ {0} /\ Len(u) + d = Len(s) /\ Len(u) \in 1..Len(u)
      BY EmptySeq
    <2>2. u[Len(u)] = s[Len(s)] /\ s # <<>>
      BY <1>1, <2>1, EmptySeq
    <2> QED BY <2>2, Zenon DEF Led
  <1> QED BY <1>2, <1>3, <1>4, <1>5, <1>6, <1>7, <1>8, <1>9, Zenon DEF Keeps

(* A frame that parses is the whole frame of the request it names. *)
LEMMA RequestOf ==
    ASSUME NEW s \in Seq(Cell), Known(s), Headed(s), HasFrame(s, MaxFrame), Parses(FramePayload(s))
    PROVE  LET m == Parsed(FramePayload(s)) IN
           /\ m \in Requests /\ s[1].length = Cells(m)
           /\ 1 + Cells(m) \in 1..Len(s) /\ s[1 + Cells(m)] = Text(m, Cells(m))
           /\ Cells(m) \in Nat \ {0}
  <1> DEFINE p == FramePayload(s)
             m == Parsed(p)
             n == s[1].length
  <1>1. /\ n \in Nat /\ s[1] = Length(n) /\ 1 + n <= Len(s) /\ Len(s) \in Nat
        /\ p \in Seq(Cell) /\ Len(p) = n /\ \A k \in 1..n : p[k] = s[1 + k]
    BY FrameOf
  <1>2. m \in Message /\ 1 \in 1..Len(p) /\ \A k \in 1..Len(p) : p[k] = Text(m, k)
    BY <1>1, ParsedIs
  <1> HIDE DEF m, n, p
  <1>3. 1 \in 1..n /\ n \in 1..n /\ 2 \in 2..Len(s) /\ 2 \in 1..Len(s) /\ 1 + n \in 1..Len(s)
    BY <1>1, <1>2
  <1>4. s[2] = Text(m, 1) /\ s[1 + n] = Text(m, n)
    <2>1. p[1] = s[1 + 1] /\ p[n] = s[1 + n]
      BY <1>1, <1>3, Zenon
    <2>2. 1 \in 1..Len(p) /\ n \in 1..Len(p)
      BY <1>1, <1>3
    <2>3. p[1] = Text(m, 1) /\ p[n] = Text(m, n)
      BY <1>2, <2>2, Zenon
    <2>4. 1 + 1 = 2
      OBVIOUS
    <2> QED BY <2>1, <2>3, <2>4, Zenon
  <1>5. s[2 - 1] = Length(Cells(m))
    BY <1>2, <1>3, <1>4, Zenon DEF Headed
  <1>6. Length(n) = Length(Cells(m))
    BY <1>1, <1>5
  <1>7. n = Cells(m)
    BY <1>6 DEF Length
  <1>8. m \in Requests
    <2>1. 1 \in Nat
      OBVIOUS
    <2> QED BY <1>2, <1>3, <1>4, <2>1, Zenon DEF Known
  <1>9. n \in Nat \ {0}
    BY <1>1, <1>3
  <1> QED BY <1>3, <1>4, <1>7, <1>8, <1>9 DEF m, n, p

(* A cell behind a stream is the next one of the frame that is being written. *)
LEMMA NextCells ==
    ASSUME NEW m \in Requests, NEW w \in 0..Cells(m), NEW s \in Seq(Cell), NEW rest \in Seq(Cell),
           Left(m, w, rest), NEW n \in 1..Len(rest)
    PROVE  LET t == s \o SubSeq(rest, 1, n) IN
           /\ t \in Seq(Cell) /\ Len(t) = Len(s) + n /\ Len(s) \in Nat
           /\ \A i \in 1..Len(s) : t[i] = s[i]
           /\ w = 0 => t[Len(s) + 1] = Length(Cells(m))
           /\ \A i \in 1..Len(t) : \A x \in Message, k \in Nat : t[i] = Text(x, k) =>
                  \/ i \in 1..Len(s) /\ s[i] = Text(x, k)
                  \/ x = m /\ k = w + i - Len(s) - 1 /\ k >= 1 /\ k <= Cells(m) /\ i > Len(s)
  <1> DEFINE a == SubSeq(rest, 1, n)
             t == s \o a
             z == Cells(m)
             f == Encoded(m)
  <1>1. m \in Message
    BY DEF Requests
  <1>2. /\ z \in Nat \ {0} /\ Len(f) = 1 + z /\ f[1] = Length(z)
        /\ \A k \in 1..z : f[1 + k] = Text(m, k)
    BY <1>1, EncodedIs
  <1>3. a \in Seq(Cell) /\ Len(a) = n /\ \A i \in 1..n : a[i] = rest[i]
    BY Cut
  <1>4. Len(rest) = 1 + z - w /\ \A j \in 1..Len(rest) : rest[j] = f[w + j]
    BY DEF Left
  <1>5. /\ t \in Seq(Cell) /\ Len(t) = Len(s) + Len(a) /\ Len(s) \in Nat
        /\ \A i \in 1..(Len(s) + Len(a)) : t[i] = IF i <= Len(s) THEN s[i] ELSE a[i - Len(s)]
    BY <1>3, ConcatProperties
  <1> HIDE DEF a, t, z, f
  <1>6. w \in 0..z
    BY DEF z
  <1>7. n \in Nat /\ n >= 1 /\ n <= 1 + z - w
    BY <1>2, <1>4, <1>6
  <1>8. \A i \in 1..Len(s) : t[i] = s[i]
    BY <1>3, <1>5, <1>7
  <1>9. ASSUME NEW j \in 1..n PROVE t[Len(s) + j] = f[w + j]
    <2>1. j \in 1..Len(rest)
      OBVIOUS
    <2>2. Len(s) + j \in 1..(Len(s) + Len(a)) /\ ~(Len(s) + j <= Len(s)) /\ Len(s) + j - Len(s) = j
      BY <1>3, <1>5, <1>7
    <2>3. t[Len(s) + j] = a[j]
      BY <1>5, <2>2
    <2> QED BY <1>3, <1>4, <2>1, <2>3
  <1>10. w = 0 => t[Len(s) + 1] = Length(z)
    <2>1. 1 \in 1..n
      BY <1>7
    <2>2. t[Len(s) + 1] = f[w + 1]
      BY <1>9, <2>1
    <2> QED BY <1>2, <2>2
  <1>11. ASSUME NEW i \in 1..Len(t), NEW x \in Message, NEW k \in Nat, t[i] = Text(x, k)
         PROVE  \/ i \in 1..Len(s) /\ s[i] = Text(x, k)
                \/ x = m /\ k = w + i - Len(s) - 1 /\ k >= 1 /\ k <= z /\ i > Len(s)
    <2>1. CASE i <= Len(s)
      <3>1. i \in 1..Len(s)
        BY <1>5, <2>1
      <3> QED BY <1>8, <1>11, <3>1
    <2>2. CASE ~(i <= Len(s))
      <3> DEFINE j == i - Len(s)
                 l == w + j - 1
      <3>1. j \in 1..n /\ Len(s) + j = i /\ w + j = 1 + l /\ l \in 0..z
        BY <1>2, <1>3, <1>5, <1>6, <1>7, <2>2
      <3>2. i > Len(s) /\ l = w + i - Len(s) - 1
        BY <1>5, <1>6, <2>2
      <3> HIDE DEF j, l
      <3>3. t[Len(s) + j] = f[w + j]
        BY <1>9, <3>1
      <3>4. t[i] = f[1 + l]
        BY <3>1, <3>3
      <3>5. l # 0
        <4>1. ASSUME l = 0 PROVE FALSE
          <5>1. Length(z) = Text(x, k)
            BY <1>2, <1>11, <3>4, <4>1
          <5> QED BY <5>1 DEF Length, Text
        <4> QED BY <4>1
      <3>6. l \in 1..z
        BY <1>2, <3>1, <3>5
      <3>7. Text(m, l) = Text(x, k)
        BY <1>2, <1>11, <3>4, <3>6
      <3>8. x = m /\ k = l
        BY <3>7 DEF Text
      <3>9. l >= 1 /\ l <= z
        BY <1>2, <3>6
      <3> QED BY <3>2, <3>8, <3>9
    <2> QED BY <2>1, <2>2
  <1> QED BY <1>3, <1>5, <1>8, <1>10, <1>11 DEF a, t, z, f

(* A write keeps the order of the stream and goes on in the frame where it has stopped. *)
LEMMA Extension ==
    ASSUME NEW m \in Requests, NEW w \in 0..Cells(m), NEW s \in Seq(Cell), NEW rest \in Seq(Cell),
           Writing(m, w, s, rest), NEW n \in 1..Len(rest),
           Known(s), Headed(s), Ordered(s)
    PROVE  LET t == s \o SubSeq(rest, 1, n) IN
           /\ Known(t) /\ Headed(t) /\ Ordered(t)
           /\ Before(m, w + n, t)
           /\ Led(m, w + n, t)
           /\ \A i \in 1..Len(t) : \A x \in Message :
                  t[i] = Text(x, Cells(x)) =>
                      \/ i \in 1..Len(s) /\ s[i] = Text(x, Cells(x))
                      \/ x = m /\ n = Len(rest)
  <1> DEFINE t == s \o SubSeq(rest, 1, n)
             New(i, x, k) == x = m /\ k = w + i - Len(s) - 1 /\ k >= 1 /\ k <= Cells(m) /\ i > Len(s)
  <1>1. Before(m, w, s) /\ Left(m, w, rest) /\ Led(m, w, s)
    BY DEF Writing
  <1>2. /\ t \in Seq(Cell) /\ Len(t) = Len(s) + n /\ Len(s) \in Nat
        /\ \A i \in 1..Len(s) : t[i] = s[i]
        /\ w = 0 => t[Len(s) + 1] = Length(Cells(m))
        /\ \A i \in 1..Len(t) : \A x \in Message, k \in Nat : t[i] = Text(x, k) =>
               (i \in 1..Len(s) /\ s[i] = Text(x, k)) \/ New(i, x, k)
    BY <1>1, NextCells
  <1>3. Cells(m) \in Nat \ {0} /\ Len(rest) = 1 + Cells(m) - w /\ m \in Message
    BY <1>1, EncodedIs DEF Left, Requests
  <1>4. w \in Nat /\ n \in Nat \ {0} /\ w + n <= 1 + Cells(m) /\ n <= Len(rest)
    BY <1>3
  <1> HIDE DEF t
  <1>5. Known(t)
    <2>1. ASSUME NEW i \in 1..Len(t), NEW x \in Message, NEW k \in Nat, t[i] = Text(x, k)
          PROVE  x \in Requests /\ k <= Cells(x)
      <3>1. CASE i \in 1..Len(s) /\ s[i] = Text(x, k)
        BY <3>1, Zenon DEF Known
      <3>2. CASE New(i, x, k)
        BY <3>2
      <3> QED BY <1>2, <2>1, <3>1, <3>2
    <2> QED BY <2>1, Zenon DEF Known
  <1>6. Headed(t)
    <2>1. ASSUME NEW i \in 2..Len(t), NEW x \in Message, t[i] = Text(x, 1)
          PROVE  t[i - 1] = Length(Cells(x))
      <3>1. i \in 1..Len(t) /\ 1 \in Nat
        BY <1>2, <1>4
      <3>2. CASE i \in 1..Len(s) /\ s[i] = Text(x, 1)
        <4>1. i \in 2..Len(s) /\ i - 1 \in 1..Len(s)
          BY <1>2, <3>2
        <4>2. s[i - 1] = Length(Cells(x))
          BY <3>2, <4>1, Zenon DEF Headed
        <4> QED BY <1>2, <4>1, <4>2
      <3>3. CASE New(i, x, 1)
        <4>1. x = m /\ w + i - Len(s) = 2 /\ i > Len(s) /\ i \in Nat
          BY <1>2, <1>4, <3>1, <3>3
        <4>2. CASE w = 0
          <5>1. i - 1 = Len(s) + 1
            BY <1>2, <4>1, <4>2
          <5> QED BY <1>2, <4>1, <4>2, <5>1
        <4>3. CASE w = 1
          <5>1. i - 1 = Len(s) /\ i - 1 \in 1..Len(s)
            BY <1>2, <3>1, <4>1, <4>3
          <5>2. s # <<>>
            BY <5>1, EmptySeq
          <5>3. s[Len(s)] = Length(Cells(m))
            BY <1>1, <4>3, <5>2, Zenon DEF Led
          <5> QED BY <1>2, <4>1, <5>1, <5>3
        <4>4. w = 0 \/ w = 1
          BY <1>2, <1>4, <4>1
        <4> QED BY <4>2, <4>3, <4>4
      <3> QED BY <1>2, <2>1, <3>1, <3>2, <3>3
    <2> QED BY <2>1, Zenon DEF Headed
  <1>7. Ordered(t)
    <2>1. ASSUME NEW i \in 1..Len(t), NEW j \in 1..Len(t), i < j,
                 NEW x \in Message, NEW y \in Message, NEW k \in Nat, NEW l \in Nat,
                 t[i] = Text(x, k), t[j] = Text(y, l)
          PROVE  Later(x, k, y, l)
      <3>1. CASE j \in 1..Len(s) /\ s[j] = Text(y, l)
        <4>1. i \in 1..Len(s)
          BY <1>2, <2>1, <3>1
        <4>2. s[i] = Text(x, k)
          BY <1>2, <2>1, <4>1
        <4> QED BY <2>1, <3>1, <4>1, <4>2, Zenon DEF Ordered
      <3>2. CASE New(j, y, l)
        <4>1. CASE i \in 1..Len(s) /\ s[i] = Text(x, k)
          <5>1. Later(x, k, m, w)
            BY <1>1, <4>1, Zenon DEF Before
          <5>2. w <= l /\ y = m
            BY <1>2, <1>4, <3>2
          <5> QED BY <1>4, <5>1, <5>2 DEF Later
        <4>2. CASE New(i, x, k)
          <5>1. k < l /\ x = y
            BY <1>2, <1>4, <2>1, <3>2, <4>2, SMTT(30)
          <5> QED BY <5>1 DEF Later
        <4> QED BY <1>2, <2>1, <4>1, <4>2
      <3> QED BY <1>2, <2>1, <3>1, <3>2
    <2> QED BY <2>1, Zenon DEF Ordered
  <1>8. Before(m, w + n, t)
    <2>1. ASSUME NEW i \in 1..Len(t), NEW x \in Message, NEW k \in Nat, t[i] = Text(x, k)
          PROVE  Later(x, k, m, w + n)
      <3>1. CASE i \in 1..Len(s) /\ s[i] = Text(x, k)
        <4>1. Later(x, k, m, w)
          BY <1>1, <3>1, Zenon DEF Before
        <4> QED BY <1>4, <4>1 DEF Later
      <3>2. CASE New(i, x, k)
        <4>1. x = m /\ k < w + n
          BY <1>2, <1>4, <3>2
        <4> QED BY <4>1 DEF Later
      <3> QED BY <1>2, <2>1, <3>1, <3>2
    <2> QED BY <2>1, Zenon DEF Before
  <1>9. Led(m, w + n, t)
    <2>1. ASSUME w + n = 1 PROVE t[Len(t)] = Length(Cells(m))
      <3>1. w = 0 /\ n = 1
        BY <1>4, <2>1
      <3> QED BY <1>2, <3>1
    <2> QED BY <2>1, Zenon DEF Led
  <1>10. ASSUME NEW i \in 1..Len(t), NEW x \in Message, t[i] = Text(x, Cells(x))
         PROVE  \/ i \in 1..Len(s) /\ s[i] = Text(x, Cells(x))
                \/ x = m /\ n = Len(rest)
    <2>1. Cells(x) \in Nat
      BY EncodedIs
    <2>2. CASE New(i, x, Cells(x))
      <3>1. x = m /\ Cells(m) = w + i - Len(s) - 1 /\ i <= Len(s) + n /\ i \in Nat
        BY <1>2, <1>4, <2>2
      <3> QED BY <1>2, <1>3, <1>4, <3>1, SMTT(30)
    <2> QED BY <1>2, <1>10, <2>1, <2>2
  <1> QED BY <1>5, <1>6, <1>7, <1>8, <1>9, <1>10 DEF t

(* What a connection has lost of its stream leaves the rest in order. *)
LEMMA LeftOver ==
    ASSUME NEW s \in Seq(Cell), NEW u \in Seq(Cell),
           \/ u = s
           \/ u = <<>>
           \/ HasFrame(s, MaxFrame) /\ u = AfterFrame(s)
    PROVE  Keeps(s, u)
  <1>1. CASE u = s
    BY <1>1, Zenon DEF Keeps
  <1>2. CASE u = <<>>
    <2>1. 0 \in Nat /\ \A i \in 1..Len(u) : i + 0 \in 1..Len(s) /\ u[i] = s[i + 0]
      BY <1>2
    <2> QED BY <1>2, <2>1, Remainder, Zenon
  <1>3. CASE HasFrame(s, MaxFrame) /\ u = AfterFrame(s)
    <2> DEFINE d == 1 + s[1].length
    <2>1. /\ s[1].length \in Nat /\ d <= Len(s) /\ Len(s) \in Nat /\ Len(u) = Len(s) - d
          /\ \A i \in 1..(Len(s) - d) : u[i] = s[i + 1 + s[1].length]
      BY <1>3, FrameOf
    <2>2. d \in Nat
      BY <2>1
    <2>3. \A i \in 1..(Len(s) - d) : i + 1 + s[1].length = i + d
      <3>1. \A i, a \in Nat : i + 1 + a = i + (1 + a)
        OBVIOUS
      <3>2. \A i \in 1..(Len(s) - d) : i \in Nat
        BY <2>1, <2>2
      <3> QED BY <2>1, <3>1, <3>2
    <2> HIDE DEF d
    <2>4. \A i \in 1..Len(u) : i + d \in 1..Len(s) /\ u[i] = s[i + d]
      BY <2>1, <2>2, <2>3, SMTT(30)
    <2>5. Len(u) + d = Len(s)
      BY <2>1, <2>2
    <2> QED BY <2>2, <2>4, <2>5, Remainder, Zenon
  <1> QED BY <1>1, <1>2, <1>3

LEMMA LineKept ==
    ASSUME NEW c, NEW s, NEW u, NEW sent, NEW ran, Keeps(s, u), Line(c, s, sent, ran)
    PROVE  Line(c, u, sent, ran)
  BY Zenon DEF Keeps, Line

LEMMA UnderWayKept ==
    ASSUME NEW c, NEW s, NEW u, NEW ran, NEW id, NEW method, NEW rest, NEW next, Keeps(s, u),
           UnderWay(c, s, ran, id, method, rest, next)
    PROVE  UnderWay(c, u, ran, id, method, rest, next)
  BY Zenon DEF Keeps, UnderWay, Writing

(* Ids that are below a number are below a greater one. *)
LEMMA Raised ==
    ASSUME NEW c, NEW s \in Seq(Cell), NEW X, NEW ran \in Seq(X \X Nat),
           NEW id \in Nat, NEW next \in Nat, id <= next, Known(s),
           Numbered(c, s, ran, id)
    PROVE  Numbered(c, s, ran, next)
  <1> SUFFICES ASSUME c # 0 PROVE SaidBelow(s, next) /\ RunBelow(c, ran, next)
    BY Zenon DEF Numbered
  <1>1. SaidBelow(s, id) /\ RunBelow(c, ran, id)
    BY Zenon DEF Numbered
  <1>2. ASSUME NEW i \in 1..Len(s), NEW m \in Message, NEW k \in Nat, s[i] = Text(m, k)
        PROVE  m.id < next
    <2>1. m.id < id /\ m \in Requests
      BY <1>1, <1>2, Zenon DEF SaidBelow, Known
    <2>2. m.id \in Nat
      BY <2>1 DEF Requests, Message
    <2> QED BY <2>1, <2>2
  <1>3. ASSUME NEW e \in 1..Len(ran), ran[e][1] = c PROVE ran[e][2] < next
    <2>1. ran[e][2] < id
      BY <1>1, <1>3, Zenon DEF RunBelow
    <2>2. ran[e] \in X \X Nat
      BY ElementOfSeq
    <2> QED BY <2>1, <2>2
  <1> QED BY <1>2, <1>3, Zenon DEF SaidBelow, RunBelow

(* The streams to the daemon after a step that only takes from them. *)
OnlyTaken == /\ conns' \in Seq(Connection) /\ Len(conns') = Len(conns)
             /\ \A c \in 1..Len(conns) : Emptied(conns, conns', c)

LEMMA LinesKept ==
    ASSUME TypeOK, UpInv, OnlyTaken
    PROVE  /\ \A c \in 1..Len(conns) : Keeps(conns[c].up, conns'[c].up)
           /\ \A c \in 1..Len(conns') : Line(c, conns'[c].up, written, executed)
  <1>1. conns \in Seq(Connection)
    BY DEF TypeOK
  <1>2. ASSUME NEW c \in 1..Len(conns) PROVE Keeps(conns[c].up, conns'[c].up)
    <2>1. conns[c].up \in Seq(Cell) /\ conns'[c].up \in Seq(Cell)
      BY <1>1, OneOf DEF OnlyTaken
    <2>2. \/ conns'[c].up = conns[c].up \/ conns'[c].up = <<>>
          \/ HasFrame(conns[c].up, MaxFrame) /\ conns'[c].up = AfterFrame(conns[c].up)
      BY Zenon DEF OnlyTaken, Emptied
    <2> QED BY <2>1, <2>2, LeftOver
  <1>3. ASSUME NEW c \in 1..Len(conns') PROVE Line(c, conns'[c].up, written, executed)
    <2>1. c \in 1..Len(conns)
      BY DEF OnlyTaken
    <2>2. Line(c, conns[c].up, written, executed)
      BY <2>1, Zenon DEF UpInv
    <2> QED BY <1>2, <2>1, <2>2, LineKept, Zenon
  <1> QED BY <1>2, <1>3

(* A step that puts nothing on a line to the daemon and runs nothing. *)
LEMMA UpKept ==
    ASSUME TypeOK, TypeOK', UpInv, OnlyTaken, UNCHANGED history,
           \/ connection_' = 0
           \/ connection_' = connection_ /\ next_request_id_ <= next_request_id_',
           pc' = "write" => UNCHANGED <<pc, call, connection_, next_request_id_>>
    PROVE  UpInv'
  <1>1. UNCHANGED <<written, executed>>
    BY DEF history
  <1>2. /\ \A c \in 1..Len(conns) : Keeps(conns[c].up, conns'[c].up)
        /\ \A c \in 1..Len(conns') : Line(c, conns'[c].up, written, executed)
    BY LinesKept
  <1>3. /\ connection_ \in 0..Len(conns) /\ Len(conns) \in Nat
        /\ next_request_id_ \in Nat /\ next_request_id_' \in Nat
        /\ executed \in Seq((1..Len(conns)) \X Nat)
        /\ conns' \in Seq(Connection) /\ Len(conns') = Len(conns)
    BY DEF TypeOK, CallerType, HistoryType, OnlyTaken
  <1>4. RunsWhatWasSent'
    BY <1>1, Zenon DEF UpInv, RunsWhatWasSent
  <1>5. Numbered(connection_', conns'[connection_'].up, executed, next_request_id_')
    <2>1. CASE connection_' = 0
      BY <2>1, Zenon DEF Numbered
    <2>2. CASE connection_' # 0
      <3>1. connection_' = connection_ /\ next_request_id_ <= next_request_id_'
            /\ connection_ \in 1..Len(conns)
        BY <1>3, <2>2
      <3>2. Numbered(connection_, conns[connection_].up, executed, next_request_id_)
        BY Zenon DEF UpInv
      <3>3. Keeps(conns[connection_].up, conns'[connection_].up)
            /\ Line(connection_, conns'[connection_].up, written, executed)
        BY <1>2, <1>3, <3>1
      <3>4. Numbered(connection_, conns'[connection_].up, executed, next_request_id_)
        BY <3>2, <3>3, Zenon DEF Numbered, Keeps
      <3>5. conns'[connection_].up \in Seq(Cell) /\ Known(conns'[connection_].up)
        BY <1>3, <3>1, <3>3, OneOf DEF Line
      <3>6. Numbered(connection_, conns'[connection_].up, executed, next_request_id_')
        BY <1>3, <3>1, <3>4, <3>5, Raised
      <3> QED BY <3>1, <3>6
    <2> QED BY <2>1, <2>2
  <1>6. ASSUME pc' = "write"
        PROVE  UnderWay(connection_', conns'[connection_'].up, executed, call'.id, call'.method,
                        call'.rest, next_request_id_')
    <2>1. UNCHANGED <<pc, call, connection_, next_request_id_>>
      BY <1>6
    <2>2. pc = "write" /\ connection_ \in 1..Len(conns)
      BY <1>3, <1>6, <2>1 DEF TypeOK, CallerType
    <2>3. UnderWay(connection_, conns[connection_].up, executed, call.id, call.method,
                   call.rest, next_request_id_)
      BY <2>2, Zenon DEF UpInv
    <2>4. Keeps(conns[connection_].up, conns'[connection_].up)
      BY <1>2, <2>2
    <2>5. UnderWay(connection_, conns'[connection_].up, executed, call.id, call.method,
                   call.rest, next_request_id_)
      BY <2>3, <2>4, UnderWayKept
    <2> QED BY <2>1, <2>5
  <1> QED BY <1>1, <1>2, <1>4, <1>5, <1>6, Zenon DEF UpInv

SameUp == /\ Len(conns') = Len(conns)
          /\ \A c \in 1..Len(conns) : conns'[c].up = conns[c].up

(* No more than that: the connections as they are, or one of them hung up or read from. *)
LEMMA NothingTaken ==
    ASSUME TypeOK, TypeOK', SameUp \/ conns' = conns
    PROVE  OnlyTaken
  <1>1. conns' \in Seq(Connection)
    BY DEF TypeOK
  <1> QED BY <1>1, Zenon DEF OnlyTaken, Emptied, SameUp

LEMMA HungUp ==
    ASSUME TypeOK, NEW c \in 1..Len(conns), conns' = Hung(conns, c)
    PROVE  SameUp
  BY HungIs DEF SameUp, TypeOK

LEMMA TakenUp ==
    ASSUME TypeOK, NEW d \in 1..Len(conns), NEW n \in 1..Len(conns[d].down),
           conns' = [conns EXCEPT ![d].down = SubSeq(@, n + 1, Len(@))]
    PROVE  SameUp
  <1> DEFINE t == SubSeq(conns[d].down, n + 1, Len(conns[d].down))
             r == [conns[d] EXCEPT !.down = t]
  <1>1. conns \in Seq(Connection)
    BY DEF TypeOK
  <1>2. conns[d] \in Connection /\ conns[d].down \in Seq(Cell)
    BY <1>1, OneOf
  <1>3. t \in Seq(Cell)
    BY <1>2, Cut, SMTT(30)
  <1>4. conns' = [conns EXCEPT ![d] = r]
    BY SMTT(30)
  <1> HIDE DEF t
  <1>5. r \in Connection /\ r.up = conns[d].up
    BY <1>2, <1>3, FieldSet
  <1> HIDE DEF r
  <1>6. /\ Len([conns EXCEPT ![d] = r]) = Len(conns)
        /\ [conns EXCEPT ![d] = r][d] = r
        /\ \A c \in 1..Len(conns) : c # d => [conns EXCEPT ![d] = r][c] = conns[c]
    BY <1>1, <1>5, Changed
  <1> QED BY <1>4, <1>5, <1>6, Zenon DEF SameUp

(* A round trip that ends writes nothing more. *)
LEMMA EndsUp ==
    ASSUME TypeOK, NEW ok, NEW of, connection_ # 0, RoundTripEnds(conns, ok, of)
    PROVE  /\ SameUp \/ conns' = conns
           /\ connection_' = 0 \/ connection_' = connection_
           /\ pc' # "write"
  <1>1. connection_ \in 1..Len(conns)
    BY DEF TypeOK, CallerType
  <1>2. conns' = conns \/ conns' = Hung(conns, connection_)
    BY Zenon DEF RoundTripEnds
  <1>3. SameUp \/ conns' = conns
    BY <1>1, <1>2, HungUp
  <1>4. (connection_' = 0 /\ pc' # "write") \/ (connection_' = connection_ /\ pc' = "idle")
    <2>1. CASE AttemptFails
      <3>1. connection_' = 0 /\ pc' \in {"dial", "idle"}
        BY <2>1 DEF AttemptFails
      <3> QED BY <3>1
    <2>2. CASE connection_' = connection_ /\ pc' = "idle"
      BY <2>2
    <2> QED BY <2>1, <2>2, Zenon DEF RoundTripEnds
  <1> QED BY <1>3, <1>4

(* The steps of the caller, its subscription and its thread that put nothing on a line. *)
LEMMA ClientUp ==
    ASSUME TypeOK, TypeOK', UpInv,
           \/ StartConnect \/ (\E m \in Method : RefuseCall(m))
           \/ DialFails \/ WriteFails \/ NextFrame \/ ReadMore \/ DeadlinePasses \/ Read \/ ReadsEnd
           \/ Tick \/ Unsubscribe \/ Join \/ Worker
           \/ Disconnect /\ pc = "idle" /\ UNCHANGED <<pc, history>>
           \/ UNCHANGED vars
    PROVE  UpInv'
  <1>1. /\ connection_ \in 0..Len(conns) /\ Len(conns) \in Nat /\ next_request_id_ \in Nat
        /\ subscription_ \in 0..Len(conns) /\ worker.conn \in 0..Len(conns)
        /\ pc \in {"write", "next", "read"} => connection_ # 0
        /\ worker.pc # "none" => worker.conn # 0
    BY DEF TypeOK, CallerType, SubscriptionType
  <1> DEFINE Quiet == /\ SameUp \/ conns' = conns
                      /\ UNCHANGED history
                      /\ \/ connection_' = 0
                         \/ connection_' = connection_ /\ next_request_id_ <= next_request_id_'
                      /\ pc' = "write" => UNCHANGED <<pc, call, connection_, next_request_id_>>
  <1>2. ASSUME StartConnect \/ DialFails \/ ReadMore \/ Tick \/ UNCHANGED vars PROVE Quiet
    BY <1>1, <1>2
    DEF StartConnect, DialFails, AttemptFails, ReadMore, Tick, vars, caller
  <1>3. ASSUME NEW m \in Method, RefuseCall(m) PROVE Quiet
    BY <1>1, <1>3 DEF RefuseCall
  <1>4. ASSUME WriteFails \/ DeadlinePasses \/ ReadsEnd PROVE Quiet
    <2>1. /\ connection_ # 0 /\ RoundTripEnds(conns, FALSE, Nobody)
          /\ UNCHANGED <<next_request_id_, history>>
      BY <1>1, <1>4 DEF WriteFails, DeadlinePasses, ReadsEnd, RoundTripFails
    <2>2. /\ SameUp \/ conns' = conns
          /\ connection_' = 0 \/ connection_' = connection_
          /\ pc' # "write"
      BY <2>1, EndsUp
    <2> QED BY <1>1, <2>1, <2>2
  <1>5. ASSUME NextFrame PROVE Quiet
    <2> DEFINE m == Parsed(FramePayload(reader_))
    <2>1. /\ connection_ # 0 /\ UNCHANGED <<next_request_id_, history>> /\ pc = "next"
          /\ RoundTripEnds(conns, m.ok, m.of) \/ UNCHANGED <<conns, connection_, pc>>
      BY <1>1, <1>5 DEF NextFrame
    <2> HIDE DEF m
    <2>2. CASE RoundTripEnds(conns, m.ok, m.of)
      <3>1. /\ SameUp \/ conns' = conns
            /\ connection_' = 0 \/ connection_' = connection_
            /\ pc' # "write"
        BY <2>1, <2>2, EndsUp
      <3> QED BY <1>1, <2>1, <3>1
    <2>3. CASE UNCHANGED <<conns, connection_, pc>>
      BY <1>1, <2>1, <2>3
    <2> QED BY <2>1, <2>2, <2>3
  <1>6. ASSUME Read PROVE Quiet
    <2>1. connection_ \in 1..Len(conns)
      BY <1>1, <1>6 DEF Read
    <2>2. conns' = conns \/ \E n \in 1..Len(conns[connection_].down) :
              conns' = [conns EXCEPT ![connection_].down = SubSeq(@, n + 1, Len(@))]
      BY <1>6 DEF Read
    <2>3. SameUp \/ conns' = conns
      BY <2>1, <2>2, TakenUp
    <2>4. UNCHANGED <<next_request_id_, connection_, history>> /\ pc' = "next"
      BY <1>6 DEF Read
    <2> QED BY <1>1, <2>3, <2>4
  <1>7. ASSUME Unsubscribe \/ Join PROVE Quiet
    <2>1. conns' = conns \/ (subscription_ # 0 /\ conns' = Hung(conns, subscription_))
      <3>1. CASE Unsubscribe
        BY <3>1 DEF Unsubscribe
      <3>2. CASE Join
        BY <3>2 DEF Join
      <3> QED BY <1>7, <3>1, <3>2
    <2>2. SameUp \/ conns' = conns
      BY <1>1, <2>1, HungUp
    <2>3. UNCHANGED <<next_request_id_, connection_, history>> /\ pc' # "write"
      BY <1>7 DEF Unsubscribe, Join
    <2> QED BY <1>1, <2>2, <2>3
  <1>8. ASSUME Worker PROVE Quiet
    <2>1. \/ conns' = conns
          \/ /\ worker.pc = "read"
             /\ \E n \in 1..Len(conns[worker.conn].down) :
                    conns' = [conns EXCEPT ![worker.conn].down = SubSeq(@, n + 1, Len(@))]
      <3>1. CASE WorkerReads
        BY <3>1, Zenon DEF WorkerReads
      <3>2. CASE WorkerLoop \/ WorkerNext \/ CallbackReturns
        BY <3>2, Zenon DEF WorkerLoop, WorkerNext, CallbackReturns
      <3> QED BY <1>8, <3>1, <3>2, Zenon DEF Worker
    <2>2. worker.pc = "read" => worker.conn \in 1..Len(conns)
      BY <1>1
    <2>3. SameUp \/ conns' = conns
      BY <2>1, <2>2, TakenUp
    <2>4. UNCHANGED <<caller, history>>
      BY <1>8 DEF Worker, WorkerLoop, WorkerReads, WorkerNext, CallbackReturns
    <2>5. UNCHANGED <<next_request_id_, connection_, pc, call, history>>
      BY <2>4 DEF caller
    <2> QED BY <1>1, <2>3, <2>5
  <1>9. ASSUME Disconnect, pc = "idle", UNCHANGED <<pc, history>> PROVE Quiet
    <2>1. connection_' = 0 /\ (conns' = conns \/ (connection_ # 0 /\ conns' = Hung(conns, connection_)))
      <3>1. CASE connection_ = 0
        BY <1>9, <3>1 DEF Disconnect
      <3>2. CASE connection_ # 0
        BY <1>9, <3>2 DEF Disconnect
      <3> QED BY <3>1, <3>2
    <2>2. SameUp \/ conns' = conns
      BY <1>1, <2>1, HungUp
    <2> QED BY <1>9, <2>1, <2>2
  <1>10. Quiet
    BY <1>2, <1>3, <1>4, <1>5, <1>6, <1>7, <1>8, <1>9
  <1>11. OnlyTaken
    BY <1>10, NothingTaken
  <1> QED BY <1>10, <1>11, UpKept

(* The whole frame is yet to be written. *)
LEMMA Starts ==
    ASSUME NEW id \in Nat \ {0}, NEW method \in Method \cup {"hello"}, NEW c, NEW s \in Seq(Cell),
           NEW X, NEW ran \in Seq(X \X Nat), Known(s), Numbered(c, s, ran, id), c # 0
    PROVE  /\ UnderWay(c, s, ran, id, method, Encoded(Request(id, method)), id + 1)
           /\ Numbered(c, s, ran, id + 1)
  <1> DEFINE m == Request(id, method)
  <1>1. m \in Message /\ m.kind = "request" /\ m.id = id
    BY MessageType DEF Request
  <1> HIDE DEF m
  <1>2. m \in Requests /\ id < id + 1 /\ id + 1 \in Nat
    BY <1>1 DEF Requests
  <1>3. RunBelow(c, ran, id) /\ SaidBelow(s, id)
    BY Zenon DEF Numbered
  <1>4. Cells(m) \in Nat \ {0} /\ Len(Encoded(m)) = 1 + Cells(m)
    BY <1>1, EncodedIs
  <1>5. Left(m, 0, Encoded(m))
    <2>1. Encoded(m) \in Seq(Cell) /\ Len(Encoded(m)) \in Nat
      BY <1>1, EncodedIs
    <2>2. \A j \in 1..Len(Encoded(m)) : 0 + j = j
      BY <2>1
    <2>3. Len(Encoded(m)) = 1 + Cells(m) - 0
      BY <1>4
    <2> QED BY <2>2, <2>3 DEF Left
  <1>6. Before(m, 0, s)
    <2>1. ASSUME NEW i \in 1..Len(s), NEW x \in Message, NEW k \in Nat, s[i] = Text(x, k)
          PROVE  Later(x, k, m, 0)
      <3>1. x.id < m.id
        BY <1>1, <1>3, <2>1, Zenon DEF SaidBelow
      <3> QED BY <3>1, Zenon DEF Later
    <2> QED BY <2>1, Zenon DEF Before
  <1>7. Led(m, 0, s)
    BY DEF Led
  <1>8. 0 \in 0..Cells(m)
    BY <1>4
  <1>9. Writing(m, 0, s, Encoded(m))
    BY <1>5, <1>6, <1>7, Zenon DEF Writing
  <1>10. UnderWay(c, s, ran, id, method, Encoded(m), id + 1)
    BY <1>2, <1>3, <1>8, <1>9, Zenon DEF UnderWay, m
  <1>11. Numbered(c, s, ran, id + 1)
    <2>1. id \in Nat /\ id + 1 \in Nat /\ id <= id + 1
      BY <1>2
    <2> QED BY <2>1, Raised
  <1> QED BY <1>10, <1>11 DEF m

LEMMA StartCallUp ==
    ASSUME TypeOK, UpInv, NEW method \in Method, StartCall(method)
    PROVE  UpInv'
  <1>1. /\ pc' = "write" /\ next_request_id_' = next_request_id_ + 1
        /\ call' = [id |-> next_request_id_, method |-> method,
                    rest |-> Encoded(Request(next_request_id_, method))]
        /\ connection_ # 0 /\ UNCHANGED <<conns, connection_, history>>
    BY DEF StartCall, StartRoundTrip
  <1>2. /\ next_request_id_ \in Nat \ {0} /\ connection_ \in 1..Len(conns)
        /\ executed \in Seq((1..Len(conns)) \X Nat)
    BY <1>1 DEF TypeOK, CallerType, HistoryType
  <1>3. conns[connection_].up \in Seq(Cell)
    BY <1>2, OneOf DEF TypeOK
  <1>4. Known(conns[connection_].up)
    BY <1>2, Zenon DEF UpInv, Line
  <1>5. Numbered(connection_, conns[connection_].up, executed, next_request_id_)
    BY Zenon DEF UpInv
  <1>6. /\ UnderWay(connection_, conns[connection_].up, executed, next_request_id_, method,
                    Encoded(Request(next_request_id_, method)), next_request_id_ + 1)
        /\ Numbered(connection_, conns[connection_].up, executed, next_request_id_ + 1)
    BY <1>1, <1>2, <1>3, <1>4, <1>5, Starts
  <1>7. call'.id = next_request_id_ /\ call'.method = method
        /\ call'.rest = Encoded(Request(next_request_id_, method))
    BY <1>1
  <1>8. UNCHANGED <<written, executed>>
    BY <1>1 DEF history
  <1>9. RunsWhatWasSent'
    BY <1>8, Zenon DEF UpInv, RunsWhatWasSent
  <1>10. \A c \in 1..Len(conns') : Line(c, conns'[c].up, written', executed')
    BY <1>1, <1>8, Zenon DEF UpInv
  <1>11. Numbered(connection_', conns'[connection_'].up, executed', next_request_id_')
    BY <1>1, <1>6, <1>8
  <1>12. UnderWay(connection_', conns'[connection_'].up, executed', call'.id,
                  call'.method, call'.rest, next_request_id_')
    BY <1>1, <1>6, <1>7, <1>8
  <1> QED BY <1>9, <1>10, <1>11, <1>12, Zenon DEF UpInv

(* Nothing is on a new line, and nothing has been run from it. *)
LEMMA LineNone ==
    ASSUME NEW c, NEW sent, NEW ran
    PROVE  Line(c, <<>>, sent, ran)
  <1>1. Known(<<>>) /\ Headed(<<>>) /\ Ordered(<<>>)
    BY DEF Known, Headed, Ordered
  <1>2. Backed(c, <<>>, sent) /\ Ahead(c, <<>>, ran)
    BY DEF Backed, Ahead
  <1> QED BY <1>1, <1>2 DEF Line

LEMMA Fresh ==
    ASSUME TypeOK
    PROVE  \A e \in 1..Len(executed) : executed[e][1] # Len(conns) + 1
  <1>1. executed \in Seq((1..Len(conns)) \X Nat) /\ Len(conns) \in Nat
    BY DEF TypeOK, HistoryType
  <1>2. ASSUME NEW e \in 1..Len(executed) PROVE executed[e][1] # Len(conns) + 1
    <2>1. executed[e] \in (1..Len(conns)) \X Nat
      BY <1>1, ElementOfSeq
    <2> QED BY <1>1, <2>1
  <1> QED BY <1>2

(* One more connection, with its line in order. *)
LEMMA OneMoreLine ==
    ASSUME TypeOK, UpInv, NEW r \in Connection, conns' = Append(conns, r), UNCHANGED executed,
           written \subseteq written',
           Line(Len(conns) + 1, r.up, written', executed)
    PROVE  /\ \A c \in 1..Len(conns') : Line(c, conns'[c].up, written', executed')
           /\ RunsWhatWasSent'
           /\ Len(conns') = Len(conns) + 1 /\ conns'[Len(conns) + 1] = r
           /\ \A c \in 1..Len(conns) : conns'[c] = conns[c]
  <1>1. /\ Len(conns') = Len(conns) + 1 /\ Len(conns) \in Nat
        /\ \A c \in 1..Len(conns) : conns'[c] = conns[c]
        /\ conns'[Len(conns) + 1] = r
    BY AppendProperties DEF TypeOK
  <1>2. ASSUME NEW c \in 1..Len(conns') PROVE Line(c, conns'[c].up, written', executed)
    <2>1. CASE c \in 1..Len(conns)
      <3>1. Line(c, conns[c].up, written, executed)
        BY <2>1, Zenon DEF UpInv
      <3>2. Line(c, conns[c].up, written', executed)
        BY <3>1, Zenon DEF Line, Backed
      <3> QED BY <1>1, <2>1, <3>2
    <2>2. CASE c \notin 1..Len(conns)
      <3>1. c = Len(conns) + 1
        BY <1>1, <2>2
      <3> QED BY <1>1, <3>1
    <2> QED BY <2>1, <2>2
  <1>3. RunsWhatWasSent'
    BY Zenon DEF UpInv, RunsWhatWasSent
  <1> QED BY <1>1, <1>2, <1>3

LEMMA DialUp ==
    ASSUME TypeOK, UpInv, Dial
    PROVE  UpInv'
  <1> DEFINE c == Len(conns) + 1
             m == Request(next_request_id_, "hello")
  <1>1. /\ pc' = "write" /\ next_request_id_' = next_request_id_ + 1
        /\ call' = [id |-> next_request_id_, method |-> "hello", rest |-> Encoded(m)]
        /\ connection_' = c /\ conns' = Append(conns, NewConnection) /\ UNCHANGED history
    BY DEF Dial, StartRoundTrip
  <1>2. /\ next_request_id_ \in Nat \ {0} /\ Len(conns) \in Nat /\ c # 0
        /\ executed \in Seq((1..Len(conns)) \X Nat)
    BY DEF TypeOK, CallerType, HistoryType
  <1>3. UNCHANGED <<written, executed>>
    BY <1>1 DEF history
  <1> HIDE DEF c, m
  <1>4. Line(c, <<>>, written, executed)
    BY LineNone
  <1>5. /\ \A d \in 1..Len(conns') : Line(d, conns'[d].up, written', executed')
        /\ RunsWhatWasSent'
        /\ conns'[c].up = <<>>
    <2>1. NewConnection \in Connection /\ NewConnection.up = <<>>
      BY NewIs
    <2>2. Line(Len(conns) + 1, NewConnection.up, written', executed)
      BY <1>3, <1>4, <2>1 DEF c
    <2>3. written \subseteq written' /\ UNCHANGED executed
      BY <1>3
    <2>4. conns' = Append(conns, NewConnection)
      BY <1>1
    <2>5. /\ \A d \in 1..Len(conns') : Line(d, conns'[d].up, written', executed')
          /\ RunsWhatWasSent'
          /\ conns'[Len(conns) + 1] = NewConnection
      BY <2>1, <2>2, <2>3, <2>4, OneMoreLine
    <2> QED BY <2>1, <2>5 DEF c
  <1>6. Numbered(c, <<>>, executed, next_request_id_)
    <2>1. SaidBelow(<<>>, next_request_id_)
      BY DEF SaidBelow
    <2>2. RunBelow(c, executed, next_request_id_)
      BY Fresh, Zenon DEF RunBelow, c
    <2> QED BY <2>1, <2>2, Zenon DEF Numbered
  <1>7. /\ UnderWay(c, <<>>, executed, next_request_id_, "hello", Encoded(m), next_request_id_ + 1)
        /\ Numbered(c, <<>>, executed, next_request_id_ + 1)
    <2>1. <<>> \in Seq(Cell) /\ Known(<<>>) /\ "hello" \in Method \cup {"hello"}
      BY EmptySeq DEF Known
    <2> QED BY <1>2, <1>6, <2>1, Starts DEF m
  <1>8. call'.id = next_request_id_ /\ call'.method = "hello" /\ call'.rest = Encoded(m)
    BY <1>1
  <1>9. Numbered(connection_', conns'[connection_'].up, executed', next_request_id_')
    BY <1>1, <1>3, <1>5, <1>7
  <1>10. UnderWay(connection_', conns'[connection_'].up, executed', call'.id,
                  call'.method, call'.rest, next_request_id_')
    BY <1>1, <1>3, <1>5, <1>7, <1>8
  <1> QED BY <1>5, <1>9, <1>10, Zenon DEF UpInv

(* A frame that is alone on its line. *)
LEMMA FrameLine ==
    ASSUME NEW m \in Requests, NEW c, NEW sent, NEW ran,
           <<c, m.id>> \in sent, \A e \in 1..Len(ran) : ran[e][1] # c
    PROVE  Line(c, Encoded(m), sent, ran)
  <1> DEFINE f == Encoded(m)
             z == Cells(m)
  <1>1. m \in Message
    BY DEF Requests
  <1>2. /\ z \in Nat \ {0} /\ f \in Seq(Cell) /\ Len(f) = 1 + z /\ f[1] = Length(z)
        /\ \A k \in 1..z : f[1 + k] = Text(m, k)
    BY <1>1, EncodedIs
  <1> HIDE DEF f, z
  <1>3. ASSUME NEW i \in 1..Len(f), NEW x \in Message, NEW k, f[i] = Text(x, k)
        PROVE  x = m /\ i = 1 + k /\ k \in 1..z
    <2>1. i # 1
      <3>1. ASSUME i = 1 PROVE FALSE
        <4>1. Length(z) = Text(x, k)
          BY <1>2, <1>3, <3>1
        <4> QED BY <4>1 DEF Length, Text
      <3> QED BY <3>1
    <2>2. i - 1 \in 1..z /\ 1 + (i - 1) = i
      BY <1>2, <2>1
    <2>3. Text(m, i - 1) = Text(x, k)
      BY <1>2, <1>3, <2>2
    <2>4. m = x /\ i - 1 = k
      BY <2>3 DEF Text
    <2> QED BY <2>2, <2>4
  <1>4. Known(f)
    <2>1. ASSUME NEW i \in 1..Len(f), NEW x \in Message, NEW k \in Nat, f[i] = Text(x, k)
          PROVE  x \in Requests /\ k <= Cells(x)
      <3>1. x = m /\ k \in 1..z
        BY <1>3, <2>1
      <3> QED BY <1>2, <3>1 DEF z
    <2> QED BY <2>1, Zenon DEF Known
  <1>5. Headed(f)
    <2>1. ASSUME NEW i \in 2..Len(f), NEW x \in Message, f[i] = Text(x, 1)
          PROVE  f[i - 1] = Length(Cells(x))
      <3>1. i \in 1..Len(f)
        BY <1>2
      <3>2. x = m /\ i = 1 + 1
        BY <1>3, <2>1, <3>1, Zenon
      <3>3. i - 1 = 1
        BY <3>2
      <3> QED BY <1>2, <3>2, <3>3 DEF z
    <2> QED BY <2>1, Zenon DEF Headed
  <1>6. Ordered(f)
    <2>1. ASSUME NEW i \in 1..Len(f), NEW j \in 1..Len(f), i < j, NEW x \in Message, NEW y \in Message,
                 NEW k \in Nat, NEW l \in Nat, f[i] = Text(x, k), f[j] = Text(y, l)
          PROVE  Later(x, k, y, l)
      <3>1. x = m /\ i = 1 + k /\ y = m /\ j = 1 + l
        BY <1>3, <2>1
      <3> QED BY <2>1, <3>1 DEF Later
    <2> QED BY <2>1, Zenon DEF Ordered
  <1>7. Backed(c, f, sent)
    <2>1. ASSUME NEW i \in 1..Len(f), NEW x \in Message, f[i] = Text(x, Cells(x))
          PROVE  <<c, x.id>> \in sent
      BY <1>3, <2>1, Zenon
    <2> QED BY <2>1, Zenon DEF Backed
  <1>8. Ahead(c, f, ran)
    BY Zenon DEF Ahead
  <1> QED BY <1>4, <1>5, <1>6, <1>7, <1>8 DEF Line, f

LEMMA SubscribeUp ==
    ASSUME TypeOK, UpInv, Subscribe
    PROVE  UpInv'
  <1> DEFINE c == Len(conns) + 1
             m == Request(next_request_id_, "subscribe")
             r == [NewConnection EXCEPT !.up = Encoded(m)]
  <1>1. /\ pc = "idle" /\ pc' = pc /\ next_request_id_' = next_request_id_ + 1
        /\ written' = written \cup {<<c, next_request_id_>>}
        /\ conns' = Append(conns, r) /\ UNCHANGED <<connection_, executed>>
    BY DEF Subscribe
  <1>2. /\ next_request_id_ \in Nat \ {0} /\ Len(conns) \in Nat /\ connection_ \in 0..Len(conns)
        /\ executed \in Seq((1..Len(conns)) \X Nat)
    BY DEF TypeOK, CallerType, HistoryType
  <1>3. m \in Message /\ m.kind = "request" /\ m.id = next_request_id_
    BY <1>2, MessageType DEF Request
  <1>4. Encoded(m) \in Seq(Cell)
    BY <1>3, EncodedIs, SMTT(30)
  <1> HIDE DEF m
  <1>5. r \in Connection /\ r.up = Encoded(m)
    BY <1>4, NewIs, FieldSet
  <1> HIDE DEF r, c
  <1>6. Line(c, Encoded(m), written', executed)
    <2>1. m \in Requests /\ <<c, m.id>> \in written'
      BY <1>1, <1>3 DEF Requests
    <2>2. \A e \in 1..Len(executed) : executed[e][1] # c
      BY Fresh DEF c
    <2> QED BY <2>1, <2>2, FrameLine
  <1>7. /\ \A d \in 1..Len(conns') : Line(d, conns'[d].up, written', executed')
        /\ RunsWhatWasSent'
        /\ \A d \in 1..Len(conns) : conns'[d] = conns[d]
    <2>1. Line(Len(conns) + 1, r.up, written', executed)
      BY <1>5, <1>6 DEF c
    <2>2. written \subseteq written' /\ UNCHANGED executed /\ conns' = Append(conns, r)
      BY <1>1
    <2> QED BY <1>5, <2>1, <2>2, OneMoreLine
  <1>8. Numbered(connection_', conns'[connection_'].up, executed', next_request_id_')
    <2>1. CASE connection_ = 0
      BY <1>1, <2>1, Zenon DEF Numbered
    <2>2. CASE connection_ # 0
      <3>1. connection_ \in 1..Len(conns)
        BY <1>2, <2>2
      <3>2. conns[connection_].up \in Seq(Cell) /\ Known(conns[connection_].up)
        BY <3>1, OneOf DEF UpInv, Line, TypeOK
      <3>3. Numbered(connection_, conns[connection_].up, executed, next_request_id_)
        BY Zenon DEF UpInv
      <3>4. next_request_id_ \in Nat /\ next_request_id_ + 1 \in Nat
            /\ next_request_id_ <= next_request_id_ + 1
        BY <1>2
      <3>5. Numbered(connection_, conns[connection_].up, executed, next_request_id_ + 1)
        BY <1>2, <3>2, <3>3, <3>4, Raised
      <3> QED BY <1>1, <1>7, <3>1, <3>5
    <2> QED BY <2>1, <2>2
  <1>9. pc' # "write"
    BY <1>1
  <1> QED BY <1>7, <1>8, <1>9, Zenon DEF UpInv

(* A piece of the frame under way is put on its line. *)
LEMMA Pushed ==
    ASSUME NEW c, NEW s \in Seq(Cell), NEW sent, NEW new, NEW X, NEW ran \in Seq(X \X Nat),
           NEW id, NEW method, NEW rest \in Seq(Cell), NEW next \in Nat, NEW n \in 1..Len(rest),
           Line(c, s, sent, ran), UnderWay(c, s, ran, id, method, rest, next),
           Numbered(c, s, ran, next), c # 0,
           sent \subseteq new, n = Len(rest) => <<c, id>> \in new
    PROVE  LET t == s \o SubSeq(rest, 1, n) IN
           /\ Line(c, t, new, ran)
           /\ Numbered(c, t, ran, next)
           /\ n # Len(rest) =>
                  UnderWay(c, t, ran, id, method, SubSeq(rest, n + 1, Len(rest)), next)
  <1> DEFINE m == Request(id, method)
             t == s \o SubSeq(rest, 1, n)
             u == SubSeq(rest, n + 1, Len(rest))
  <1>1. PICK w \in 0..Cells(m) : Writing(m, w, s, rest)
    BY Zenon DEF UnderWay
  <1>2. m \in Requests /\ id < next /\ RunBelow(c, ran, id)
    BY Zenon DEF UnderWay
  <1>3. m.id = id
    BY DEF Request
  <1> HIDE DEF m
  <1>4. Known(s) /\ Headed(s) /\ Ordered(s) /\ Backed(c, s, sent) /\ Ahead(c, s, ran)
    BY DEF Line
  <1>5. SaidBelow(s, next) /\ RunBelow(c, ran, next)
    BY Zenon DEF Numbered
  <1>6. /\ Known(t) /\ Headed(t) /\ Ordered(t) /\ Before(m, w + n, t) /\ Led(m, w + n, t)
        /\ \A i \in 1..Len(t) : \A x \in Message : t[i] = Text(x, Cells(x)) =>
               \/ i \in 1..Len(s) /\ s[i] = Text(x, Cells(x))
               \/ x = m /\ n = Len(rest)
    BY <1>1, <1>2, <1>4, Extension
  <1>7. \A i \in 1..Len(t) : \A x \in Message, k \in Nat : t[i] = Text(x, k) =>
            (i \in 1..Len(s) /\ s[i] = Text(x, k)) \/ x = m
    <2>1. Left(m, w, rest)
      BY <1>1 DEF Writing
    <2> QED BY <1>2, <2>1, NextCells
  <1> HIDE DEF t
  <1>8. Backed(c, t, new)
    <2>1. ASSUME NEW i \in 1..Len(t), NEW x \in Message, t[i] = Text(x, Cells(x))
          PROVE  <<c, x.id>> \in new
      <3>1. CASE i \in 1..Len(s) /\ s[i] = Text(x, Cells(x))
        BY <1>4, <3>1, Zenon DEF Backed
      <3>2. CASE x = m /\ n = Len(rest)
        BY <1>3, <3>2
      <3> QED BY <1>6, <2>1, <3>1, <3>2, Zenon
    <2> QED BY <2>1, Zenon DEF Backed
  <1>9. Ahead(c, t, ran)
    <2>1. ASSUME NEW e \in 1..Len(ran), NEW i \in 1..Len(t), NEW x \in Message, NEW k \in Nat,
                 ran[e][1] = c, t[i] = Text(x, k)
          PROVE  ran[e][2] < x.id
      <3>1. CASE i \in 1..Len(s) /\ s[i] = Text(x, k)
        BY <1>4, <2>1, <3>1, Zenon DEF Ahead
      <3>2. CASE x = m
        BY <1>2, <1>3, <2>1, <3>2, Zenon DEF RunBelow
      <3> QED BY <1>7, <2>1, <3>1, <3>2, Zenon
    <2> QED BY <2>1, Zenon DEF Ahead
  <1>10. Numbered(c, t, ran, next)
    <2>1. ASSUME NEW i \in 1..Len(t), NEW x \in Message, NEW k \in Nat, t[i] = Text(x, k)
          PROVE  x.id < next
      <3>1. CASE i \in 1..Len(s) /\ s[i] = Text(x, k)
        BY <1>5, <3>1, Zenon DEF SaidBelow
      <3>2. CASE x = m
        BY <1>2, <1>3, <3>2
      <3> QED BY <1>7, <2>1, <3>1, <3>2, Zenon
    <2> QED BY <1>5, <2>1, Zenon DEF SaidBelow, Numbered
  <1>11. ASSUME n # Len(rest)
         PROVE  UnderWay(c, t, ran, id, method, u, next)
    <2>1. /\ Cells(m) \in Nat \ {0} /\ Len(rest) = 1 + Cells(m) - w
          /\ \A j \in 1..Len(rest) : rest[j] = Encoded(m)[w + j]
      <3>1. m \in Message
        BY <1>2 DEF Requests
      <3> QED BY <1>1, <3>1, EncodedIs DEF Writing, Left
    <2>2. Len(u) = Len(rest) - n /\ \A i \in 1..(Len(rest) - n) : u[i] = rest[n + i]
      BY Cut
    <2> HIDE DEF u
    <2>3. w + n \in 0..Cells(m)
      BY <1>11, <2>1
    <2>4. Left(m, w + n, u)
      <3>1. Len(u) = 1 + Cells(m) - (w + n)
        BY <2>1, <2>2, <2>3, SMTT(30)
      <3>2. ASSUME NEW j \in 1..Len(u) PROVE u[j] = Encoded(m)[w + n + j]
        <4>1. n + j \in 1..Len(rest) /\ w + (n + j) = w + n + j /\ j \in 1..(Len(rest) - n)
          BY <2>1, <2>2
        <4>2. u[j] = rest[n + j]
          BY <2>2, <4>1
        <4>3. rest[n + j] = Encoded(m)[w + (n + j)]
          BY <2>1, <4>1
        <4> QED BY <4>1, <4>2, <4>3
      <3> QED BY <3>1, <3>2, Zenon DEF Left
    <2>5. Writing(m, w + n, t, u)
      BY <1>6, <2>4, Zenon DEF Writing
    <2> QED BY <1>2, <2>3, <2>5, Zenon DEF UnderWay, m
  <1> QED BY <1>4, <1>6, <1>8, <1>9, <1>10, <1>11 DEF Line, t

LEMMA WriteUp ==
    ASSUME TypeOK, UpInv, Write
    PROVE  UpInv'
  <1> DEFINE c == connection_
             s == conns[c].up
             rest == call.rest
  <1>1. /\ c \in 1..Len(conns) /\ conns \in Seq(Connection) /\ call \in Call
        /\ rest \in Seq(Cell) /\ next_request_id_ \in Nat /\ pc = "write"
        /\ executed \in Seq((1..Len(conns)) \X Nat)
    BY SMTT(30) DEF TypeOK, CallerType, HistoryType, Write, Call
  <1>2. PICK n \in 1..Len(rest) :
            /\ conns' = Sent(conns, c, SubSeq(rest, 1, n))
            /\ call' = [call EXCEPT !.rest = SubSeq(@, n + 1, Len(@))]
            /\ pc' = IF n = Len(rest) THEN "next" ELSE "write"
            /\ written' = IF n = Len(rest) THEN written \cup {<<c, call.id>>} ELSE written
    BY DEF Write
  <1>3. UNCHANGED <<next_request_id_, connection_, executed>>
    BY DEF Write
  <1> DEFINE t == s \o SubSeq(rest, 1, n)
             u == SubSeq(rest, n + 1, Len(rest))
             r == [conns[c] EXCEPT !.up = t]
  <1>4. conns[c] \in Connection /\ s \in Seq(Cell) /\ t \in Seq(Cell)
    BY <1>1, OneOf, Cut, ConcatProperties
  <1>5. conns' = [conns EXCEPT ![c] = r]
    BY <1>2 DEF Sent
  <1>6. call'.id = call.id /\ call'.method = call.method /\ call'.rest = u
    BY <1>1, <1>2 DEF Call
  <1>7. /\ Line(c, s, written, executed) /\ Numbered(c, s, executed, next_request_id_)
        /\ UnderWay(c, s, executed, call.id, call.method, rest, next_request_id_)
    BY <1>1, Zenon DEF UpInv
  <1>8. written \subseteq written' /\ (n = Len(rest) => <<c, call.id>> \in written')
    BY <1>2
  <1>9. /\ Line(c, t, written', executed)
        /\ Numbered(c, t, executed, next_request_id_)
        /\ n # Len(rest) =>
               UnderWay(c, t, executed, call.id, call.method, u, next_request_id_)
    <2>1. c # 0
      BY <1>1
    <2> HIDE DEF c, s, rest
    <2> QED BY <1>1, <1>4, <1>7, <1>8, <2>1, Pushed
  <1> HIDE DEF t, u
  <1>10. r \in Connection /\ r.up = t
    BY <1>4, FieldSet, ZenonT(60)
  <1> HIDE DEF r, s, rest
  <1>11. /\ Len(conns') = Len(conns) /\ conns'[c] = r
         /\ \A d \in 1..Len(conns) : d # c => conns'[d] = conns[d]
    BY <1>1, <1>5, <1>10, Changed
  <1>12. ASSUME NEW d \in 1..Len(conns') PROVE Line(d, conns'[d].up, written', executed')
    <2>1. CASE d = c
      BY <1>3, <1>9, <1>10, <1>11, <2>1
    <2>2. CASE d # c
      <3>1. Line(d, conns[d].up, written, executed) /\ conns'[d] = conns[d]
        BY <1>11, <2>2, Zenon DEF UpInv
      <3> QED BY <1>3, <1>8, <3>1, Zenon DEF Line, Backed
    <2> QED BY <2>1, <2>2
  <1>13. RunsWhatWasSent'
    BY <1>3, <1>8, Zenon DEF UpInv, RunsWhatWasSent
  <1>14. Numbered(connection_', conns'[connection_'].up, executed', next_request_id_')
    BY <1>3, <1>9, <1>10, <1>11
  <1>15. ASSUME pc' = "write"
         PROVE  UnderWay(connection_', conns'[connection_'].up, executed', call'.id,
                         call'.method, call'.rest, next_request_id_')
    <2>1. n # Len(rest)
      BY <1>2, <1>15
    <2> QED BY <1>3, <1>6, <1>9, <1>10, <1>11, <2>1
  <1> QED BY <1>12, <1>13, <1>14, <1>15, Zenon DEF UpInv

(* What is behind a request on its line is younger than the request. *)
LEMMA BehindIt ==
    ASSUME NEW s \in Seq(Cell), Known(s), Headed(s), Ordered(s),
           HasFrame(s, MaxFrame), Parses(FramePayload(s)),
           NEW u, u = AfterFrame(s) \/ u = <<>>
    PROVE  \A i \in 1..Len(u) : \A x \in Message, k \in Nat :
               u[i] = Text(x, k) => Parsed(FramePayload(s)).id < x.id
  <1> DEFINE m == Parsed(FramePayload(s))
  <1>1. /\ m \in Requests /\ s[1].length = Cells(m) /\ Cells(m) \in Nat \ {0}
        /\ 1 + Cells(m) \in 1..Len(s) /\ s[1 + Cells(m)] = Text(m, Cells(m))
    BY RequestOf
  <1> HIDE DEF m
  <1>2. SUFFICES ASSUME NEW i \in 1..Len(u), NEW x \in Message, NEW k \in Nat, u[i] = Text(x, k)
                 PROVE  m.id < x.id
    BY DEF m
  <1>3. u = AfterFrame(s)
    BY <1>2
  <1>4. /\ Len(u) = Len(s) - (1 + Cells(m)) /\ Len(s) \in Nat
        /\ \A j \in 1..(Len(s) - (1 + Cells(m))) : u[j] = s[j + 1 + Cells(m)]
    BY <1>1, <1>3, FrameOf
  <1>5. i + 1 + Cells(m) \in 1..Len(s) /\ 1 + Cells(m) < i + 1 + Cells(m)
    BY <1>1, <1>4, SMTT(30)
  <1>6. s[i + 1 + Cells(m)] = Text(x, k)
    BY <1>2, <1>4
  <1>7. m \in Message /\ Cells(m) \in Nat
    BY <1>1 DEF Requests
  <1>8. Later(m, Cells(m), x, k)
    BY <1>1, <1>5, <1>6, <1>7, Zenon DEF Ordered
  <1>9. x \in Requests /\ k <= Cells(x)
    BY <1>5, <1>6, Zenon DEF Known
  <1>10. ~(m = x /\ Cells(m) < k)
    BY <1>1, <1>9
  <1> QED BY <1>8, <1>10 DEF Later

(* One more request has been run. *)
LEMMA RunMore ==
    ASSUME NEW X, NEW ran \in Seq(X \X Nat), NEW d \in X, NEW id \in Nat
    PROVE  LET new == Append(ran, <<d, id>>) IN
           /\ Len(new) = Len(ran) + 1 /\ Len(ran) \in Nat
           /\ \A e \in 1..Len(ran) : new[e] = ran[e]
           /\ new[Len(ran) + 1] = <<d, id>>
           /\ \A c, s : Ahead(c, s, ran)
                        /\ (c = d => \A i \in 1..Len(s) : \A x \in Message, k \in Nat :
                                         s[i] = Text(x, k) => id < x.id)
                        => Ahead(c, s, new)
           /\ \A c, n : RunBelow(c, ran, n) /\ (c = d => id < n) => RunBelow(c, new, n)
  <1> DEFINE new == Append(ran, <<d, id>>)
  <1>1. /\ Len(new) = Len(ran) + 1 /\ Len(ran) \in Nat
        /\ \A e \in 1..Len(ran) : new[e] = ran[e]
        /\ new[Len(ran) + 1] = <<d, id>>
    BY AppendProperties
  <1> HIDE DEF new
  <1>2. \A e \in 1..Len(new) : e \in 1..Len(ran) \/ new[e] = <<d, id>>
    BY <1>1
  <1>3. <<d, id>>[1] = d /\ <<d, id>>[2] = id
    OBVIOUS
  <1>4. ASSUME NEW c, NEW s, Ahead(c, s, ran),
               c = d => \A i \in 1..Len(s) : \A x \in Message, k \in Nat :
                            s[i] = Text(x, k) => id < x.id
        PROVE  Ahead(c, s, new)
    <2>1. ASSUME NEW e \in 1..Len(new), NEW i \in 1..Len(s), NEW x \in Message, NEW k \in Nat,
                 new[e][1] = c, s[i] = Text(x, k)
          PROVE  new[e][2] < x.id
      <3>1. CASE e \in 1..Len(ran)
        <4>1. new[e] = ran[e]
          BY <1>1, <3>1
        <4>2. ran[e][1] = c
          BY <2>1, <4>1
        <4>3. ran[e][2] < x.id
          BY <1>4, <2>1, <3>1, <4>2, Zenon DEF Ahead
        <4> QED BY <4>1, <4>3
      <3>2. CASE new[e] = <<d, id>>
        <4>1. c = d /\ new[e][2] = id
          BY <1>3, <2>1, <3>2
        <4>2. id < x.id
          BY <1>4, <2>1, <4>1, Zenon
        <4> QED BY <4>1, <4>2
      <3> QED BY <1>2, <3>1, <3>2
    <2> QED BY <2>1, Zenon DEF Ahead
  <1>5. ASSUME NEW c, NEW n, RunBelow(c, ran, n), c = d => id < n
        PROVE  RunBelow(c, new, n)
    <2>1. ASSUME NEW e \in 1..Len(new), new[e][1] = c
          PROVE  new[e][2] < n
      <3>1. CASE e \in 1..Len(ran)
        <4>1. new[e] = ran[e]
          BY <1>1, <3>1
        <4>2. ran[e][1] = c
          BY <2>1, <4>1
        <4>3. ran[e][2] < n
          BY <1>5, <3>1, <4>2, Zenon DEF RunBelow
        <4> QED BY <4>1, <4>3
      <3>2. CASE new[e] = <<d, id>>
        <4>1. c = d /\ new[e][2] = id
          BY <1>3, <2>1, <3>2
        <4> QED BY <1>5, <4>1
      <3> QED BY <1>2, <3>1, <3>2
    <2> QED BY <2>1, Zenon DEF RunBelow
  <1> QED BY <1>1, <1>4, <1>5, Zenon DEF new

(* The daemon runs the request at the head of a line. *)
LEMMA ServeUp ==
    ASSUME TypeOK, UpInv, NEW c \in DOMAIN conns, Serve(c)
    PROVE  UpInv'
  <1> DEFINE s == conns[c].up
             m == Parsed(FramePayload(s))
             new == Append(executed, <<c, m.id>>)
  <1>1. /\ c \in 1..Len(conns) /\ m \in Message /\ m.id \in Nat
        /\ HasFrame(s, MaxFrame) /\ Parses(FramePayload(s))
        /\ \E r \in Connection : /\ conns' = [conns EXCEPT ![c] = r]
                                 /\ r.up = AfterFrame(s) \/ r.up = <<>>
        /\ executed' = new
        /\ UNCHANGED <<server, caller, sub, written>>
    <2>1. Serve(c)
      OBVIOUS
    <2>2. /\ c \in 1..Len(conns) /\ m \in Message /\ m.id \in Nat
          /\ HasFrame(s, MaxFrame) /\ Parses(FramePayload(s))
          /\ \E r \in Connection :
                 /\ conns' = [conns EXCEPT ![c] = r]
                 /\ \/ /\ r.up = AfterFrame(s)
                       /\ \E ok \in BOOLEAN : r.down =
                              conns[c].down \o Encoded(Reply(m.id, ok, <<c, m.id>>))
                    \/ r.up = <<>> /\ r.down = conns[c].down
          /\ executed' = new
          /\ UNCHANGED <<server, caller, sub, written>>
      BY <2>1, ServeIs
    <2> HIDE DEF s, m, new
    <2> QED BY <2>2, Zenon
  <1> HIDE DEF new
  <1>2. PICK r \in Connection : /\ conns' = [conns EXCEPT ![c] = r]
                                /\ r.up = AfterFrame(s) \/ r.up = <<>>
    BY <1>1
  <1>3. UNCHANGED <<written, next_request_id_, connection_, pc, call>>
    BY <1>1 DEF caller
  <1>4. /\ conns \in Seq(Connection) /\ s \in Seq(Cell) /\ r.up \in Seq(Cell)
        /\ executed \in Seq((1..Len(conns)) \X Nat)
        /\ connection_ \in 0..Len(conns) /\ Len(conns) \in Nat
        /\ pc = "write" => connection_ # 0
    <2>1. conns \in Seq(Connection) /\ Len(conns) \in Nat
          /\ executed \in Seq((1..Len(conns)) \X Nat)
          /\ connection_ \in 0..Len(conns) /\ (pc = "write" => connection_ # 0)
      BY DEF TypeOK, CallerType, HistoryType
    <2>2. s \in Seq(Cell)
      BY <1>1, <2>1, OneOf
    <2>3. r.up \in Seq(Cell)
      BY DEF Connection
    <2> QED BY <2>1, <2>2, <2>3
  <1>5. /\ Len(conns') = Len(conns) /\ conns'[c] = r
        /\ \A d \in 1..Len(conns) : d # c => conns'[d] = conns[d]
    BY <1>1, <1>2, <1>4, Changed
  <1>6. Known(s) /\ Headed(s) /\ Ordered(s) /\ Backed(c, s, written) /\ Ahead(c, s, executed)
        /\ Line(c, s, written, executed)
    BY <1>1 DEF UpInv, Line
  <1>7. Keeps(s, r.up)
    BY <1>1, <1>2, <1>4, LeftOver
  <1>8. \A i \in 1..Len(r.up) : \A x \in Message, k \in Nat : r.up[i] = Text(x, k) => m.id < x.id
    BY <1>1, <1>2, <1>4, <1>6, BehindIt
  <1>9. /\ m \in Requests /\ Cells(m) \in Nat \ {0}
        /\ 1 + Cells(m) \in 1..Len(s) /\ s[1 + Cells(m)] = Text(m, Cells(m))
    BY <1>1, <1>4, <1>6, RequestOf
  <1> HIDE DEF m, s
  <1>10. /\ Len(new) = Len(executed) + 1 /\ Len(executed) \in Nat
         /\ \A e \in 1..Len(executed) : new[e] = executed[e]
         /\ new[Len(executed) + 1] = <<c, m.id>>
         /\ \A d, t : Ahead(d, t, executed)
                      /\ (d = c => \A i \in 1..Len(t) : \A x \in Message, k \in Nat :
                                       t[i] = Text(x, k) => m.id < x.id)
                      => Ahead(d, t, new)
         /\ \A d, n : RunBelow(d, executed, n) /\ (d = c => m.id < n) => RunBelow(d, new, n)
    <2>1. c \in 1..Len(conns) /\ m.id \in Nat
      BY <1>1
    <2> QED BY <1>4, <2>1, RunMore DEF new
  <1>11. ASSUME NEW d \in 1..Len(conns') PROVE Line(d, conns'[d].up, written', executed')
    <2>1. CASE d = c
      <3>1. Line(c, r.up, written, executed)
        BY <1>6, <1>7, LineKept
      <3>2. Ahead(c, r.up, new)
        BY <1>8, <1>10, <3>1, Zenon DEF Line
      <3>3. Line(c, r.up, written, new)
        BY <3>1, <3>2 DEF Line
      <3> QED BY <1>1, <1>3, <1>5, <2>1, <3>3
    <2>2. CASE d # c
      <3>1. Line(d, conns[d].up, written, executed) /\ conns'[d] = conns[d]
        BY <1>5, <2>2, Zenon DEF UpInv
      <3>2. Ahead(d, conns[d].up, new)
        BY <1>10, <2>2, <3>1, Zenon DEF Line
      <3>3. Line(d, conns[d].up, written, new)
        BY <3>1, <3>2 DEF Line
      <3> QED BY <1>1, <1>3, <3>1, <3>3
    <2> QED BY <2>1, <2>2
  <1>12. <<c, m.id>> \in written
    BY <1>1, <1>6, <1>9, Zenon DEF Backed
  <1>13. ASSUME NEW e \in 1..Len(executed), executed[e][1] = c PROVE executed[e][2] < m.id
    <2>1. Cells(m) \in Nat
      BY <1>9
    <2> QED BY <1>1, <1>6, <1>9, <1>13, <2>1, Zenon DEF Ahead
  <1>14. RunsWhatWasSent'
    <2>1. DOMAIN executed = 1..Len(executed) /\ DOMAIN new = 1..Len(new)
      <3>1. <<c, m.id>> \in (1..Len(conns)) \X Nat
        BY <1>1
      <3>2. new \in Seq((1..Len(conns)) \X Nat)
        BY <1>4, <3>1, AppendProperties DEF new
      <3> QED BY <1>4, <3>2
    <2>2. /\ \A i \in 1..Len(executed) : executed[i] \in written
          /\ \A i, j \in 1..Len(executed) :
                 i < j /\ executed[i][1] = executed[j][1] => executed[i][2] < executed[j][2]
      BY <2>1 DEF UpInv, RunsWhatWasSent
    <2>3. ASSUME NEW i \in 1..Len(new) PROVE new[i] \in written
      BY <1>10, <1>12, <2>2
    <2>4. ASSUME NEW i \in 1..Len(new), NEW j \in 1..Len(new), i < j, new[i][1] = new[j][1]
          PROVE  new[i][2] < new[j][2]
      <3>1. i \in 1..Len(executed) /\ new[i] = executed[i]
        BY <1>10, <2>4
      <3>2. CASE j \in 1..Len(executed)
        <4>1. new[j] = executed[j]
          BY <1>10, <3>2
        <4>2. executed[i][1] = executed[j][1]
          BY <2>4, <3>1, <4>1
        <4>3. executed[i][2] < executed[j][2]
          BY <2>2, <2>4, <3>1, <3>2, <4>2, Zenon
        <4> QED BY <3>1, <4>1, <4>3
      <3>3. CASE j = Len(executed) + 1
        <4>1. new[j][1] = c /\ new[j][2] = m.id
          BY <1>10, <3>3
        <4>2. executed[i][2] < m.id
          BY <1>13, <2>4, <3>1, <4>1
        <4> QED BY <3>1, <4>1, <4>2
      <3> QED BY <1>10, <3>2, <3>3
    <2> QED BY <1>1, <1>3, <2>1, <2>3, <2>4, Zenon DEF RunsWhatWasSent
  <1>15. Numbered(connection_', conns'[connection_'].up, executed', next_request_id_')
    <2>1. CASE connection_ = 0
      BY <1>3, <2>1, Zenon DEF Numbered
    <2>2. CASE connection_ # 0
      <3>1. connection_ \in 1..Len(conns)
        BY <1>4, <2>2
      <3>2. /\ SaidBelow(conns[connection_].up, next_request_id_)
            /\ RunBelow(connection_, executed, next_request_id_)
        BY <2>2, Zenon DEF UpInv, Numbered
      <3>3. connection_ = c => m.id < next_request_id_
        <4>1. ASSUME connection_ = c PROVE m.id < next_request_id_
          <5>1. SaidBelow(s, next_request_id_) /\ Cells(m) \in Nat
            BY <1>9, <3>2, <4>1 DEF s
          <5> QED BY <1>1, <1>9, <5>1, Zenon DEF SaidBelow
        <4> QED BY <4>1
      <3>4. RunBelow(connection_, new, next_request_id_)
        BY <1>10, <3>2, <3>3, Zenon
      <3>5. SaidBelow(conns'[connection_].up, next_request_id_)
        <4>1. CASE connection_ = c
          BY <1>5, <1>7, <3>2, <4>1, Zenon DEF Keeps, s
        <4>2. CASE connection_ # c
          BY <1>5, <3>1, <3>2, <4>2, Zenon
        <4> QED BY <4>1, <4>2
      <3> QED BY <1>1, <1>3, <3>4, <3>5, Zenon DEF Numbered
    <2> QED BY <2>1, <2>2
  <1>16. ASSUME pc' = "write"
         PROVE  UnderWay(connection_', conns'[connection_'].up, executed', call'.id,
                         call'.method, call'.rest, next_request_id_')
    <2>1. pc = "write" /\ connection_ \in 1..Len(conns)
      BY <1>3, <1>4, <1>16
    <2> DEFINE q == Request(call.id, call.method)
               up == conns[connection_].up
               next == next_request_id_
    <2>2. UnderWay(connection_, up, executed, call.id, call.method, call.rest, next)
      BY <2>1, Zenon DEF UpInv
    <2>3. RunBelow(connection_, executed, call.id) /\ q \in Requests
      BY <2>2, Zenon DEF UnderWay
    <2>4. PICK w \in 0..Cells(q) : Writing(q, w, up, call.rest)
      BY <2>2, Zenon DEF UnderWay
    <2>5. connection_ = c => m.id < call.id
      <3>1. ASSUME connection_ = c PROVE m.id < call.id
        <4>1. Before(q, w, s)
          BY <2>4, <3>1, Zenon DEF Writing, s
        <4>2. q.id = call.id
          BY DEF Request
        <4> HIDE DEF q
        <4>3. Cells(m) \in Nat
          BY <1>9
        <4>4. Later(m, Cells(m), q, w)
          BY <1>1, <1>9, <4>1, <4>3, Zenon DEF Before
        <4>5. Cells(q) \in Nat
          BY <2>3, EncodedIs DEF Requests
        <4>6. ~(m = q /\ Cells(m) < w)
          BY <4>5
        <4> QED BY <4>2, <4>4, <4>6 DEF Later
      <3> QED BY <3>1
    <2>6. RunBelow(connection_, new, call.id)
      BY <1>10, <2>3, <2>5, Zenon
    <2>7. UnderWay(connection_, up, new, call.id, call.method, call.rest, next)
      BY <2>2, <2>6, Zenon DEF UnderWay
    <2>8. UnderWay(connection_, conns'[connection_].up, new, call.id, call.method, call.rest, next)
      <3>1. CASE connection_ = c
        <4>1. Keeps(up, conns'[connection_].up)
          BY <1>5, <1>7, <3>1, Zenon DEF s
        <4> QED BY <2>7, <4>1, UnderWayKept
      <3>2. CASE connection_ # c
        <4>1. conns'[connection_] = conns[connection_]
          BY <1>5, <2>1, <3>2
        <4> QED BY <2>7, <4>1
      <3> QED BY <3>1, <3>2
    <2> QED BY <1>1, <1>3, <2>8
  <1> QED BY <1>11, <1>14, <1>15, <1>16, Zenon DEF UpInv

LEMMA InitUp == Init => AnswerInv /\ UpInv
  <1> SUFFICES ASSUME Init PROVE AnswerInv /\ UpInv
    OBVIOUS
  <1>1. /\ conns = <<>> /\ connection_ = 0 /\ pc = "idle" /\ ~outcome.ok
        /\ executed = <<>>
    BY DEF Init
  <1>2. 1..Len(conns) = {} /\ DOMAIN executed = {}
    BY <1>1
  <1>3. AnswerInv
    BY <1>1, <1>2, Zenon DEF AnswerInv, AnswersAreOwn
  <1>4. RunsWhatWasSent
    BY <1>2, Zenon DEF RunsWhatWasSent
  <1>5. pc # "write"
    BY <1>1
  <1> QED BY <1>1, <1>2, <1>3, <1>4, <1>5, Zenon DEF UpInv, Numbered

(* No step of the client or of the daemon breaks the order of the requests. *)
LEMMA StepUp ==
    ASSUME TypeOK, UpInv, Changes \/ UNCHANGED vars
    PROVE  UpInv'
  <1>1. TypeOK'
    BY StepType
  <1>2. CASE \/ StartConnect \/ (\E m \in Method : RefuseCall(m))
             \/ DialFails \/ WriteFails \/ NextFrame \/ ReadMore \/ DeadlinePasses \/ Read
             \/ ReadsEnd \/ Tick \/ Unsubscribe \/ Join \/ Worker
             \/ Disconnect /\ pc = "idle" /\ UNCHANGED <<pc, history>>
             \/ UNCHANGED vars
    BY <1>1, <1>2, ClientUp
  <1>3. ASSUME NEW m \in Method, StartCall(m) PROVE UpInv'
    BY <1>3, StartCallUp
  <1>4. CASE Dial
    BY <1>4, DialUp
  <1>5. CASE Write
    BY <1>5, WriteUp
  <1>6. CASE Subscribe
    BY <1>6, SubscribeUp
  <1>7. ASSUME NEW c \in DOMAIN conns, Serve(c) PROVE UpInv'
    BY <1>7, ServeUp
  <1>8. ASSUME \/ \E c \in DOMAIN conns : ServeGarbage(c) \/ CloseSession(c)
               \/ Publish \/ DaemonStarts \/ DaemonStops
        PROVE  UpInv'
    <2>1. /\ conns' \in Seq(Connection) /\ Len(conns') = Len(conns)
          /\ \A d \in 1..Len(conns) : Emptied(conns, conns', d)
          /\ UNCHANGED <<caller, history>>
      BY <1>8, ServerIs
    <2>2. OnlyTaken
      BY <2>1, Zenon DEF OnlyTaken
    <2>3. UNCHANGED <<next_request_id_, connection_, pc, call, history>>
      BY <2>1 DEF caller
    <2>4. next_request_id_ \in Nat
      BY DEF TypeOK, CallerType
    <2>5. next_request_id_ <= next_request_id_'
      BY <2>3, <2>4
    <2> QED BY <1>1, <2>2, <2>3, <2>5, UpKept
  <1>9. CASE Server
    BY <1>7, <1>8, <1>9, Zenon DEF Server
  <1>10. CASE Ask \/ RoundTrip
    BY <1>2, <1>3, <1>4, <1>5, <1>10, Zenon DEF Ask, RoundTrip
  <1> QED BY <1>2, <1>6, <1>9, <1>10, Zenon DEF Changes, Next

-----------------------------------------------------------------------------
(* Events.                                                                  *)

\* The cells of p replies and then of the k events that follow event a.
Frames(s, p, k, a) ==
    /\ Len(s) = 2 * p + 2 * k
    /\ p = 1 => s[1] = Length(1) /\ \E m \in Message : m.kind = "reply" /\ s[2] = Text(m, 1)
    /\ \A j \in 1..k : /\ s[2 * p + 2 * j - 1] = Length(1)
                       /\ s[2 * p + 2 * j] = Text(Event(a + j), 1)

Subscribing(up) ==
    up = <<>> \/ \E id \in Nat : up = Encoded(Request(id, "subscribe"))

\* What the daemon has written on connection r and the thread has not taken off it (s),
\* after the events seen, when n were published.
Stream(r, s, seen, n) ==
    \/ ~r.subscribed /\ Subscribing(r.up) /\ s = <<>> /\ seen = <<>>
    \/ /\ r.subscribed /\ r.up = <<>>
       /\ \E p \in {0, 1}, k \in Nat, a \in Nat :
              /\ Frames(s, p, k, a)
              /\ seen # <<>> => p = 0 /\ seen[Len(seen)] = a
              /\ r.server => a + k = n

Consecutive(seen) == \A i \in 1..Len(seen) - 1 : seen[i + 1] = seen[i] + 1

Unread(cs, w) == w.reader \o cs[w.conn].down

\* The thread reads a connection nobody else reads, from which no event is missing.
StreamInv ==
    /\ worker.pc = "none" <=> subscription_ = 0
    /\ Consecutive(worker.seen)
    /\ worker.pc # "none" =>
           /\ worker.conn = subscription_ /\ worker.conn # connection_
           /\ Stream(conns[worker.conn], Unread(conns, worker), worker.seen, events)

(* A message that is no request takes one cell. *)
LEMMA ShortIs ==
    ASSUME NEW m \in Message, m.kind # "request"
    PROVE  /\ Encoded(m) \in Seq(Cell) /\ Len(Encoded(m)) = 2
           /\ Encoded(m)[1] = Length(1) /\ Encoded(m)[2] = Text(m, 1)
  <1>1. Cells(m) = 1
    BY Zenon DEF Cells
  <1>2. 1 \in 1..1 /\ 1 + 1 = 2
    OBVIOUS
  <1> QED BY <1>1, <1>2, EncodedIs

(* The frames behind which another one is put. *)
LEMMA FrameBehind ==
    ASSUME NEW s \in Seq(Cell), NEW m \in Message, m.kind # "request"
    PROVE  /\ s \o Encoded(m) \in Seq(Cell)
           /\ Len(s \o Encoded(m)) = Len(s) + 2
           /\ \A i \in 1..Len(s) : (s \o Encoded(m))[i] = s[i]
           /\ (s \o Encoded(m))[Len(s) + 1] = Length(1)
           /\ (s \o Encoded(m))[Len(s) + 2] = Text(m, 1)
  <1> DEFINE f == Encoded(m)
  <1>1. f \in Seq(Cell) /\ Len(f) = 2 /\ f[1] = Length(1) /\ f[2] = Text(m, 1)
    BY ShortIs
  <1> HIDE DEF f
  <1>2. /\ s \o f \in Seq(Cell) /\ Len(s \o f) = Len(s) + Len(f)
        /\ \A i \in 1..(Len(s) + Len(f)) :
               (s \o f)[i] = IF i <= Len(s) THEN s[i] ELSE f[i - Len(s)]
    BY <1>1, ConcatProperties
  <1>3. Len(s) \in Nat
    OBVIOUS
  <1>4. \A i \in 1..Len(s) : (s \o f)[i] = s[i]
    BY <1>1, <1>2, <1>3
  <1>5. (s \o f)[Len(s) + 1] = f[1] /\ (s \o f)[Len(s) + 2] = f[2]
    <2>1. Len(s) + 1 \in 1..(Len(s) + Len(f)) /\ ~(Len(s) + 1 <= Len(s)) /\ Len(s) + 1 - Len(s) = 1
      BY <1>1, <1>3
    <2>2. Len(s) + 2 \in 1..(Len(s) + Len(f)) /\ ~(Len(s) + 2 <= Len(s)) /\ Len(s) + 2 - Len(s) = 2
      BY <1>1, <1>3
    <2> QED BY <1>2, <2>1, <2>2
  <1> QED BY <1>1, <1>2, <1>4, <1>5 DEF f

LEMMA EventBehind ==
    ASSUME NEW s \in Seq(Cell), NEW p \in {0, 1}, NEW k \in Nat, NEW a \in Nat, Frames(s, p, k, a)
    PROVE  Frames(s \o Encoded(Event(a + k + 1)), p, k + 1, a)
  <1> DEFINE m == Event(a + k + 1)
             t == s \o Encoded(m)
  <1>1. m \in Message /\ m.kind # "request" /\ m = Event(a + (k + 1))
    <2>1. a + k + 1 \in Nat /\ a + k + 1 = a + (k + 1)
      OBVIOUS
    <2> QED BY <2>1, MessageType DEF Event
  <1>2. /\ Len(t) = Len(s) + 2
        /\ \A i \in 1..Len(s) : t[i] = s[i]
        /\ t[Len(s) + 1] = Length(1) /\ t[Len(s) + 2] = Text(m, 1)
    <2> HIDE DEF m
    <2> QED BY <1>1, FrameBehind DEF t
  <1> HIDE DEF m, t
  <1>3. Len(s) = 2 * p + 2 * k /\ p \in Nat
    BY DEF Frames
  <1>4. Len(t) = 2 * p + 2 * (k + 1)
    BY <1>2, <1>3
  <1>5. ASSUME p = 1
        PROVE  t[1] = Length(1) /\ \E x \in Message : x.kind = "reply" /\ t[2] = Text(x, 1)
    <2>1. 1 \in 1..Len(s) /\ 2 \in 1..Len(s)
      BY <1>3, <1>5
    <2>2. t[1] = s[1] /\ t[2] = s[2]
      BY <1>2, <2>1
    <2> QED BY <1>5, <2>2, Zenon DEF Frames
  <1>6. ASSUME NEW j \in 1..(k + 1)
        PROVE  t[2 * p + 2 * j - 1] = Length(1) /\ t[2 * p + 2 * j] = Text(Event(a + j), 1)
    <2>1. CASE j \in 1..k
      <3>1. 2 * p + 2 * j - 1 \in 1..Len(s) /\ 2 * p + 2 * j \in 1..Len(s)
        BY <1>3, <2>1
      <3>2. s[2 * p + 2 * j - 1] = Length(1) /\ s[2 * p + 2 * j] = Text(Event(a + j), 1)
        BY <2>1, Zenon DEF Frames
      <3> QED BY <1>2, <3>1, <3>2, Zenon
    <2>2. CASE j = k + 1
      <3>1. 2 * p + 2 * j - 1 = Len(s) + 1 /\ 2 * p + 2 * j = Len(s) + 2
        BY <1>3, <2>2
      <3> QED BY <1>1, <1>2, <2>2, <3>1, Zenon
    <2> QED BY <2>1, <2>2
  <1> QED BY <1>4, <1>5, <1>6, Zenon DEF Frames, t, m

LEMMA FirstReply ==
    ASSUME NEW m \in Message, m.kind = "reply", NEW a \in Nat, NEW s, s = <<>>
    PROVE  Frames(s \o Encoded(m), 1, 0, a)
  <1> DEFINE t == s \o Encoded(m)
  <1>1. s \in Seq(Cell) /\ Len(s) = 0
    BY EmptySeq
  <1>2. /\ Len(t) = Len(s) + 2
        /\ t[Len(s) + 1] = Length(1) /\ t[Len(s) + 2] = Text(m, 1)
    BY <1>1, FrameBehind DEF t
  <1> HIDE DEF t
  <1>3. Len(t) = 2 * 1 + 2 * 0 /\ t[1] = Length(1) /\ t[2] = Text(m, 1) /\ 1..0 = {}
    BY <1>1, <1>2
  <1> QED BY <1>3 DEF Frames, t

(* The first frame is taken off a stream. *)
LEMMA OneTaken ==
    ASSUME NEW s \in Seq(Cell), NEW p \in {0, 1}, NEW k \in Nat, NEW a \in Nat, Frames(s, p, k, a),
           NEW t, Len(t) = Len(s) - 2, \A i \in 1..(Len(s) - 2) : t[i] = s[i + 2], s # <<>>
    PROVE  /\ s[1] = Length(1)
           /\ p = 1 => /\ Frames(t, 0, k, a)
                       /\ \E m \in Message : m.kind = "reply" /\ s[2] = Text(m, 1)
           /\ p = 0 => /\ k - 1 \in Nat
                       /\ Frames(t, 0, k - 1, a + 1)
                       /\ s[2] = Text(Event(a + 1), 1)
  <1>1. Len(s) = 2 * p + 2 * k /\ p \in Nat /\ Len(s) \in Nat /\ Len(s) # 0
    BY EmptySeq DEF Frames
  <1>2. ASSUME p = 1
        PROVE  /\ s[1] = Length(1) /\ Frames(t, 0, k, a)
               /\ \E m \in Message : m.kind = "reply" /\ s[2] = Text(m, 1)
    <2>1. Len(t) = 2 * 0 + 2 * k
      BY <1>1, <1>2
    <2>2. ASSUME NEW j \in 1..k
          PROVE  t[2 * 0 + 2 * j - 1] = Length(1) /\ t[2 * 0 + 2 * j] = Text(Event(a + j), 1)
      <3>1. /\ 2 * 0 + 2 * j - 1 \in 1..(Len(s) - 2) /\ 2 * 0 + 2 * j \in 1..(Len(s) - 2)
            /\ (2 * 0 + 2 * j - 1) + 2 = 2 * p + 2 * j - 1 /\ (2 * 0 + 2 * j) + 2 = 2 * p + 2 * j
        BY <1>1, <1>2
      <3>2. s[2 * p + 2 * j - 1] = Length(1) /\ s[2 * p + 2 * j] = Text(Event(a + j), 1)
        BY Zenon DEF Frames
      <3> QED BY <3>1, <3>2, Zenon
    <2>3. Frames(t, 0, k, a)
      BY <2>1, <2>2 DEF Frames
    <2> QED BY <1>2, <2>3, Zenon DEF Frames
  <1>3. ASSUME p = 0
        PROVE  /\ s[1] = Length(1) /\ k - 1 \in Nat /\ Frames(t, 0, k - 1, a + 1)
               /\ s[2] = Text(Event(a + 1), 1)
    <2>1. k - 1 \in Nat /\ Len(t) = 2 * 0 + 2 * (k - 1) /\ 1 \in 1..k
      BY <1>1, <1>3
    <2>2. ASSUME NEW j \in 1..(k - 1)
          PROVE  /\ t[2 * 0 + 2 * j - 1] = Length(1)
                 /\ t[2 * 0 + 2 * j] = Text(Event((a + 1) + j), 1)
      <3>1. /\ 2 * 0 + 2 * j - 1 \in 1..(Len(s) - 2) /\ 2 * 0 + 2 * j \in 1..(Len(s) - 2)
            /\ (2 * 0 + 2 * j - 1) + 2 = 2 * p + 2 * (j + 1) - 1
            /\ (2 * 0 + 2 * j) + 2 = 2 * p + 2 * (j + 1)
            /\ j + 1 \in 1..k /\ (a + 1) + j = a + (j + 1)
        BY <1>1, <1>3, <2>1
      <3>2. /\ s[2 * p + 2 * (j + 1) - 1] = Length(1)
            /\ s[2 * p + 2 * (j + 1)] = Text(Event(a + (j + 1)), 1)
        BY <3>1, Zenon DEF Frames
      <3> QED BY <3>1, <3>2, Zenon
    <2>3. Frames(t, 0, k - 1, a + 1)
      BY <2>1, <2>2 DEF Frames
    <2>4. 2 * p + 2 * 1 - 1 = 1 /\ 2 * p + 2 * 1 = 2
      BY <1>3
    <2>5. s[1] = Length(1) /\ s[2] = Text(Event(a + 1), 1)
      BY <2>1, <2>4, Zenon DEF Frames
    <2> QED BY <2>1, <2>3, <2>5
  <1> QED BY <1>2, <1>3

(* A payload of one cell. *)
LEMMA ShortPayload ==
    ASSUME NEW m \in Message, NEW q \in Seq(Cell), Len(q) = 1, q[1] = Text(m, 1)
    PROVE  Parses(q) /\ Parsed(q) = m
  <1>1. q # <<>> /\ DOMAIN q = 1..1
    BY EmptySeq
  <1>2. ~IsLength(Text(m, 1)) /\ Text(m, 1).text = m
    BY DEF IsLength, Text
  <1>3. \A k \in 1..1 : k = 1
    OBVIOUS
  <1> QED BY <1>1, <1>2, <1>3, Zenon DEF Parses, Parsed

(* What the daemon reads is what was encoded. *)
LEMMA ReadBack ==
    ASSUME NEW m \in Message, HasFrame(Encoded(m), MaxFrame)
    PROVE  /\ Parses(FramePayload(Encoded(m))) /\ Parsed(FramePayload(Encoded(m))) = m
           /\ AfterFrame(Encoded(m)) = <<>>
  <1> DEFINE f == Encoded(m)
             n == Cells(m)
             q == FramePayload(f)
  <1>1. /\ n \in Nat \ {0} /\ f \in Seq(Cell) /\ Len(f) = 1 + n /\ f[1] = Length(n)
        /\ \A k \in 1..n : f[1 + k] = Text(m, k)
    BY EncodedIs
  <1> HIDE DEF n, f
  <1>2. HasFrame(f, MaxFrame) /\ f[1].length = n
    BY <1>1 DEF f, Length
  <1>3. /\ q \in Seq(Cell) /\ Len(q) = n /\ \A k \in 1..n : q[k] = f[1 + k]
        /\ AfterFrame(f) \in Seq(Cell) /\ Len(AfterFrame(f)) = Len(f) - (1 + n)
    BY <1>1, <1>2, FrameOf
  <1>4. AfterFrame(f) = <<>>
    BY <1>1, <1>3, EmptySeq
  <1> HIDE DEF q
  <1>5. q # <<>> /\ 1 \in 1..n /\ DOMAIN q = 1..n
    BY <1>1, <1>3, EmptySeq
  <1>6. \A k \in 1..n : q[k] = Text(m, k)
    BY <1>1, <1>3
  <1>7. ~IsLength(Text(m, 1)) /\ Text(m, 1).text = m
    BY DEF IsLength, Text
  <1>8. Parses(q) /\ Parsed(q) = m
    BY <1>5, <1>6, <1>7 DEF Parses, Parsed
  <1> QED BY <1>4, <1>8 DEF f, q

(* Streams in a row make a stream, however they are grouped. *)
LEMMA Grouped == \A a, b, c \in Seq(Cell) : (a \o b) \o c = a \o (b \o c)
  BY ConcatAssociative, SMTT(60)

(* A read moves cells from one stream to the other. *)
LEMMA Moved ==
    ASSUME NEW r \in Seq(Cell), NEW s \in Seq(Cell), NEW n \in 1..Len(s)
    PROVE  (r \o SubSeq(s, 1, n)) \o SubSeq(s, n + 1, Len(s)) = r \o s
  <1> DEFINE a == SubSeq(s, 1, n)
             b == SubSeq(s, n + 1, Len(s))
  <1>1. /\ a \in Seq(Cell) /\ Len(a) = n /\ (\A i \in 1..n : a[i] = s[i])
        /\ b \in Seq(Cell) /\ Len(b) = Len(s) - n /\ (\A i \in 1..(Len(s) - n) : b[i] = s[n + i])
    BY Cut
  <1> HIDE DEF a, b
  <1>2. a \o b = s
    <2>1. /\ a \o b \in Seq(Cell) /\ Len(a \o b) = Len(a) + Len(b)
          /\ \A i \in 1..(Len(a) + Len(b)) : (a \o b)[i] = IF i <= Len(a) THEN a[i] ELSE b[i - Len(a)]
      BY <1>1, ConcatProperties
    <2>2. Len(s) \in Nat /\ n \in Nat /\ n <= Len(s)
      OBVIOUS
    <2>3. Len(a \o b) = Len(s)
      BY <1>1, <2>1, <2>2
    <2>4. ASSUME NEW i \in 1..Len(s) PROVE (a \o b)[i] = s[i]
      <3>1. CASE i <= n
        BY <1>1, <2>1, <2>2, <3>1
      <3>2. CASE ~(i <= n)
        <4>1. i - n \in 1..(Len(s) - n) /\ n + (i - n) = i
          BY <2>2, <3>2
        <4>2. (a \o b)[i] = b[i - n]
          BY <1>1, <2>1, <2>2, <3>2
        <4> QED BY <1>1, <4>1, <4>2
      <3> QED BY <3>1, <3>2
    <2> QED BY <2>1, <2>3, <2>4, SeqEqual
  <1>3. (r \o a) \o b = r \o (a \o b)
    BY <1>1, Grouped, Zenon
  <1> QED BY <1>2, <1>3 DEF a, b

\* What happens to the thread's connection in a step it has no part in.
SameLine(r, q) ==
    /\ q.up = r.up \/ q.up = <<>>
    /\ q.down = r.down /\ q.subscribed = r.subscribed
    /\ q.server => r.server

LEMMA StreamKept ==
    ASSUME StreamInv, UNCHANGED <<worker, subscription_, events>>,
           worker.pc # "none" => /\ connection_' # worker.conn
                                 /\ SameLine(conns[worker.conn], conns'[worker.conn])
    PROVE  StreamInv'
  <1>1. CASE worker.pc = "none"
    BY <1>1, Zenon DEF StreamInv
  <1>2. CASE worker.pc # "none"
    <2> DEFINE r == conns[worker.conn]
               q == conns'[worker.conn]
               s == Unread(conns, worker)
    <2>1. Stream(r, s, worker.seen, events) /\ SameLine(r, q) /\ connection_' # worker.conn
      BY <1>2, Zenon DEF StreamInv
    <2>2. Unread(conns', worker) = s
      BY <2>1 DEF Unread, SameLine
    <2> HIDE DEF r, q, s
    <2>3. Stream(q, s, worker.seen, events)
      <3>1. CASE ~r.subscribed
        <4>1. Subscribing(r.up) /\ s = <<>> /\ worker.seen = <<>>
          BY <2>1, <3>1, Zenon DEF Stream
        <4>2. Subscribing(q.up) /\ ~q.subscribed
          BY <2>1, <3>1, <4>1, Zenon DEF SameLine, Subscribing
        <4> QED BY <4>1, <4>2, Zenon DEF Stream
      <3>2. CASE r.subscribed
        <4>1. PICK p \in {0, 1}, k \in Nat, a \in Nat :
                  /\ Frames(s, p, k, a)
                  /\ worker.seen # <<>> => p = 0 /\ worker.seen[Len(worker.seen)] = a
                  /\ r.server => a + k = events
          BY <2>1, <3>2, Zenon DEF Stream
        <4>2. r.up = <<>>
          BY <2>1, <3>2, Zenon DEF Stream
        <4>3. q.subscribed /\ q.up = <<>> /\ (q.server => a + k = events)
          BY <2>1, <3>2, <4>1, <4>2, Zenon DEF SameLine
        <4> QED BY <4>1, <4>3, Zenon DEF Stream
      <3> QED BY <3>1, <3>2
    <2>4. Stream(conns'[worker'.conn], Unread(conns', worker'), worker'.seen, events')
      BY <2>2, <2>3 DEF q
    <2> QED BY <1>2, <2>1, <2>4, Zenon DEF StreamInv
  <1> QED BY <1>1, <1>2

(* The connections that a step of the client leaves as they are. *)
LEMMA OthersKept ==
    ASSUME NEW cs \in Seq(Connection), NEW d \in 1..Len(cs), NEW e
    PROVE  /\ SameLine(cs[d], cs[d])
           /\ SameLine(cs[d], Hung(cs, e)[d])
           /\ \A r : SameLine(cs[d], Append(cs, r)[d])
           /\ d # e => \A r : SameLine(cs[d], [cs EXCEPT ![e] = r][d])
  <1>1. cs[d] \in Connection /\ d \in DOMAIN cs
    BY OneOf
  <1>2. SameLine(cs[d], cs[d])
    BY DEF SameLine
  <1>3. \A r : Append(cs, r)[d] = cs[d]
    OBVIOUS
  <1>4. d # e => \A r : [cs EXCEPT ![e] = r][d] = cs[d]
    BY <1>1
  <1>5. SameLine(cs[d], Hung(cs, e)[d])
    <2>1. CASE d = e
      <3>1. Hung(cs, e)[d] = [cs[d] EXCEPT !.client = FALSE]
        BY <1>1, <2>1 DEF Hung
      <3>2. SameLine(cs[d], [cs[d] EXCEPT !.client = FALSE])
        BY <1>1 DEF SameLine, Connection
      <3> QED BY <3>1, <3>2
    <2>2. CASE d # e
      <3>1. Hung(cs, e)[d] = cs[d]
        BY <1>1, <2>2 DEF Hung
      <3> QED BY <1>2, <3>1
    <2> QED BY <2>1, <2>2
  <1> QED BY <1>2, <1>3, <1>4, <1>5, Zenon

(* A step of the calling thread, or the end of its program: it touches its own connection,  *)
(* makes a new one or closes one.                                                           *)
LEMMA ClientStream ==
    ASSUME TypeOK, StreamInv,
           \/ Ask \/ RoundTrip \/ Tick \/ Unsubscribe
           \/ Disconnect /\ UNCHANGED <<server, sub>>
           \/ UNCHANGED vars
    PROVE  StreamInv'
  <1> DEFINE d == worker.conn
             Touched == \/ conns' = conns
                        \/ \E r : conns' = Append(conns, r)
                        \/ \E e : conns' = Hung(conns, e)
                        \/ \E r : conns' = [conns EXCEPT ![connection_] = r]
             Quiet == /\ Touched /\ UNCHANGED <<worker, subscription_, events>>
                      /\ connection_' \in {0, connection_, Len(conns) + 1}
  <1>1. /\ conns \in Seq(Connection) /\ Len(conns) \in Nat
        /\ worker.pc # "none" => d \in 1..Len(conns) /\ d # connection_
    <2>1. conns \in Seq(Connection) /\ d \in 0..Len(conns)
          /\ (worker.pc # "none" => d # 0)
      BY DEF TypeOK, SubscriptionType
    <2>2. worker.pc # "none" => d # connection_
      BY Zenon DEF StreamInv
    <2> QED BY <2>1, <2>2
  <1>2. ASSUME Ask \/ Tick \/ ReadMore \/ DialFails \/ UNCHANGED vars PROVE Quiet
    BY <1>2, Zenon DEF Ask, StartConnect, StartCall, RefuseCall, Tick, ReadMore, DialFails, AttemptFails,
               vars, server, caller, sub
  <1>3. ASSUME Dial PROVE Quiet
    BY <1>3, Zenon DEF Dial, server, sub
  <1>4. ASSUME Write PROVE Quiet
    <2>1. /\ UNCHANGED <<server, sub, connection_>>
          /\ \E x : conns' = Sent(conns, connection_, x)
      BY <1>4, Zenon DEF Write
    <2>2. \A x : Sent(conns, connection_, x)
                 = [conns EXCEPT ![connection_] = [conns[connection_] EXCEPT !.up = @ \o x]]
      BY DEF Sent
    <2>3. Touched
      BY <2>1, <2>2, Zenon
    <2> QED BY <2>1, <2>3, Zenon DEF server, sub
  <1>5. ASSUME NEW ok, NEW of, RoundTripEnds(conns, ok, of), UNCHANGED <<events, sub>> PROVE Quiet
    BY <1>5, Zenon DEF RoundTripEnds, AttemptFails, sub
  <1>6. ASSUME WriteFails \/ DeadlinePasses \/ ReadsEnd PROVE Quiet
    <2>1. RoundTripEnds(conns, FALSE, Nobody) /\ UNCHANGED <<events, sub>>
      BY <1>6, Zenon DEF WriteFails, DeadlinePasses, ReadsEnd, RoundTripFails
    <2> QED BY <1>5, <2>1, Zenon
  <1>7. ASSUME NextFrame PROVE Quiet
    <2> DEFINE m == Parsed(FramePayload(reader_))
    <2>1. /\ RoundTripEnds(conns, m.ok, m.of) \/ UNCHANGED <<conns, connection_>>
          /\ UNCHANGED <<events, sub>>
      BY <1>7, Zenon DEF NextFrame
    <2> HIDE DEF m
    <2>2. CASE RoundTripEnds(conns, m.ok, m.of)
      BY <1>5, <2>1, <2>2, Zenon
    <2>3. CASE UNCHANGED <<conns, connection_>>
      BY <2>1, <2>3, Zenon DEF sub
    <2> QED BY <2>1, <2>2, <2>3
  <1>8. ASSUME Read PROVE Quiet
    <2>1. /\ UNCHANGED <<server, sub, connection_>>
          /\ \/ conns' = conns
             \/ \E n \in 1..Len(conns[connection_].down) :
                    conns' = [conns EXCEPT ![connection_].down = SubSeq(@, n + 1, Len(@))]
      BY <1>8, Zenon DEF Read
    <2>2. Touched
      BY <2>1, Zenon
    <2> QED BY <2>1, <2>2, Zenon DEF server, sub
  <1>9. ASSUME Disconnect, UNCHANGED <<server, sub>> PROVE Quiet
    BY <1>9, Zenon DEF Disconnect, server, sub
  <1>10. ASSUME Unsubscribe PROVE Quiet
    BY <1>10, Zenon DEF Unsubscribe, server
  <1>11. Quiet
    BY <1>2, <1>3, <1>4, <1>6, <1>7, <1>8, <1>9, <1>10, Zenon DEF RoundTrip
  <1>12. ASSUME worker.pc # "none"
         PROVE  connection_' # d /\ SameLine(conns[d], conns'[d])
    <2>1. d \in 1..Len(conns) /\ d # connection_
      BY <1>1, <1>12
    <2>2. SameLine(conns[d], conns'[d])
      BY <1>1, <1>11, <2>1, OthersKept, Zenon
    <2>3. connection_' # d
      BY <1>1, <1>11, <2>1
    <2> QED BY <2>2, <2>3
  <1> QED BY <1>11, <1>12, StreamKept

(* A new subscription starts with an empty stream, on a line of its own. *)
LEMMA SubscribeStream ==
    ASSUME TypeOK, StreamInv, Subscribe
    PROVE  StreamInv'
  <1> DEFINE c == Len(conns) + 1
             up == Encoded(Request(next_request_id_, "subscribe"))
             r == [NewConnection EXCEPT !.up = up]
  <1>1. /\ subscription_' = c /\ worker' = [Idle EXCEPT !.pc = "loop", !.conn = c]
        /\ conns' = Append(conns, r) /\ UNCHANGED connection_
    BY DEF Subscribe
  <1>2. conns \in Seq(Connection) /\ connection_ \in 0..Len(conns) /\ next_request_id_ \in Nat
    BY DEF TypeOK, CallerType
  <1>3. r.up = up /\ r.down = <<>> /\ r.subscribed = FALSE
    BY DEF NewConnection
  <1>4. Subscribing(up)
    BY <1>2, Zenon DEF Subscribing
  <1> HIDE DEF r, up
  <1>5. conns'[c] = r /\ c # 0 /\ c # connection_
    BY <1>1, <1>2
  <1>6. /\ worker'.pc = "loop" /\ worker'.conn = c /\ worker'.reader = <<>> /\ worker'.seen = <<>>
    BY <1>1 DEF Idle
  <1> HIDE DEF c
  <1>7. Unread(conns', worker') = <<>>
    BY <1>3, <1>5, <1>6 DEF Unread
  <1>8. Stream(conns'[worker'.conn], Unread(conns', worker'), worker'.seen, events')
    BY <1>3, <1>4, <1>5, <1>6, <1>7, Zenon DEF Stream
  <1>9. Consecutive(worker'.seen)
    <2>1. 1..Len(<<>>) - 1 = {}
      OBVIOUS
    <2> QED BY <1>6, <2>1, Zenon DEF Consecutive
  <1>10. connection_' # c /\ subscription_' # 0
    BY <1>1, <1>5
  <1> QED BY <1>1, <1>6, <1>8, <1>9, <1>10 DEF StreamInv

LEMMA JoinStream ==
    ASSUME StreamInv, Join
    PROVE  StreamInv'
  <1>1. worker'.pc = "none" /\ worker'.seen = <<>> /\ subscription_' = 0
    BY DEF Join, Idle
  <1>2. 1..Len(<<>>) - 1 = {}
    OBVIOUS
  <1> QED BY <1>1, <1>2, Zenon DEF StreamInv, Consecutive

(* What is on the thread's connection, when it has one. *)
LEMMA ThreadIs ==
    ASSUME TypeOK, StreamInv, worker.pc # "none"
    PROVE  /\ worker \in Thread /\ worker.reader \in Seq(Cell) /\ worker.seen \in Seq(Nat)
           /\ worker.conn \in 1..Len(conns) /\ worker.conn # connection_
           /\ worker.conn = subscription_
           /\ conns \in Seq(Connection) /\ conns[worker.conn] \in Connection
           /\ conns[worker.conn].down \in Seq(Cell)
           /\ Unread(conns, worker) \in Seq(Cell)
           /\ Stream(conns[worker.conn], Unread(conns, worker), worker.seen, events)
  <1>1. /\ worker \in Thread /\ worker.conn \in 0..Len(conns) /\ worker.conn # 0
        /\ conns \in Seq(Connection) /\ Len(conns) \in Nat
    BY DEF TypeOK, SubscriptionType, Thread
  <1>2. worker.conn \in 1..Len(conns)
    BY <1>1
  <1>3. conns[worker.conn] \in Connection /\ conns[worker.conn].down \in Seq(Cell)
    BY <1>1, <1>2, OneOf
  <1>4. worker.reader \in Seq(Cell) /\ worker.seen \in Seq(Nat)
    BY <1>1 DEF Thread
  <1>5. Unread(conns, worker) \in Seq(Cell)
    BY <1>3, <1>4, ConcatProperties DEF Unread
  <1> QED BY <1>1, <1>2, <1>3, <1>4, <1>5, Zenon DEF StreamInv

(* The thread takes the next frame and hands it on if it is an event. *)
LEMMA NextStream ==
    ASSUME TypeOK, StreamInv, worker.pc = "next", HasFrame(worker.reader, MaxFrame),
           UNCHANGED <<conns, connection_, subscription_, events>>,
           LET payload == FramePayload(worker.reader)
               isEvent == Parses(payload) /\ Parsed(payload).kind = "event"
           IN  worker' = [worker EXCEPT
                   !.reader = AfterFrame(@),
                   !.pc = IF isEvent THEN "callback" ELSE "next",
                   !.seen = IF isEvent THEN Append(@, Parsed(payload).n) ELSE @]
    PROVE  StreamInv'
  <1> DEFINE reader == worker.reader
             down == conns[worker.conn].down
             r == conns[worker.conn]
             s == Unread(conns, worker)
             payload == FramePayload(reader)
             isEvent == Parses(payload) /\ Parsed(payload).kind = "event"
             rest == AfterFrame(reader)
             seen == IF isEvent THEN Append(worker.seen, Parsed(payload).n) ELSE worker.seen
             label == IF isEvent THEN "callback" ELSE "next"
             t == rest \o down
  <1>1. /\ worker \in Thread /\ reader \in Seq(Cell) /\ worker.seen \in Seq(Nat)
        /\ down \in Seq(Cell) /\ s \in Seq(Cell) /\ s = reader \o down
        /\ Stream(r, s, worker.seen, events)
        /\ worker.conn = subscription_ /\ worker.conn # connection_
    BY ThreadIs DEF Unread
  <1>2. /\ reader[1].length \in Nat
        /\ 1 + reader[1].length <= Len(reader) /\ Len(reader) \in Nat
        /\ payload \in Seq(Cell) /\ Len(payload) = reader[1].length
        /\ \A k \in 1..reader[1].length : payload[k] = reader[1 + k]
        /\ rest \in Seq(Cell) /\ Len(rest) = Len(reader) - (1 + reader[1].length)
        /\ \A i \in 1..(Len(reader) - (1 + reader[1].length)) :
               rest[i] = reader[i + 1 + reader[1].length]
    BY <1>1, FrameOf
  <1>3. worker' = [worker EXCEPT !.reader = rest, !.pc = label, !.seen = seen]
    OBVIOUS
  <1> HIDE DEF reader, down, payload, rest, r, s
  <1>4. /\ Len(s) = Len(reader) + Len(down) /\ Len(down) \in Nat
        /\ \A i \in 1..(Len(reader) + Len(down)) :
               s[i] = IF i <= Len(reader) THEN reader[i] ELSE down[i - Len(reader)]
    BY <1>1, ConcatProperties
  <1>5. /\ t \in Seq(Cell) /\ Len(t) = Len(rest) + Len(down) /\ Len(rest) \in Nat
        /\ \A i \in 1..(Len(rest) + Len(down)) :
               t[i] = IF i <= Len(rest) THEN rest[i] ELSE down[i - Len(rest)]
    <2>1. rest \in Seq(Cell) /\ down \in Seq(Cell)
      BY <1>1, <1>2
    <2> QED BY <2>1, ConcatProperties
  <1>6. s # <<>> /\ s[1] = reader[1]
    BY <1>1, <1>2, <1>4, EmptySeq
  <1>7. PICK p \in {0, 1}, k \in Nat, a \in Nat :
            /\ Frames(s, p, k, a)
            /\ worker.seen # <<>> => p = 0 /\ worker.seen[Len(worker.seen)] = a
            /\ r.server => a + k = events
    BY <1>1, <1>6, Zenon DEF Stream
  <1>8. r.subscribed /\ r.up = <<>>
    BY <1>1, <1>6, Zenon DEF Stream
  <1>9. s[1] = Length(1) /\ reader[1].length = 1
    <2>1. /\ Len(s) = 2 * p + 2 * k
          /\ p = 1 => s[1] = Length(1)
          /\ 1 \in 1..k => s[2 * p + 2 * 1 - 1] = Length(1)
      BY <1>7, Zenon DEF Frames
    <2>2. Len(s) # 0
      BY <1>1, <1>6, EmptySeq
    <2>3. p = 0 => 1 \in 1..k /\ 2 * p + 2 * 1 - 1 = 1
      BY <2>1, <2>2
    <2>4. s[1] = Length(1)
      BY <2>1, <2>3
    <2> QED BY <1>6, <2>4 DEF Length
  <1>10. Len(t) = Len(s) - 2 /\ \A i \in 1..(Len(s) - 2) : t[i] = s[i + 2]
    <2>1. /\ Len(rest) = Len(reader) - 2 /\ 2 <= Len(reader) /\ Len(t) = Len(s) - 2
          /\ Len(s) - 2 = Len(rest) + Len(down) /\ Len(reader) \in Nat
      BY <1>2, <1>4, <1>5, <1>9
    <2>2. ASSUME NEW i \in 1..(Len(s) - 2) PROVE t[i] = s[i + 2]
      <3>1. /\ i \in 1..(Len(rest) + Len(down)) /\ i + 2 \in 1..(Len(reader) + Len(down))
            /\ i <= Len(rest) <=> i + 2 <= Len(reader)
            /\ i - Len(rest) = i + 2 - Len(reader)
        BY <1>4, <2>1, SMTT(30)
      <3>2. t[i] = IF i <= Len(rest) THEN rest[i] ELSE down[i - Len(rest)]
        BY <1>5, <3>1, Zenon
      <3>3. s[i + 2] = IF i + 2 <= Len(reader) THEN reader[i + 2] ELSE down[i + 2 - Len(reader)]
        BY <1>4, <3>1, SMTT(30)
      <3>4. i <= Len(rest) => rest[i] = reader[i + 2]
        <4>1. i <= Len(rest) => i \in 1..(Len(reader) - (1 + 1)) /\ i + 1 + 1 = i + 2
          BY <2>1, <3>1
        <4> QED BY <1>2, <1>9, <4>1
      <3> QED BY <3>1, <3>2, <3>3, <3>4, Zenon
    <2> QED BY <2>1, <2>2
  <1>11. /\ p = 1 => /\ Frames(t, 0, k, a)
                     /\ \E m \in Message : m.kind = "reply" /\ s[2] = Text(m, 1)
         /\ p = 0 => /\ k - 1 \in Nat
                     /\ Frames(t, 0, k - 1, a + 1)
                     /\ s[2] = Text(Event(a + 1), 1)
    <2> HIDE DEF t
    <2>1. Frames(s, p, k, a)
      BY <1>7
    <2>2. s \in Seq(Cell) /\ s # <<>>
      BY <1>1, <1>6
    <2> QED BY <1>10, <2>1, <2>2, OneTaken
  <1>12. Len(payload) = 1 /\ payload[1] = s[2]
    <2>1. Len(payload) = 1 /\ payload[1] = reader[1 + 1] /\ 1 + 1 = 2
      BY <1>2, <1>9
    <2>2. s[2] = reader[2]
      BY <1>2, <1>4, <1>9
    <2> QED BY <2>1, <2>2
  <1>13. ASSUME NEW m \in Message, s[2] = Text(m, 1)
         PROVE  Parses(payload) /\ Parsed(payload) = m
    BY <1>2, <1>12, <1>13, ShortPayload
  <1>14. /\ worker'.reader = rest /\ worker'.pc = label /\ worker'.seen = seen
         /\ worker'.conn = worker.conn
    <2> HIDE DEF seen, label
    <2> QED BY <1>1, <1>3 DEF Thread
  <1>15. Unread(conns', worker') = t
    BY <1>14 DEF Unread, down
  <1> HIDE DEF t
  <1>16. CASE p = 1
    <2>1. PICK m \in Message : m.kind = "reply" /\ s[2] = Text(m, 1)
      BY <1>11, <1>16
    <2>2. ~isEvent
      BY <1>13, <2>1
    <2>3. worker'.seen = worker.seen /\ worker'.pc = "next" /\ worker.seen = <<>>
      BY <1>7, <1>14, <1>16, <2>2
    <2>4. Stream(r, t, worker'.seen, events)
      BY <1>7, <1>8, <1>11, <1>16, <2>3, Zenon DEF Stream
    <2> HIDE DEF isEvent
    <2>5. Consecutive(worker'.seen)
      BY <2>3, Zenon DEF StreamInv
    <2>6. Stream(conns'[worker'.conn], Unread(conns', worker'), worker'.seen, events')
      BY <1>14, <1>15, <2>4 DEF r
    <2> QED BY <1>1, <1>14, <2>3, <2>5, <2>6 DEF StreamInv
  <1>17. CASE p = 0
    <2>1. Event(a + 1) \in Message /\ Event(a + 1).kind = "event" /\ Event(a + 1).n = a + 1
      BY MessageType DEF Event
    <2>2. isEvent /\ Parsed(payload).n = a + 1
      BY <1>11, <1>13, <1>17, <2>1
    <2>3. worker'.seen = Append(worker.seen, a + 1) /\ worker'.pc = "callback"
      BY <1>14, <2>2
    <2> HIDE DEF isEvent, seen, label
    <2>4. /\ worker'.seen \in Seq(Nat) /\ Len(worker'.seen) = Len(worker.seen) + 1
          /\ Len(worker.seen) \in Nat
          /\ \A i \in 1..Len(worker.seen) : worker'.seen[i] = worker.seen[i]
          /\ worker'.seen[Len(worker.seen) + 1] = a + 1
      BY <1>1, <2>3, AppendProperties
    <2>5. worker'.seen # <<>> /\ worker'.seen[Len(worker'.seen)] = a + 1
      BY <2>4, EmptySeq
    <2>6. Consecutive(worker'.seen)
      <3>1. ASSUME NEW i \in 1..Len(worker'.seen) - 1
            PROVE  worker'.seen[i + 1] = worker'.seen[i] + 1
        <4>1. CASE i + 1 \in 1..Len(worker.seen)
          <5>1. i \in 1..Len(worker.seen) - 1 /\ i \in 1..Len(worker.seen)
            BY <2>4, <4>1
          <5>2. worker.seen[i + 1] = worker.seen[i] + 1
            BY <5>1, Zenon DEF StreamInv, Consecutive
          <5> QED BY <2>4, <4>1, <5>1, <5>2
        <4>2. CASE i = Len(worker.seen)
          <5>1. worker.seen # <<>> /\ i \in 1..Len(worker.seen)
            BY <2>4, <4>2, EmptySeq
          <5>2. worker.seen[i] = a
            BY <1>7, <4>2, <5>1
          <5> QED BY <2>4, <4>2, <5>1, <5>2
        <4> QED BY <2>4, <4>1, <4>2, SMTT(30)
      <3> QED BY <3>1, Zenon DEF Consecutive
    <2>7. Stream(r, t, worker'.seen, events)
      <3>1. a + 1 \in Nat /\ k - 1 \in Nat /\ (r.server => (a + 1) + (k - 1) = events)
        BY <1>7, <1>11, <1>17
      <3>2. Frames(t, 0, k - 1, a + 1)
        BY <1>11, <1>17
      <3>3. \E x \in {0, 1}, y \in Nat, z \in Nat :
                /\ Frames(t, x, y, z)
                /\ worker'.seen # <<>> => x = 0 /\ worker'.seen[Len(worker'.seen)] = z
                /\ r.server => z + y = events
        BY <2>5, <3>1, <3>2, Zenon
      <3> QED BY <1>8, <3>3, Zenon DEF Stream
    <2>8. Stream(conns'[worker'.conn], Unread(conns', worker'), worker'.seen, events')
      BY <1>14, <1>15, <2>7 DEF r
    <2> QED BY <1>1, <1>14, <2>3, <2>6, <2>8 DEF StreamInv
  <1> QED BY <1>16, <1>17

LEMMA WorkerStream ==
    ASSUME TypeOK, StreamInv, Worker
    PROVE  StreamInv'
  <1>1. worker.pc # "none" /\ UNCHANGED <<connection_, subscription_, events>>
    BY DEF Worker, WorkerLoop, WorkerReads, WorkerNext, CallbackReturns, server, caller
  <1>2. /\ worker \in Thread /\ worker.reader \in Seq(Cell) /\ worker.seen \in Seq(Nat)
        /\ worker.conn \in 1..Len(conns) /\ worker.conn # connection_ /\ worker.conn = subscription_
        /\ conns \in Seq(Connection) /\ conns[worker.conn] \in Connection
        /\ conns[worker.conn].down \in Seq(Cell)
        /\ Stream(conns[worker.conn], Unread(conns, worker), worker.seen, events)
    BY <1>1, ThreadIs
  <1>3. ASSUME conns' = conns, NEW l \in {"loop", "read", "next", "callback", "ended"},
               worker' = [worker EXCEPT !.pc = l]
        PROVE  StreamInv'
    <2>1. /\ worker'.pc # "none" /\ worker'.conn = worker.conn /\ worker'.reader = worker.reader
          /\ worker'.seen = worker.seen
      BY <1>2, <1>3 DEF Thread
    <2>2. Unread(conns', worker') = Unread(conns, worker)
      BY <1>3, <2>1 DEF Unread
    <2>3. Stream(conns'[worker'.conn], Unread(conns', worker'), worker'.seen, events')
      BY <1>1, <1>2, <1>3, <2>1, <2>2
    <2> QED BY <1>1, <1>2, <2>1, <2>3, Zenon DEF StreamInv
  <1>4. ASSUME NEW n \in 1..Len(conns[worker.conn].down),
               worker' = [worker EXCEPT !.pc = "next",
                              !.reader = @ \o SubSeq(conns[worker.conn].down, 1, n)],
               conns' = [conns EXCEPT ![worker.conn].down = SubSeq(@, n + 1, Len(@))]
        PROVE  StreamInv'
    <2> DEFINE c == worker.conn
               s == conns[c].down
               reader == worker.reader \o SubSeq(s, 1, n)
               rest == SubSeq(s, n + 1, Len(s))
               r == [conns[c] EXCEPT !.down = rest]
    <2>1. worker' = [worker EXCEPT !.pc = "next", !.reader = reader] /\ conns' = [conns EXCEPT ![c] = r]
      BY <1>4
    <2>2. rest \in Seq(Cell)
      BY <1>2, Cut
    <2>3. reader \o rest = worker.reader \o s
      BY <1>2, Moved
    <2> HIDE DEF reader, rest
    <2>4. /\ r \in Connection /\ r.down = rest /\ r.up = conns[c].up
          /\ r.subscribed = conns[c].subscribed /\ r.server = conns[c].server
      BY <1>2, <2>2 DEF Connection
    <2> HIDE DEF r
    <2>5. conns'[c] = r
      BY <1>2, <2>1, <2>4, Changed
    <2>6. /\ worker'.pc # "none" /\ worker'.conn = c /\ worker'.reader = reader
          /\ worker'.seen = worker.seen
      BY <1>2, <2>1 DEF Thread
    <2>7. Unread(conns', worker') = Unread(conns, worker)
      BY <2>3, <2>4, <2>5, <2>6 DEF Unread
    <2>8. Stream(r, Unread(conns, worker), worker.seen, events)
      BY <1>2, <2>4, Zenon DEF Stream
    <2>9. Stream(conns'[worker'.conn], Unread(conns', worker'), worker'.seen, events')
      BY <1>1, <2>5, <2>6, <2>7, <2>8
    <2> HIDE DEF c
    <2> QED BY <1>1, <1>2, <2>6, <2>9, Zenon DEF StreamInv, c
  <1>5. CASE WorkerLoop
    <2>1. \/ worker' = [worker EXCEPT !.pc = "read"]
          \/ worker' = [worker EXCEPT !.pc = "ended"]
      BY <1>5, ZenonT(60) DEF WorkerLoop
    <2> QED BY <1>3, <1>5, <2>1 DEF WorkerLoop
  <1>6. CASE WorkerReads
    <2>1. CASE conns' = conns /\ \/ worker' = [worker EXCEPT !.pc = "loop"]
                                 \/ worker' = [worker EXCEPT !.pc = "ended"]
      BY <1>3, <2>1
    <2> QED BY <1>4, <1>6, <2>1, Zenon DEF WorkerReads
  <1>7. CASE WorkerNext
    <2>1. CASE worker' = [worker EXCEPT !.pc = "loop"]
      BY <1>3, <1>7, <2>1 DEF WorkerNext
    <2>2. CASE worker' # [worker EXCEPT !.pc = "loop"]
      BY <1>1, <1>7, <2>2, NextStream, Zenon DEF WorkerNext
    <2> QED BY <2>1, <2>2
  <1>8. CASE CallbackReturns
    BY <1>3, <1>8 DEF CallbackReturns
  <1> QED BY <1>5, <1>6, <1>7, <1>8, SMTT(30) DEF Worker

(* The daemon answers the one request on the thread's connection, which subscribes it. *)
LEMMA ServeStream ==
    ASSUME TypeOK, StreamInv, NEW c \in DOMAIN conns, Serve(c)
    PROVE  StreamInv'
  <1> DEFINE request == Parsed(FramePayload(conns[c].up))
             Subscribes(a, b) ==
                 conns' = [conns EXCEPT ![c].up = a, ![c].subscribed = TRUE, ![c].down = @ \o b]
  <1>1. UNCHANGED <<worker, subscription_, events, connection_>>
    BY DEF Serve, server, caller, sub
  <1>2. /\ HasFrame(conns[c].up, MaxFrame)
        /\ \/ /\ request.method = "subscribe"
              /\ Subscribes(AfterFrame(conns[c].up),
                            Encoded(Reply(request.id, TRUE, <<c, request.id>>)))
           \/ request.method # "subscribe" /\ \E r : conns' = [conns EXCEPT ![c] = r]
    <2>1. /\ HasFrame(conns[c].up, MaxFrame)
          /\ \/ /\ request.method = "subscribe"
                /\ Subscribes(AfterFrame(conns[c].up),
                              Encoded(Reply(request.id, TRUE, <<c, request.id>>)))
             \/ /\ request.method # "subscribe"
                /\ \/ \E ok \in BOOLEAN : Answers(c, Reply(request.id, ok, <<c, request.id>>))
                   \/ conns' = [conns EXCEPT ![c].up = <<>>, ![c].server = FALSE]
      BY Zenon DEF Serve
    <2>2. \E r : conns' = [conns EXCEPT ![c] = r]
      BY ServeIs
    <2> HIDE DEF request
    <2> QED BY <2>1, <2>2, Zenon
  <1>3. conns \in Seq(Connection) /\ c \in 1..Len(conns)
    BY DEF TypeOK
  <1>4. ASSUME worker.pc # "none", c # worker.conn PROVE StreamInv'
    <2>1. worker.conn \in 1..Len(conns) /\ worker.conn # connection_
      BY <1>4, ThreadIs
    <2>2. \E r : conns' = [conns EXCEPT ![c] = r]
      BY <1>2 DEF Subscribes
    <2>3. SameLine(conns[worker.conn], conns'[worker.conn])
      BY <1>3, <1>4, <2>1, <2>2, OthersKept, Zenon
    <2> QED BY <1>1, <2>1, <2>3, StreamKept
  <1>5. ASSUME worker.pc # "none", c = worker.conn PROVE StreamInv'
    <2> DEFINE up == conns[c].up
               s == Unread(conns, worker)
    <2>1. /\ Stream(conns[c], s, worker.seen, events) /\ worker.conn # connection_
          /\ worker.conn = subscription_ /\ worker.reader \in Seq(Cell)
          /\ conns[c].down \in Seq(Cell) /\ conns[c] \in Connection
      BY <1>5, ThreadIs
    <2>2. up # <<>>
      BY <1>2 DEF HasFrame
    <2>3. s = <<>> /\ worker.seen = <<>> /\ Subscribing(up)
      BY <2>1, <2>2, Zenon DEF Stream
    <2>4. PICK id \in Nat : up = Encoded(Request(id, "subscribe"))
      BY <2>2, <2>3, Zenon DEF Subscribing
    <2>5. Request(id, "subscribe") \in Message /\ Request(id, "subscribe").method = "subscribe"
          /\ Request(id, "subscribe").id = id
      BY MessageType DEF Request
    <2>6. request = Request(id, "subscribe") /\ AfterFrame(up) = <<>>
      BY <1>2, <2>4, <2>5, ReadBack
    <2> DEFINE m == Reply(id, TRUE, <<c, id>>)
               e == Encoded(m)
    <2>7. Subscribes(<<>>, e)
      BY <1>2, <2>5, <2>6
    <2>8. m \in Message /\ m.kind = "reply"
      <3>1. c \in Nat
        BY <1>3
      <3> QED BY <3>1, MessageType DEF Reply
    <2> HIDE DEF m
    <2>9. e \in Seq(Cell)
      BY <2>8, ShortIs
    <2> HIDE DEF e
    <2> DEFINE t == conns[c].down \o e
               r == [conns[c] EXCEPT !.up = <<>>, !.subscribed = TRUE, !.down = t]
    <2>10. conns' = [conns EXCEPT ![c] = r] /\ t \in Seq(Cell)
      BY <1>3, <2>1, <2>7, <2>9, ConcatProperties DEF Connection
    <2> HIDE DEF t
    <2>11. r \in Connection /\ r.up = <<>> /\ r.subscribed /\ r.down = t /\ r.server \in BOOLEAN
      BY <2>1, <2>10, EmptySeq DEF Connection
    <2> HIDE DEF r
    <2>12. conns'[c] = r
      BY <1>3, <2>10, <2>11, Changed
    <2>13. Unread(conns', worker') = s \o e
      <3>1. Unread(conns', worker') = worker.reader \o (conns[c].down \o e)
        BY <1>1, <1>5, <2>11, <2>12 DEF Unread, t
      <3>2. s = worker.reader \o conns[c].down
        BY <1>5 DEF Unread
      <3> HIDE DEF s
      <3> QED BY <2>1, <2>9, <3>1, <3>2, Grouped
    <2>14. events \in Nat /\ events + 0 = events
      BY DEF TypeOK, DaemonType
    <2> HIDE DEF s
    <2>15. Frames(s \o e, 1, 0, events)
      BY <2>3, <2>8, <2>14, FirstReply DEF e
    <2>16. Stream(r, s \o e, worker.seen, events)
      <3>1. \E p \in {0, 1}, k \in Nat, a \in Nat :
                /\ Frames(s \o e, p, k, a)
                /\ worker.seen # <<>> => p = 0 /\ worker.seen[Len(worker.seen)] = a
                /\ r.server => a + k = events
        <4>1. 1 \in {0, 1} /\ 0 \in Nat
          OBVIOUS
        <4> QED BY <2>3, <2>14, <2>15, <4>1, Zenon
      <3> QED BY <2>11, <3>1, Zenon DEF Stream
    <2>17. Stream(conns'[worker'.conn], Unread(conns', worker'), worker'.seen, events')
      BY <1>1, <1>5, <2>12, <2>13, <2>16
    <2> QED BY <1>1, <1>5, <2>1, <2>17, Zenon DEF StreamInv
  <1>6. CASE worker.pc = "none"
    BY <1>1, <1>6, Zenon DEF StreamInv
  <1> QED BY <1>4, <1>5, <1>6

(* A session that ends, one or all of them, and what the daemon says to what is no request. *)
LEMMA SessionStream ==
    ASSUME TypeOK, StreamInv,
           \/ \E c \in DOMAIN conns : ServeGarbage(c) \/ CloseSession(c)
           \/ DaemonStarts \/ DaemonStops
    PROVE  StreamInv'
  <1>1. UNCHANGED <<worker, subscription_, events, connection_>>
    BY DEF ServeGarbage, CloseSession, DaemonStarts, DaemonStops, server, caller, sub
  <1>2. ASSUME worker.pc # "none"
        PROVE  connection_' # worker.conn /\ SameLine(conns[worker.conn], conns'[worker.conn])
    <2> DEFINE d == worker.conn
    <2>1. /\ d \in 1..Len(conns) /\ d # connection_
          /\ conns \in Seq(Connection) /\ conns[d] \in Connection
          /\ Stream(conns[d], Unread(conns, worker), worker.seen, events)
      BY <1>2, ThreadIs
    <2> HIDE DEF d
    <2>2. DOMAIN conns = 1..Len(conns)
      BY <2>1
    <2>3. SameLine(conns[d], [conns[d] EXCEPT !.server = FALSE, !.up = <<>>])
      BY <2>1 DEF SameLine, Connection
    <2>4. ASSUME NEW c \in DOMAIN conns, ServeGarbage(c) PROVE c # d
      <3>1. HasFrame(conns[c].up, MaxFrame) /\ ~IsRequest(FramePayload(conns[c].up))
        BY <2>4 DEF ServeGarbage
      <3>2. conns[d].up = <<>> \/ \E id \in Nat : conns[d].up = Encoded(Request(id, "subscribe"))
        BY <2>1, Zenon DEF Stream, Subscribing
      <3>3. CASE conns[d].up = <<>>
        BY <3>1, <3>3 DEF HasFrame
      <3>4. ASSUME NEW id \in Nat, conns[d].up = Encoded(Request(id, "subscribe")), c = d
            PROVE  FALSE
        <4>1. Request(id, "subscribe") \in Message /\ Request(id, "subscribe").kind = "request"
          BY MessageType DEF Request
        <4> DEFINE m == Request(id, "subscribe")
        <4> HIDE DEF m
        <4>2. m \in Message /\ m.kind = "request" /\ HasFrame(Encoded(m), MaxFrame)
              /\ ~IsRequest(FramePayload(Encoded(m)))
          BY <3>1, <3>4, <4>1, Zenon DEF m
        <4> QED BY <4>2, ReadBack DEF IsRequest
      <3> QED BY <3>2, <3>3, <3>4
    <2>5. ASSUME NEW c \in DOMAIN conns, ServeGarbage(c) PROVE SameLine(conns[d], conns'[d])
      <3>1. conns' = [conns EXCEPT ![c].up = AfterFrame(@),
                                   ![c].down = @ \o Encoded(Reply(0, FALSE, Nobody))]
        BY <2>5 DEF ServeGarbage, Answers
      <3>2. c # d
        BY <2>4, <2>5
      <3>3. conns'[d] = conns[d]
        BY <2>1, <2>2, <3>1, <3>2
      <3> QED BY <3>3 DEF SameLine
    <2>6. ASSUME NEW c \in DOMAIN conns, CloseSession(c) PROVE SameLine(conns[d], conns'[d])
      <3>1. conns' = [conns EXCEPT ![c].server = FALSE, ![c].up = <<>>]
        BY <2>6 DEF CloseSession
      <3>2. CASE c = d
        <4>1. conns'[d] = [conns[d] EXCEPT !.server = FALSE, !.up = <<>>]
          BY <2>1, <2>2, <3>1, <3>2 DEF Connection
        <4> QED BY <2>3, <4>1
      <3>3. CASE c # d
        <4>1. conns'[d] = conns[d]
          BY <2>1, <2>2, <3>1, <3>3
        <4> QED BY <4>1 DEF SameLine
      <3> QED BY <3>2, <3>3
    <2>7. ASSUME DaemonStarts PROVE SameLine(conns[d], conns'[d])
      <3>1. conns' = conns
        BY <2>7 DEF DaemonStarts
      <3> QED BY <3>1 DEF SameLine
    <2>8. ASSUME DaemonStops PROVE SameLine(conns[d], conns'[d])
      <3>1. conns' = [c \in DOMAIN conns |-> [conns[c] EXCEPT !.server = FALSE, !.up = <<>>]]
        BY <2>8 DEF DaemonStops
      <3>2. conns'[d] = [conns[d] EXCEPT !.server = FALSE, !.up = <<>>]
        BY <2>1, <2>2, <3>1
      <3> QED BY <2>3, <3>2
    <2>9. SameLine(conns[d], conns'[d])
      BY <2>5, <2>6, <2>7, <2>8, Zenon
    <2> QED BY <1>1, <2>1, <2>9 DEF d
  <1> QED BY <1>1, <1>2, StreamKept

(* An event is put behind what is on the line of every subscriber. *)
LEMMA PublishStream ==
    ASSUME TypeOK, StreamInv, Publish
    PROVE  StreamInv'
  <1>1. UNCHANGED <<worker, subscription_, connection_>> /\ events' = events + 1
        /\ conns' = [c \in DOMAIN conns |->
                        IF conns[c].subscribed /\ conns[c].server
                        THEN [conns[c] EXCEPT !.down = @ \o Encoded(Event(events + 1))]
                        ELSE conns[c]]
    BY DEF Publish, caller, sub
  <1>2. CASE worker.pc = "none"
    BY <1>1, <1>2, Zenon DEF StreamInv
  <1>3. CASE worker.pc # "none"
    <2> DEFINE d == worker.conn
               s == Unread(conns, worker)
               m == Event(events + 1)
    <2>1. /\ d \in 1..Len(conns) /\ d # connection_ /\ d = subscription_
          /\ conns \in Seq(Connection) /\ conns[d] \in Connection
          /\ worker.reader \in Seq(Cell) /\ conns[d].down \in Seq(Cell) /\ s \in Seq(Cell)
          /\ Stream(conns[d], s, worker.seen, events)
      BY <1>3, ThreadIs
    <2>2. d \in DOMAIN conns /\ events \in Nat
      BY <2>1 DEF TypeOK, DaemonType
    <2>3. m \in Message /\ m.kind # "request"
      BY <2>2, MessageType DEF Event
    <2>4. Encoded(m) \in Seq(Cell)
      BY <2>3, ShortIs
    <2>5. CASE conns[d].subscribed /\ conns[d].server
      <3> DEFINE e == Encoded(m)
                 t == conns[d].down \o e
                 r == [conns[d] EXCEPT !.down = t]
      <3>1. conns'[d] = r
        BY <1>1, <2>2, <2>5
      <3>2. t \in Seq(Cell)
        BY <2>1, <2>4, ConcatProperties
      <3> HIDE DEF t
      <3>3. /\ r.down = t /\ r.up = conns[d].up
            /\ r.subscribed = conns[d].subscribed /\ r.server = conns[d].server
        BY <2>1, <3>2 DEF Connection
      <3> HIDE DEF r
      <3>4. Unread(conns', worker') = s \o e
        <4>1. Unread(conns', worker') = worker.reader \o (conns[d].down \o e)
          BY <1>1, <3>1, <3>3 DEF Unread, t
        <4>2. s = worker.reader \o conns[d].down
          BY DEF Unread
        <4> HIDE DEF s, e, d
        <4>3. e \in Seq(Cell) /\ worker.reader \in Seq(Cell) /\ conns[d].down \in Seq(Cell)
          BY <2>1, <2>4 DEF e
        <4> QED BY <4>1, <4>2, <4>3, Grouped
      <3>5. PICK p \in {0, 1}, k \in Nat, a \in Nat :
                /\ Frames(s, p, k, a)
                /\ worker.seen # <<>> => p = 0 /\ worker.seen[Len(worker.seen)] = a
                /\ conns[d].server => a + k = events
        BY <2>1, <2>5, Zenon DEF Stream
      <3>6. a + k + 1 = events + 1 /\ a + (k + 1) = events + 1 /\ k + 1 \in Nat
        BY <2>2, <2>5, <3>5
      <3> HIDE DEF s
      <3>7. Frames(s \o e, p, k + 1, a)
        <4>1. Frames(s \o Encoded(Event(a + k + 1)), p, k + 1, a)
          BY <2>1, <3>5, EventBehind
        <4> QED BY <3>6, <4>1
      <3> HIDE DEF e
      <3>8. \E x \in {0, 1}, y \in Nat, z \in Nat :
                /\ Frames(s \o e, x, y, z)
                /\ worker.seen # <<>> => x = 0 /\ worker.seen[Len(worker.seen)] = z
                /\ r.server => z + y = events + 1
        BY <3>5, <3>6, <3>7, Zenon
      <3>9. r.subscribed /\ r.up = <<>>
        BY <2>1, <2>5, <3>3, Zenon DEF Stream
      <3>10. Stream(r, s \o e, worker.seen, events + 1)
        BY <3>8, <3>9, Zenon DEF Stream
      <3>11. Stream(conns'[worker'.conn], Unread(conns', worker'), worker'.seen, events')
        BY <1>1, <3>1, <3>4, <3>10
      <3> QED BY <1>1, <1>3, <2>1, <3>11, Zenon DEF StreamInv
    <2>6. CASE ~(conns[d].subscribed /\ conns[d].server)
      <3>1. conns'[d] = conns[d]
        BY <1>1, <2>2, <2>6
      <3>2. Unread(conns', worker') = s
        BY <1>1, <3>1 DEF Unread
      <3>3. Stream(conns[d], s, worker.seen, events + 1)
        BY <2>1, <2>6, Zenon DEF Stream
      <3>4. Stream(conns'[worker'.conn], Unread(conns', worker'), worker'.seen, events')
        BY <1>1, <3>1, <3>2, <3>3
      <3> QED BY <1>1, <1>3, <2>1, <3>4, Zenon DEF StreamInv
    <2> QED BY <2>5, <2>6
  <1> QED BY <1>2, <1>3

LEMMA StepStream ==
    ASSUME TypeOK, StreamInv, Changes \/ UNCHANGED vars
    PROVE  StreamInv'
  <1>1. CASE \E c \in DOMAIN conns : Serve(c)
    BY <1>1, ServeStream
  <1>2. CASE \/ \E c \in DOMAIN conns : ServeGarbage(c) \/ CloseSession(c)
             \/ DaemonStarts \/ DaemonStops
    BY <1>2, SessionStream
  <1>3. CASE Publish
    BY <1>3, PublishStream
  <1>4. CASE Server
    BY <1>1, <1>2, <1>3, <1>4, Zenon DEF Server
  <1>5. CASE Worker
    BY <1>5, WorkerStream
  <1>6. CASE Subscribe
    BY <1>6, SubscribeStream
  <1>7. CASE Join
    BY <1>7, JoinStream
  <1>8. CASE \/ Ask \/ RoundTrip \/ Tick \/ Unsubscribe
             \/ Disconnect /\ UNCHANGED <<server, sub>>
             \/ UNCHANGED vars
    BY <1>8, ClientStream
  <1> QED BY <1>4, <1>5, <1>6, <1>7, <1>8, Zenon DEF Changes, Next, vars, server, sub

LEMMA InitStream ==
    ASSUME Init
    PROVE  StreamInv
  <1>1. worker.pc = "none" /\ worker.seen = <<>> /\ subscription_ = 0
    BY DEF Init, Idle
  <1>2. 1..Len(<<>>) - 1 = {}
    OBVIOUS
  <1> QED BY <1>1, <1>2, Zenon DEF StreamInv, Consecutive
===============================================================================
