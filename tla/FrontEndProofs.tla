---------------------------- MODULE FrontEndProofs ----------------------------
(***************************************************************************)
(* What is proved of the programs that use the RPC client, for any number  *)
(* of commands, and with it of the client in their hands.                  *)
(***************************************************************************)
EXTENDS FrontEnd, ClientProofs

Entry  == [method : Method, on : {"stop", "note", "pass"}]
Answer == [method : Method, ok : BOOLEAN]

\* A failure that the command does not mind.
Minor(method) == \/ command = "bench" /\ method = "delete"
                 \/ program = "gui" /\ method = "health"

\* No call is made between two steps of a command, one that is under way is the head of
\* the script, and the watcher gives no commands.
Idling ==
    /\ fpc \in {"connect", "step"} => pc = "idle"
    /\ fpc = "calling" => script # <<>>
    /\ program = "watcher" => fpc = "ready"

\* What is passed over later is minor, and what has failed so far was, unless that is noted.
Honest ==
    /\ \A i \in 1..Len(script) : script[i].on = "pass" => Minor(script[i].method)
    /\ fpc # "ready" /\ ~failed =>
           \A i \in 1..Len(answers) : answers[i].ok \/ Minor(answers[i].method)

FrontInv == FrontTypeOK /\ Idling /\ Honest /\ ExitIsHonest

-----------------------------------------------------------------------------
(* The calls of the commands.                                               *)

(* Scripts that are written out. *)
LEMMA Nothing == <<>> \in Seq(Entry) /\ \A i \in 1..Len(<<>>) : FALSE
  BY EmptySeq

LEMMA One ==
    ASSUME NEW x \in Entry
    PROVE  <<x>> \in Seq(Entry) /\ \A i \in 1..Len(<<x>>) : <<x>>[i] = x
  <1>1. Len(<<x>>) = 1 /\ <<x>>[1] = x /\ \A i \in 1..1 : i = 1
    OBVIOUS
  <1> QED BY <1>1

LEMMA Two ==
    ASSUME NEW x \in Entry, NEW y \in Entry
    PROVE  <<x, y>> \in Seq(Entry) /\ \A i \in 1..Len(<<x, y>>) : <<x, y>>[i] \in {x, y}
  <1>1. Len(<<x, y>>) = 2 /\ <<x, y>>[1] = x /\ <<x, y>>[2] = y /\ \A i \in 1..2 : i = 1 \/ i = 2
    OBVIOUS
  <1>2. <<x, y>> \in Seq(Entry)
    OBVIOUS
  <1> QED BY <1>1, <1>2

LEMMA Four ==
    ASSUME NEW x \in Entry, NEW y \in Entry
    PROVE  /\ <<x, y, x, y>> \in Seq(Entry)
           /\ \A i \in 1..Len(<<x, y, x, y>>) : <<x, y, x, y>>[i] \in {x, y}
  <1>1. /\ Len(<<x, y, x, y>>) = 4
        /\ <<x, y, x, y>>[1] = x /\ <<x, y, x, y>>[2] = y
        /\ <<x, y, x, y>>[3] = x /\ <<x, y, x, y>>[4] = y
        /\ \A i \in 1..4 : i = 1 \/ i = 2 \/ i = 3 \/ i = 4
    OBVIOUS
  <1>2. <<x, y, x, y>> \in Seq(Entry)
    OBVIOUS
  <1> QED BY <1>1, <1>2

LEMMA BenchType ==
    /\ Bench \in Seq(Entry)
    /\ \A i \in 1..Len(Bench) : Bench[i].on = "pass" => Bench[i].method = "delete"
  <1>1. "capture" \in Method /\ "delete" \in Method
    BY FrontAssumption
  <1>2. /\ Stop("capture") \in Entry /\ Stop("capture").on = "stop"
        /\ Pass("delete") \in Entry /\ Pass("delete").method = "delete"
    BY <1>1 DEF Stop, Pass, Entry
  <1>3. Bench \in Seq(Entry)
        /\ \A i \in 1..Len(Bench) : Bench[i] \in {Stop("capture"), Pass("delete")}
    BY <1>2, Four DEF Bench
  <1>4. ASSUME NEW i \in 1..Len(Bench), Bench[i].on = "pass" PROVE Bench[i].method = "delete"
    <2>1. Bench[i] = Stop("capture") \/ Bench[i] = Pass("delete")
      BY <1>3, Zenon
    <2>2. Bench[i] # Stop("capture")
      BY <1>2, <1>4
    <2> QED BY <1>2, <2>1, <2>2
  <1> QED BY <1>3, <1>4

(* A script is made of the requests the programs know. *)
LEMMA ScriptType ==
    ASSUME NEW c \in Command \cup {"capture and refresh", "delete and refresh"}
    PROVE  /\ Script(c) \in Seq(Entry)
           /\ \A i \in 1..Len(Script(c)) :
                  Script(c)[i].on = "pass" => c = "bench" /\ Script(c)[i].method = "delete"
  <1> DEFINE OK(s) == /\ s \in Seq(Entry)
                      /\ \A i \in 1..Len(s) : s[i].on = "pass" => c = "bench" /\ s[i].method = "delete"
  <1>1. \A m \in Method : Stop(m) \in Entry /\ Note(m) \in Entry /\ Pass(m) \in Entry
    BY DEF Stop, Note, Pass, Entry
  <1>2. \A m \in Method : Stop(m).on = "stop" /\ Note(m).on = "note"
                          /\ Pass(m).on = "pass" /\ Pass(m).method = m
    BY DEF Stop, Note, Pass
  <1>3. {"capture", "get", "import", "large", "list", "restore", "delete", "health"} \subseteq Method
    BY FrontAssumption
  <1>4. ASSUME NEW m \in Method PROVE OK(<<Stop(m)>>)
    <2>1. Stop(m) \in Entry /\ Stop(m).on = "stop"
      BY <1>1, <1>2
    <2> QED BY <2>1, One
  <1>5. ASSUME NEW m \in Method, NEW n \in Method
        PROVE  OK(<<Stop(m), Stop(n)>>) /\ OK(<<Note(m), Note(n)>>)
    <2>1. /\ Stop(m) \in Entry /\ Stop(m).on = "stop" /\ Stop(n) \in Entry /\ Stop(n).on = "stop"
          /\ Note(m) \in Entry /\ Note(m).on = "note" /\ Note(n) \in Entry /\ Note(n).on = "note"
      BY <1>1, <1>2
    <2> DEFINE s == <<Stop(m), Stop(n)>>
               t == <<Note(m), Note(n)>>
    <2>2. /\ s \in Seq(Entry) /\ \A i \in 1..Len(s) : s[i] \in {Stop(m), Stop(n)}
          /\ t \in Seq(Entry) /\ \A i \in 1..Len(t) : t[i] \in {Note(m), Note(n)}
      BY <2>1, Two
    <2> HIDE DEF s, t, OK
    <2>3. OK(s)
      BY <2>1, <2>2 DEF OK
    <2>4. OK(t)
      BY <2>1, <2>2 DEF OK
    <2> QED BY <2>3, <2>4 DEF s, t
  <1>7. OK(<<>>)
    BY Nothing, Zenon
  <1> HIDE DEF OK
  <1>8. c \in {"save", "show", "import", "large", "health", "restore", "delete", "diff", "bench",
               "usage", "capture and refresh", "delete and refresh"}
    BY FrontAssumption
  <1>9. CASE c \in {"save", "show", "import", "large", "health"}
    <2>1. Script(c) \in {Save, Show, Import, Large, Health}
      BY <1>9 DEF Script
    <2>2. OK(Save) /\ OK(Show) /\ OK(Import) /\ OK(Large) /\ OK(Health)
      BY <1>3, <1>4 DEF Save, Show, Import, Large, Health
    <2>3. OK(Script(c))
      BY <2>1, <2>2
    <2> QED BY <2>3 DEF OK
  <1>10. CASE c \in {"restore", "delete", "diff", "capture and refresh", "delete and refresh"}
    <2>1. Script(c) \in {Restore, Delete, Diff, CaptureAndRefresh, DeleteAndRefresh}
      BY <1>10 DEF Script
    <2>2. OK(Restore) /\ OK(Delete) /\ OK(Diff) /\ OK(CaptureAndRefresh) /\ OK(DeleteAndRefresh)
      BY <1>3, <1>5 DEF Restore, Delete, Diff, CaptureAndRefresh, DeleteAndRefresh
    <2>3. OK(Script(c))
      BY <2>1, <2>2
    <2> QED BY <2>3 DEF OK
  <1>11. CASE c = "bench"
    <2>1. Script(c) = Bench
      BY <1>11 DEF Script
    <2> QED BY <1>11, <2>1, BenchType
  <1>12. CASE c = "usage"
    <2>1. Script(c) = <<>>
      BY <1>12 DEF Script
    <2> QED BY <1>7, <2>1 DEF OK
  <1> QED BY <1>8, <1>9, <1>10, <1>11, <1>12

-----------------------------------------------------------------------------
(* Every step of a program is one of its client, of the daemon, or of neither.              *)
LEMMA StepIs ==
    ASSUME FrontTypeOK, Idling, FrontNext \/ UNCHANGED allVars
    PROVE  Changes \/ UNCHANGED vars
  <1>1. script \in Seq(Entry)
    BY DEF FrontTypeOK, Entry
  <1>2. ASSUME NEW code, Quit(code), pc = "idle" PROVE Changes \/ UNCHANGED vars
    <2>1. UNCHANGED <<server, pc, call, late, attempt, outcome, sub, history>>
      BY <1>2 DEF Quit
    <2>2. CASE Disconnect
      BY <1>2, <2>1, <2>2 DEF Changes
    <2>3. CASE UNCHANGED <<conns, connection_, reader_, next_request_id_>>
      BY <2>1, <2>3 DEF vars, caller
    <2> QED BY <1>2, <2>2, <2>3, Zenon DEF Quit
  <1>3. ASSUME NEW c, Begin(c) PROVE UNCHANGED vars
    BY <1>3 DEF Begin
  <1>4. CASE Connect
    BY <1>4, Zenon DEF Connect, Changes, Next, Ask
  <1>5. CASE Unreachable
    BY <1>2, <1>5, Zenon DEF Unreachable
  <1>6. CASE Connected \/ Answered
    BY <1>6 DEF Connected, Answered
  <1>7. CASE Step
    <2>1. Head(script).method \in Method
      <3>1. Head(script) \in Entry
        BY <1>1, <1>7, HeadTailProperties DEF Step
      <3> QED BY <3>1 DEF Entry
    <2>2. StartCall(Head(script).method) \/ RefuseCall(Head(script).method)
      BY <1>7 DEF Step
    <2> QED BY <2>1, <2>2, Zenon DEF Changes, Next, Ask
  <1>8. CASE GivesUp
    BY <1>2, <1>8, Zenon DEF GivesUp
  <1>9. CASE Ends
    <2>1. pc = "idle"
      BY <1>9 DEF Ends, Idling
    <2>2. \E code \in IF failed THEN {1} ELSE Verdicts(command) : Quit(code)
      BY <1>9 DEF Ends
    <2> QED BY <1>2, <2>1, <2>2
  <1>10. CASE Subscriptions
    BY <1>10, Zenon DEF Subscriptions, Changes, Next
  <1>11. CASE Machine
    BY <1>11, Zenon DEF Machine, Changes, Next
  <1>12. CASE UNCHANGED allVars
    BY <1>12 DEF allVars
  <1> QED BY <1>3, <1>4, <1>5, <1>6, <1>7, <1>8, <1>9, <1>10, <1>11, <1>12, Zenon
          DEF FrontNext, Front

-----------------------------------------------------------------------------
LEMMA FrontInitial == FrontInit => FrontInv
  <1> SUFFICES ASSUME FrontInit PROVE FrontInv
    OBVIOUS
  <1>1. /\ program \in Programs /\ fpc = "ready" /\ script = <<>>
        /\ exit = 0 /\ answers = <<>> /\ commands = 0 /\ pc = "idle"
    BY DEF FrontInit, Init
  <1>2. failed \in BOOLEAN
    BY Zenon DEF FrontInit
  <1>3. TypeOK
    BY InitType DEF FrontInit
  <1>4. script \in Seq(Entry) /\ answers \in Seq(Answer) /\ Len(script) = 0
    BY <1>1, EmptySeq
  <1>5. FrontTypeOK
    <2>1. commands \in 0..MaxCommands /\ exit \in 0..3
      BY <1>1, FrontAssumption
    <2> QED BY <1>1, <1>2, <1>3, <1>4, <2>1 DEF FrontTypeOK, Entry, Answer
  <1>6. Idling /\ ExitIsHonest
    BY <1>1 DEF Idling, ExitIsHonest
  <1>7. Honest
    BY <1>1, Nothing DEF Honest
  <1> QED BY <1>5, <1>6, <1>7 DEF FrontInv

(* The codes with which a command ends. *)
LEMMA VerdictsAre == \A c : Verdicts(c) \subseteq 0..2
  BY DEF Verdicts

LEMMA FrontTypeStep ==
    ASSUME FrontTypeOK, Idling, TypeOK', FrontNext \/ UNCHANGED allVars
    PROVE  FrontTypeOK'
  <1>1. /\ program \in Programs /\ fpc \in {"ready", "connect", "connecting", "step", "calling"}
        /\ script \in Seq(Entry) /\ exit \in 0..3 /\ commands \in 0..MaxCommands
        /\ answers \in Seq(Answer)
    BY DEF FrontTypeOK, Entry, Answer
  <1>2. failed \in BOOLEAN
    BY Zenon DEF FrontTypeOK
  <1> DEFINE Rest == /\ program' = program
                     /\ fpc' \in {"ready", "connect", "connecting", "step", "calling"}
                     /\ script' \in Seq(Entry) /\ exit' \in 0..3 /\ commands' \in 0..MaxCommands
                     /\ answers' \in Seq(Answer)
             Goal == Rest /\ failed' \in BOOLEAN
  <1>3. ASSUME NEW code \in 0..3, Quit(code) PROVE Goal
    <2>1. Rest
      BY <1>1, <1>3 DEF Quit
    <2>2. failed' = failed
      BY <1>3 DEF Quit
    <2> QED BY <1>2, <2>1, <2>2, Zenon
  <1>4. ASSUME NEW c \in Offered, Begin(c) PROVE Goal
    <2>1. c \in Command \cup {"capture and refresh", "delete and refresh"}
      <3>1. program \in {"cli", "gui", "watcher"}
        BY <1>1, FrontAssumption
      <3>2. Offered \in {Command, {"capture and refresh", "delete and refresh"}, {}}
        BY <3>1 DEF Offered
      <3> QED BY <1>4, <3>2
    <2>2. Script(c) \in Seq(Entry)
      BY <2>1, ScriptType
    <2>3. /\ script' = Script(c) /\ answers' = <<>> /\ commands' = commands + 1
          /\ commands < MaxCommands /\ UNCHANGED <<program, exit>>
          /\ fpc' \in {"connect", "step"}
      BY <1>4 DEF Begin
    <2>4. answers' \in Seq(Answer)
      BY <2>3, EmptySeq
    <2>5. failed' = FALSE
      BY <1>4 DEF Begin
    <2>6. Rest
      BY <1>1, <2>2, <2>3, <2>4, FrontAssumption
    <2> QED BY <2>5, <2>6, Zenon
  <1>5. ASSUME Connect \/ Step PROVE Goal
    <2>1. Rest
      BY <1>1, <1>5 DEF Connect, Step
    <2>2. failed' = failed
      BY <1>5 DEF Connect, Step
    <2> QED BY <1>2, <2>1, <2>2, Zenon
  <1>6. ASSUME Connected PROVE Goal
    <2>1. <<Pass("health")>> \o script \in Seq(Entry)
      <3>1. Pass("health") \in Entry
        BY FrontAssumption DEF Pass, Entry
      <3>2. <<Pass("health")>> \in Seq(Entry)
        BY <3>1, One
      <3> QED BY <1>1, <3>2, ConcatProperties
    <2>2. Rest
      BY <1>1, <1>6, <2>1 DEF Connected
    <2>3. failed' = failed
      BY <1>6 DEF Connected
    <2> QED BY <1>2, <2>2, <2>3, Zenon
  <1>7. ASSUME Answered, script # <<>> PROVE Goal
    <2>1. /\ Head(script) \in Entry /\ Tail(script) \in Seq(Entry)
      BY <1>1, <1>7, HeadTailProperties
    <2>2. outcome.ok \in BOOLEAN
      BY DEF FrontTypeOK, TypeOK, CallerType
    <2>3. [method |-> Head(script).method, ok |-> outcome.ok] \in Answer
      <3>1. Head(script).method \in Method
        BY <2>1 DEF Entry
      <3> QED BY <2>2, <3>1 DEF Answer
    <2>4. /\ answers' = Append(answers, [method |-> Head(script).method, ok |-> outcome.ok])
          /\ script' = Tail(script) /\ fpc' = "step" /\ UNCHANGED <<program, exit, commands>>
      BY <1>7 DEF Answered
    <2>5. answers' \in Seq(Answer)
      BY <1>1, <2>3, <2>4, AppendProperties
    <2>6. Rest
      BY <1>1, <2>1, <2>4, <2>5
    <2>7. failed' \in BOOLEAN
      BY <1>7, Zenon DEF Answered
    <2> QED BY <2>6, <2>7, Zenon
  <1>8. ASSUME UNCHANGED front PROVE Goal
    <2>1. Rest
      BY <1>1, <1>8 DEF front
    <2>2. failed' = failed
      BY <1>8 DEF front
    <2> QED BY <1>2, <2>1, <2>2, Zenon
  <1>9. ASSUME Unreachable \/ GivesUp PROVE Goal
    <2>1. Quit(3) \/ Quit(1)
      BY <1>9 DEF Unreachable, GivesUp
    <2>2. 1 \in 0..3 /\ 3 \in 0..3
      OBVIOUS
    <2> QED BY <1>3, <2>1, <2>2
  <1>10. ASSUME Ends PROVE Goal
    <2>1. PICK code \in IF failed THEN {1} ELSE Verdicts(command) : Quit(code)
      BY <1>10 DEF Ends
    <2>2. code \in 0..3
      BY <2>1, VerdictsAre
    <2> QED BY <1>3, <2>1, <2>2
  <1>11. (Subscriptions \/ Machine \/ UNCHANGED allVars) => UNCHANGED front
    BY DEF Subscriptions, Machine, allVars
  <1>12. Answered => script # <<>>
    BY DEF Answered, Idling
  <1>13. Goal
    BY <1>4, <1>5, <1>6, <1>7, <1>8, <1>9, <1>10, <1>11, <1>12, Zenon DEF FrontNext, Front
  <1> QED BY <1>1, <1>13, Zenon DEF FrontTypeOK, Entry, Answer

LEMMA IdlingStep ==
    ASSUME FrontTypeOK, Idling, FrontNext \/ UNCHANGED allVars
    PROVE  Idling'
  <1>1. ASSUME NEW code, Quit(code) PROVE Idling'
    BY <1>1 DEF Quit, Idling
  <1>2. ASSUME NEW c \in Offered, Begin(c) PROVE Idling'
    <2>1. program # "watcher"
      BY <1>2 DEF Offered
    <2>2. pc' = "idle" /\ program' = program /\ fpc' \in {"connect", "step"}
      BY <1>2 DEF Begin, vars, caller
    <2> QED BY <2>1, <2>2 DEF Idling
  <1>3. CASE Connect \/ Step
    <2>1. fpc # "ready" /\ program' = program /\ fpc' \in {"connecting", "calling"}
          /\ (fpc' = "calling" => script' # <<>>)
      BY <1>3 DEF Connect, Step
    <2> QED BY <2>1 DEF Idling
  <1>4. CASE Connected \/ Answered
    <2>1. fpc # "ready" /\ program' = program /\ fpc' = "step" /\ pc = "idle" /\ UNCHANGED vars
      BY <1>4 DEF Connected, Answered
    <2>2. pc' = "idle"
      BY <2>1 DEF vars, caller
    <2> QED BY <2>1, <2>2 DEF Idling
  <1>5. CASE Subscriptions
    <2>1. program = "watcher" /\ UNCHANGED front
      BY <1>5 DEF Subscriptions
    <2> QED BY <2>1 DEF front, Idling
  <1>6. CASE Machine \/ UNCHANGED allVars
    <2>1. UNCHANGED front
      BY <1>6 DEF Machine, allVars
    <2>2. pc = "idle" => pc' = "idle"
      <3>1. CASE RoundTrip \/ Tick
        BY <3>1 DEF RoundTrip, Dial, DialFails, Write, WriteFails, NextFrame, ReadMore,
                    DeadlinePasses, Read, ReadsEnd, Tick
      <3>2. CASE Worker
        <4>1. UNCHANGED caller
          BY <3>2 DEF Worker, WorkerLoop, WorkerReads, WorkerNext, CallbackReturns
        <4> QED BY <4>1, ZenonT(60) DEF caller
      <3>3. CASE Server
        <4>1. UNCHANGED caller
          BY <3>3 DEF Server, Serve, ServeGarbage, CloseSession, Publish, DaemonStarts, DaemonStops
        <4> QED BY <4>1, Zenon DEF caller
      <3>4. CASE UNCHANGED allVars
        BY <3>4 DEF allVars, vars, caller
      <3> QED BY <1>6, <3>1, <3>2, <3>3, <3>4 DEF Machine
    <2> QED BY <2>1, <2>2 DEF front, Idling
  <1>7. Unreachable \/ GivesUp \/ Ends => \E code : Quit(code)
    BY Zenon DEF Unreachable, GivesUp, Ends
  <1> QED BY <1>1, <1>2, <1>3, <1>4, <1>5, <1>6, <1>7, Zenon DEF FrontNext, Front

(* What has been passed over is minor, and a command that ends with 0 has had no other failure. *)
LEMMA HonestStep ==
    ASSUME FrontTypeOK, Idling, Honest, ExitIsHonest, FrontNext \/ UNCHANGED allVars
    PROVE  Honest' /\ ExitIsHonest'
  <1> DEFINE Goal == Honest' /\ ExitIsHonest'
  <1>1. /\ program \in Programs /\ script \in Seq(Entry) /\ answers \in Seq(Answer)
        /\ commands \in 0..MaxCommands
    BY DEF FrontTypeOK, Entry, Answer
  <1>2. failed \in BOOLEAN
    BY Zenon DEF FrontTypeOK
  <1>3. ASSUME NEW code, Quit(code), fpc # "ready", code = 0 => script = <<>> /\ ~failed
        PROVE  Goal
    <2>1. /\ exit' = code /\ fpc' = "ready"
          /\ UNCHANGED <<program, command, script, answers, commands>>
      BY <1>3 DEF Quit
    <2>2. Honest'
      BY <2>1 DEF Honest, Minor
    <2>3. ASSUME code = 0
          PROVE  script = <<>> /\ \A i \in 1..Len(answers) : answers[i].ok \/ Minor(answers[i].method)
      BY <1>3, <2>3, Zenon DEF Honest
    <2>4. DOMAIN answers = 1..Len(answers)
      BY <1>1, LenProperties
    <2>5. ExitIsHonest'
      BY <2>1, <2>3, <2>4 DEF ExitIsHonest, Minor
    <2> QED BY <2>2, <2>5
  <1>4. ASSUME NEW c \in Offered, Begin(c) PROVE Goal
    <2>1. c \in Command \cup {"capture and refresh", "delete and refresh"}
      <3>1. program \in {"cli", "gui", "watcher"}
        BY <1>1, FrontAssumption
      <3>2. Offered \in {Command, {"capture and refresh", "delete and refresh"}, {}}
        BY <3>1 DEF Offered
      <3> QED BY <1>4, <3>2
    <2>2. /\ script' = Script(c) /\ answers' = <<>> /\ command' = c
          /\ fpc' \in {"connect", "step"}
      BY <1>4 DEF Begin
    <2>3. \A i \in 1..Len(script') : script'[i].on = "pass" => c = "bench" /\ script'[i].method = "delete"
      BY <2>1, <2>2, ScriptType
    <2>4. \A i \in 1..Len(answers') : FALSE
      BY <2>2, Nothing
    <2>5. Honest'
      BY <2>2, <2>3, <2>4 DEF Honest, Minor
    <2>6. ExitIsHonest'
      BY <2>2 DEF ExitIsHonest
    <2> QED BY <2>5, <2>6
  <1>5. ASSUME Connect \/ Step PROVE Goal
    <2>1. /\ fpc # "ready" /\ fpc' # "ready"
          /\ UNCHANGED <<program, command, script, failed, answers>>
      BY <1>5 DEF Connect, Step
    <2>2. Honest'
      BY <2>1 DEF Honest, Minor
    <2>3. ExitIsHonest'
      BY <2>1 DEF ExitIsHonest
    <2> QED BY <2>2, <2>3
  <1>6. ASSUME Connected PROVE Goal
    <2>1. /\ fpc # "ready" /\ fpc' # "ready" /\ UNCHANGED <<program, command, failed, answers>>
          /\ script' = IF program = "gui" THEN <<Pass("health")>> \o script ELSE script
      BY <1>6 DEF Connected
    <2>2. ASSUME NEW i \in 1..Len(script'), script'[i].on = "pass" PROVE Minor(script'[i].method)
      <3>1. CASE program = "gui"
        <4>1. Pass("health") \in Entry /\ Pass("health").method = "health"
          BY FrontAssumption DEF Pass, Entry
        <4> DEFINE p == <<Pass("health")>>
        <4>2. p \in Seq(Entry) /\ Len(p) = 1 /\ p[1] = Pass("health")
          BY <4>1, One
        <4> HIDE DEF p
        <4>3. script' = p \o script
          BY <2>1, <3>1 DEF p
        <4>4. /\ Len(script') = Len(script) + 1
              /\ script'[1] = Pass("health")
              /\ \A j \in 2..Len(script') : script'[j] = script[j - 1]
          <5>1. Len(script) \in Nat
            BY <1>1, LenProperties
          <5>2. Len(script') = Len(p) + Len(script)
            BY <1>1, <4>2, <4>3, ConcatProperties
          <5>3. \A j \in 1..Len(p) + Len(script) :
                    script'[j] = IF j <= Len(p) THEN p[j] ELSE script[j - Len(p)]
            BY <1>1, <4>2, <4>3, ConcatProperties
          <5> QED BY <4>2, <5>1, <5>2, <5>3
        <4>5. CASE i = 1
          BY <3>1, <4>1, <4>4, <4>5 DEF Minor
        <4>6. CASE i # 1
          <5>1. Len(script) \in Nat
            BY <1>1, LenProperties
          <5>2. i - 1 \in 1..Len(script) /\ script'[i] = script[i - 1]
            BY <4>4, <4>6, <5>1
          <5> QED BY <2>2, <5>2 DEF Honest
        <4> QED BY <4>5, <4>6
      <3>2. CASE program # "gui"
        BY <2>1, <2>2, <3>2 DEF Honest
      <3> QED BY <3>1, <3>2
    <2>3. Honest'
      BY <2>1, <2>2 DEF Honest, Minor
    <2>4. ExitIsHonest'
      BY <2>1 DEF ExitIsHonest
    <2> QED BY <2>3, <2>4
  <1>7. ASSUME Answered, script # <<>> PROVE Goal
    <2> DEFINE a == [method |-> Head(script).method, ok |-> outcome.ok]
    <2>1. /\ fpc # "ready" /\ fpc' # "ready" /\ UNCHANGED <<program, command>>
          /\ outcome.ok \/ Head(script).on # "stop"
          /\ answers' = Append(answers, a)
          /\ script' = Tail(script)
      BY <1>7 DEF Answered
    <2>2. failed' = (failed \/ (~outcome.ok /\ Head(script).on = "note"))
      BY <1>7 DEF Answered
    <2>3. /\ Len(script) \in Nat \ {0} /\ Head(script) = script[1] /\ Head(script) \in Entry
          /\ Len(script') = Len(script) - 1
          /\ \A j \in 1..Len(script) - 1 : script'[j] = script[j + 1]
      BY <1>1, <1>7, <2>1, HeadTailProperties, LenProperties, EmptySeq
    <2>4. ASSUME NEW i \in 1..Len(script'), script'[i].on = "pass" PROVE Minor(script'[i].method)
      <3>1. i + 1 \in 1..Len(script) /\ script'[i] = script[i + 1]
        BY <2>3
      <3> QED BY <2>4, <3>1 DEF Honest
    <2>5. ASSUME ~failed' PROVE a.ok \/ Minor(a.method)
      <3>1. outcome.ok \/ Head(script).on # "note"
        BY <2>2, <2>5, Zenon
      <3>2. Head(script).on \in {"stop", "note", "pass"}
        BY <2>3 DEF Entry
      <3>3. CASE outcome.ok
        BY <3>3, Zenon
      <3>4. CASE Head(script).on = "pass"
        <4>1. 1 \in 1..Len(script)
          BY <2>3
        <4>2. Minor(Head(script).method)
          BY <2>3, <3>4, <4>1 DEF Honest
        <4> QED BY <4>2, Zenon
      <3> QED BY <2>1, <3>1, <3>2, <3>3, <3>4
    <2>6. ASSUME ~failed'
          PROVE  \A i \in 1..Len(answers') : answers'[i].ok \/ Minor(answers'[i].method)
      <3>1. ~failed
        BY <2>2, <2>6, Zenon
      <3>2. \A i \in 1..Len(answers) : answers[i].ok \/ Minor(answers[i].method)
        BY <2>1, <3>1, Zenon DEF Honest
      <3>3. a.ok \/ Minor(a.method)
        BY <2>5, <2>6, Zenon
      <3> HIDE DEF a
      <3>4. /\ Len(answers) \in Nat /\ Len(answers') = Len(answers) + 1
            /\ answers'[Len(answers) + 1] = a
            /\ \A i \in 1..Len(answers) : answers'[i] = answers[i]
        <4>1. a \in Answer
          <5>1. Head(script).method \in Method
            BY <2>3 DEF Entry
          <5>2. outcome.ok \in BOOLEAN
            BY DEF FrontTypeOK, TypeOK, CallerType
          <5> QED BY <5>1, <5>2 DEF Answer, a
        <4> QED BY <1>1, <2>1, <4>1, AppendProperties, LenProperties
      <3>5. TAKE i \in 1..Len(answers')
      <3>6. CASE i \in 1..Len(answers)
        BY <3>2, <3>4, <3>6
      <3>7. CASE i = Len(answers) + 1
        BY <3>3, <3>4, <3>7
      <3> QED BY <3>4, <3>6, <3>7
    <2> HIDE DEF a
    <2>7. \A m : Minor(m) <=> \/ command' = "bench" /\ m = "delete"
                              \/ program' = "gui" /\ m = "health"
      BY <2>1, Zenon DEF Minor
    <2>8. \A i \in 1..Len(script') : script'[i].on = "pass" =>
              \/ command' = "bench" /\ script'[i].method = "delete"
              \/ program' = "gui" /\ script'[i].method = "health"
      BY <2>4, <2>7, Zenon
    <2>9. ASSUME ~failed'
          PROVE  \A i \in 1..Len(answers') :
                     \/ answers'[i].ok
                     \/ command' = "bench" /\ answers'[i].method = "delete"
                     \/ program' = "gui" /\ answers'[i].method = "health"
      BY <2>6, <2>7, <2>9, Zenon
    <2>10. ExitIsHonest'
      BY <2>1 DEF ExitIsHonest
    <2>11. Honest'
      BY <2>8, <2>9, Zenon DEF Honest, Minor
    <2> QED BY <2>10, <2>11
  <1>8. ASSUME UNCHANGED front PROVE Goal
    <2>1. Honest'
      BY <1>8 DEF front, Honest, Minor
    <2>2. ExitIsHonest'
      BY <1>8 DEF front, ExitIsHonest
    <2> QED BY <2>1, <2>2
  <1>9. ASSUME Unreachable \/ GivesUp PROVE Goal
    <2>1. (Quit(3) \/ Quit(1)) /\ fpc # "ready"
      BY <1>9 DEF Unreachable, GivesUp
    <2>2. 1 # 0 /\ 3 # 0
      OBVIOUS
    <2> QED BY <1>3, <2>1, <2>2
  <1>10. ASSUME Ends PROVE Goal
    <2>1. PICK code \in IF failed THEN {1} ELSE Verdicts(command) : Quit(code)
      BY <1>10 DEF Ends
    <2>2. fpc # "ready" /\ script = <<>>
      BY <1>10 DEF Ends
    <2>3. code = 0 => ~failed
      BY <2>1
    <2> QED BY <1>3, <2>1, <2>2, <2>3
  <1>11. (Subscriptions \/ Machine \/ UNCHANGED allVars) => UNCHANGED front
    BY DEF Subscriptions, Machine, allVars
  <1>12. Answered => script # <<>>
    BY DEF Answered, Idling
  <1> QED BY <1>4, <1>5, <1>6, <1>7, <1>8, <1>9, <1>10, <1>11, <1>12, Zenon DEF FrontNext, Front

-----------------------------------------------------------------------------
(* All of it at once: the invariant of the programs, and that of the client under them.     *)
LEMMA FrontAlways == FrontSpec => [](FrontInv /\ AnswerInv /\ UpInv /\ StreamInv)
  <1>1. FrontInit => FrontInv /\ AnswerInv /\ UpInv /\ StreamInv
    BY FrontInitial, InitUp, InitStream DEF FrontInit
  <1>2. FrontInv /\ AnswerInv /\ UpInv /\ StreamInv /\ [FrontNext]_allVars
        => (FrontInv /\ AnswerInv /\ UpInv /\ StreamInv)'
    <2> SUFFICES ASSUME FrontInv, AnswerInv, UpInv, StreamInv, FrontNext \/ UNCHANGED allVars
                 PROVE  (FrontInv /\ AnswerInv /\ UpInv /\ StreamInv)'
      OBVIOUS
    <2>1. FrontTypeOK /\ Idling /\ Honest /\ ExitIsHonest /\ TypeOK
      BY DEF FrontInv, FrontTypeOK
    <2>2. Changes \/ UNCHANGED vars
      BY <2>1, StepIs
    <2>3. TypeOK' /\ AnswerInv' /\ UpInv' /\ StreamInv'
      BY <2>1, <2>2, StepType, StepOwn, StepUp, StepStream
    <2>4. FrontTypeOK' /\ Idling' /\ Honest' /\ ExitIsHonest'
      BY <2>1, <2>3, FrontTypeStep, IdlingStep, HonestStep
    <2> QED BY <2>3, <2>4 DEF FrontInv
  <1> QED BY <1>1, <1>2, PTL DEF FrontSpec

(***************************************************************************)
(* The state of the client and of the program that uses it stays in its    *)
(* type through every command, connection, lost daemon and subscription.   *)
(***************************************************************************)
THEOREM ClientTypeCorrect == FrontSpec => []FrontTypeOK
  <1>1. FrontInv /\ AnswerInv /\ UpInv /\ StreamInv => FrontTypeOK
    BY DEF FrontInv
  <1> QED BY <1>1, FrontAlways, PTL

(***************************************************************************)
(* round_trip passes over replies with another id, ids are not used twice  *)
(* on a connection and a fresh connection has a fresh reader: so a call    *)
(* that succeeds returns the answer to its own request, however late the   *)
(* replies to earlier calls come.                                          *)
(***************************************************************************)
THEOREM AnswersBelongToCalls == FrontSpec => []AnswersAreOwn
  <1>1. FrontInv /\ AnswerInv /\ UpInv /\ StreamInv => AnswersAreOwn
    BY DEF AnswerInv
  <1> QED BY <1>1, FrontAlways, PTL

(***************************************************************************)
(* serve_client takes frames off the stream by their declared lengths, and *)
(* what follows a frame that was cut off is swallowed by it or refused:    *)
(* the daemon runs only requests that were written whole, each connection's*)
(* in the order of their ids.                                              *)
(***************************************************************************)
THEOREM DaemonRunsWhatWasSent == FrontSpec => []RunsWhatWasSent
  <1>1. FrontInv /\ AnswerInv /\ UpInv /\ StreamInv => RunsWhatWasSent
    BY DEF UpInv
  <1> QED BY <1>1, FrontAlways, PTL

(***************************************************************************)
(* Exit code 0 of the command line and the GUI's success toasts mean that  *)
(* no call of the command failed but those whose failure it passes over.   *)
(***************************************************************************)
THEOREM ExitTellsTheTruth == FrontSpec => []ExitIsHonest
  <1>1. FrontInv /\ AnswerInv /\ UpInv /\ StreamInv => ExitIsHonest
    BY DEF FrontInv
  <1> QED BY <1>1, FrontAlways, PTL

(***************************************************************************)
(* The thread of a subscription puts the cells it receives together again, *)
(* however recv cuts the stream, and takes them off frame by frame: the    *)
(* callback sees the events published since it subscribed, in their order, *)
(* none twice and none left out; and unsubscribe, which joins the thread,  *)
(* leaves no callback behind.                                              *)
(***************************************************************************)
THEOREM SubscribersMissNothing == FrontSpec => []EventsInOrder
  <1>1. FrontInv /\ AnswerInv /\ UpInv /\ StreamInv => EventsInOrder
    BY ZenonT(60) DEF StreamInv, EventsInOrder, Consecutive
  <1> QED BY <1>1, FrontAlways, PTL
===============================================================================
