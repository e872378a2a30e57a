------------------------------ MODULE FrontEnd ------------------------------
(***************************************************************************)
(* The programs that use the RPC client: the command line                  *)
(* (src/cli/main.cpp), a new process with a new Client for every command,  *)
(* and the Qt controller (frontend/qt/snapshot_model.cpp), which keeps one *)
(* Client for as long as it runs.  Neither subscribes to events; a program *)
(* that does, and nothing else, is the third.                              *)
(*                                                                         *)
(* A command is a script of calls.  What a call that failed does to the    *)
(* rest of the script is what tells the commands apart: most stop, diff    *)
(* makes both its calls before it looks at either, bench passes over a     *)
(* failed delete.                                                          *)
(***************************************************************************)
EXTENDS Client

CONSTANTS
    Programs,      \* which front ends are run
    Command,       \* the commands the user may give
    MaxCommands    \* bound on how many

ASSUME FrontAssumption ==
    /\ Programs \subseteq {"cli", "gui", "watcher"}
    /\ Command \subseteq {"save", "show", "import", "large", "health", "restore", "delete", "diff",
                         "bench", "usage"}
    /\ {"capture", "get", "import", "large", "list", "restore", "delete", "health"} \subseteq Method
    /\ MaxCommands \in Nat

VARIABLES
    program,       \* "cli", "gui" or "watcher"
    fpc,           \* where the front end is
    command,       \* the command under way
    script,        \* the calls it has left
    failed,        \* did a call fail that is reported only at the end
    exit,          \* the exit code of the last command; of the GUI, 0 or 1 for its toast
    answers,       \* history: the calls of the command and how they were answered
    commands       \* how many commands have been given

front == <<program, fpc, command, script, failed, exit, answers, commands>>

Stop(m) == [method |-> m, on |-> "stop"]
Note(m) == [method |-> m, on |-> "note"]
Pass(m) == [method |-> m, on |-> "pass"]

\* The calls of the commands.  A list and a show of another kind are like show; "large" is
\* an import of more than a frame holds; delete has two ids and bench two rounds.
Save    == <<Stop("capture")>>
Show    == <<Stop("get")>>
Import  == <<Stop("import")>>
Large   == <<Stop("large")>>
Restore == <<Stop("list"), Stop("restore")>>
Delete  == <<Stop("delete"), Stop("delete")>>
Diff    == <<Note("get"), Note("get")>>
Health  == <<Stop("health")>>
Bench   == <<Stop("capture"), Pass("delete"), Stop("capture"), Pass("delete")>>

\* The operations of the GUI end in a refresh.
CaptureAndRefresh == <<Stop("capture"), Stop("list")>>
DeleteAndRefresh  == <<Stop("delete"), Stop("list")>>

\* "usage" is a missing argument or an unknown command; both are noticed only after the
\* daemon has been reached.
Script(c) ==
    CASE c = "save"    -> Save
      [] c = "show"    -> Show
      [] c = "import"  -> Import
      [] c = "large"   -> Large
      [] c = "health"  -> Health
      [] c = "restore" -> Restore
      [] c = "delete"  -> Delete
      [] c = "diff"    -> Diff
      [] c = "bench"   -> Bench
      [] c = "usage"   -> <<>>
      [] c = "capture and refresh" -> CaptureAndRefresh
      [] c = "delete and refresh"  -> DeleteAndRefresh

Offered ==
    CASE program = "cli" -> Command
      [] program = "gui" -> {"capture and refresh", "delete and refresh"}
      [] program = "watcher" -> {}

\* The codes with which a command whose calls all succeeded may end: a restore with
\* failed steps and a daemon whose database is damaged are errors too.
Verdicts(c) ==
    CASE c \in {"restore", "health"} -> {0, 1}
      [] c = "usage" -> {2}
      [] OTHER -> {0}

-----------------------------------------------------------------------------
\* main or a slot of the controller: connect_or_spawn_daemon unless there is a client that
\* says it is connected.
Begin(c) ==
    /\ fpc = "ready" /\ pc = "idle" /\ commands < MaxCommands
    /\ command' = c
    /\ script' = Script(c)
    /\ failed' = FALSE
    /\ answers' = <<>>
    /\ commands' = commands + 1
    /\ fpc' = IF connection_ = 0 THEN "connect" ELSE "step"
    /\ UNCHANGED <<program, exit, vars>>

Connect ==
    /\ fpc = "connect"
    /\ StartConnect
    /\ fpc' = "connecting"
    /\ UNCHANGED <<program, command, script, failed, exit, answers, commands>>

\* What is left of a process when it ends: ~Client disconnects.
Quit(code) ==
    /\ exit' = code
    /\ fpc' = "ready"
    /\ \/ program = "cli" /\ Disconnect
       \/ program # "cli" /\ UNCHANGED <<conns, connection_, reader_, next_request_id_>>
    /\ UNCHANGED <<program, command, script, failed, answers, commands, server, pc, call, late,
                   attempt, outcome, sub, history>>

Unreachable ==
    /\ fpc = "connecting" /\ pc = "idle" /\ connection_ = 0
    /\ Quit(3)

\* The controller asks for the daemon's version first and does not mind the answer.
Connected ==
    /\ fpc = "connecting" /\ pc = "idle" /\ connection_ # 0
    /\ fpc' = "step"
    /\ script' = IF program = "gui" THEN <<Pass("health")>> \o script ELSE script
    /\ UNCHANGED <<program, command, failed, exit, answers, commands, vars>>

Step ==
    /\ fpc = "step" /\ script # <<>>
    /\ StartCall(Head(script).method) \/ RefuseCall(Head(script).method)
    /\ fpc' = "calling"
    /\ UNCHANGED <<program, command, script, failed, exit, answers, commands>>

\* diff compares whatever it has got.
MutAnswered ==
    /\ fpc = "calling" /\ pc = "idle"
    /\ outcome.ok \/ Head(script).on # "stop"
    /\ answers' = Append(answers, [method |-> Head(script).method, ok |-> outcome.ok])
    /\ script' = Tail(script)
    /\ fpc' = "step"
    /\ UNCHANGED <<program, command, failed, exit, commands, vars>>

Answered ==
    /\ fpc = "calling" /\ pc = "idle"
    /\ outcome.ok \/ Head(script).on # "stop"
    /\ answers' = Append(answers, [method |-> Head(script).method, ok |-> outcome.ok])
    /\ failed' = (failed \/ (~outcome.ok /\ Head(script).on = "note"))
    /\ script' = Tail(script)
    /\ fpc' = "step"
    /\ UNCHANGED <<program, command, exit, commands, vars>>

\* report() and return; "restore --latest" also returns when the list is empty.
GivesUp ==
    /\ fpc = "calling" /\ pc = "idle"
    /\ \/ ~outcome.ok /\ Head(script).on = "stop"
       \/ outcome.ok /\ command = "restore" /\ Head(script).method = "list"
    /\ Quit(IF command = "health" THEN 3 ELSE 1)

Ends ==
    /\ fpc = "step" /\ script = <<>>
    /\ \E code \in IF failed THEN {1} ELSE Verdicts(command) : Quit(code)

Front ==
    \/ \E c \in Offered : Begin(c)
    \/ Connect \/ Unreachable \/ Connected \/ Step \/ Answered \/ GivesUp \/ Ends

Subscriptions ==
    /\ program = "watcher"
    /\ Subscribe \/ Unsubscribe \/ Join
    /\ UNCHANGED front

Machine == (RoundTrip \/ Tick \/ Worker \/ Server) /\ UNCHANGED front

FrontInit ==
    /\ Init
    /\ program \in Programs
    /\ fpc = "ready" /\ command = "none" /\ script = <<>> /\ failed = FALSE
    /\ exit = 0 /\ answers = <<>> /\ commands = 0

FrontNext == Front \/ Subscriptions \/ Machine

allVars == <<front, vars>>

FrontSpec == FrontInit /\ [][FrontNext]_allVars

\* The threads of the client program run and its clock goes on.  Nothing is assumed of the
\* daemon, and nobody has to give a command.
FairFrontSpec ==
    /\ FrontSpec
    /\ WF_allVars(RoundTrip /\ UNCHANGED front) /\ WF_allVars(Tick /\ UNCHANGED front)
    /\ WF_allVars(Worker /\ UNCHANGED front) /\ WF_allVars(Join /\ UNCHANGED front)
    /\ WF_allVars(Connect \/ Unreachable \/ Connected \/ Step \/ Answered \/ GivesUp \/ Ends)

-----------------------------------------------------------------------------
(* Properties.                                                              *)

FrontTypeOK ==
    /\ TypeOK
    /\ program \in Programs
    /\ fpc \in {"ready", "connect", "connecting", "step", "calling"}
    /\ script \in Seq([method : Method, on : {"stop", "note", "pass"}])
    /\ failed \in BOOLEAN /\ exit \in 0..3 /\ commands \in 0..MaxCommands
    /\ answers \in Seq([method : Method, ok : BOOLEAN])

\* Exit code 0 and the GUI's success toasts mean that every call of the command was
\* answered with success, apart from the deletes of bench and the controller's health
\* call, whose errors are passed over.
ExitIsHonest ==
    fpc = "ready" /\ exit = 0 /\ commands > 0 =>
        /\ script = <<>>
        /\ \A i \in DOMAIN answers :
               \/ answers[i].ok
               \/ command = "bench" /\ answers[i].method = "delete"
               \/ program = "gui" /\ answers[i].method = "health"
=============================================================================
