--------------------------- MODULE RestoreEngine ---------------------------
(***************************************************************************)
(* SnapshotManager::restore on a desktop that does not stand still.  The   *)
(* engine looks at the windows on screen to plan, looks again to execute,  *)
(* and then drives window handles step by step, while windows open and     *)
(* close, launches fail and launched applications are slow.                *)
(*                                                                         *)
(* The saved windows are 1..N in the order of the snapshot.  A local copy  *)
(* of a list of windows or displays is a variable of its own (seen,        *)
(* monitors), and each iteration of a loop of the code is a step.          *)
(***************************************************************************)
EXTENDS Integers, Sequences, FiniteSets

CONSTANTS
    N,            \* number of windows in the snapshot
    Handle,       \* native handles
    None,
    Standing,     \* the windows on screen at the start, bottom to top
    Likenesses,   \* possible scores of saved and live windows
    Requests,     \* possible RestoreOptions, with the selectors already applied
    Platforms,    \* possible sets of capabilities
    Layouts,      \* possible work areas of the displays
    SavedFrame,   \* restored_frame of each saved window
    SavedZ,       \* z_order of each saved window
    Changed,      \* saved windows that are not in WindowState::Normal
    OnWorkspace,  \* saved windows with a workspace_id
    WithTabs,     \* saved windows with tabs
    Focused,      \* cursor.focused_window_id
    ZeroIsTop,    \* enumerate lists the topmost window first (Windows, macOS)
    MaxChanges    \* bound: windows the user opens or closes

Window == 1..N

Rect == [x : Int, y : Int, width : Int, height : Int]

Abilities == {"launch", "move", "state", "desktops", "z_order", "warp", "focus"}

RestoreOptions ==
    [selected : SUBSET Window, launch_missing_apps : BOOLEAN, restore_tabs : BOOLEAN,
     restore_z_order : BOOLEAN, restore_cursor : BOOLEAN, restore_focus : BOOLEAN,
     restore_workspaces : BOOLEAN, dry_run : BOOLEAN]

Kinds ==
    {"LaunchProcess", "WaitForWindow", "MoveWindow", "SetWindowState", "SetWorkspace",
     "RestoreTabs", "RaiseWindow", "WarpCursor", "FocusWindow"}

RestoreStep == [kind : Kinds, target : Window \cup {None}, skipped : BOOLEAN]

\* The names in errors and warnings are abstracted to the windows they are about; placed
\* are the windows windows_restored has counted.
RestoreReport ==
    [windows_restored : Nat, windows_failed : Nat, apps_launched : Nat,
     placed : SUBSET Window, warnings : SUBSET (Window \cup {None}), errors : SUBSET Window]

ASSUME RestoreAssumption ==
    /\ N \in Nat
    /\ None \notin Window \cup Handle
    /\ Standing \in Seq(Handle)
    /\ \A i, j \in DOMAIN Standing : Standing[i] = Standing[j] => i = j
    /\ Likenesses \subseteq [Window -> [Handle -> Nat]]
    /\ Requests \subseteq RestoreOptions
    /\ Platforms \subseteq SUBSET Abilities
    /\ Layouts \subseteq Seq(Rect)
    /\ SavedFrame \in [Window -> Rect]
    /\ SavedZ \in [Window -> Int]
    /\ Changed \subseteq Window
    /\ OnWorkspace \subseteq Window
    /\ WithTabs \subseteq Window
    /\ Focused \in Window \cup {None}
    /\ ZeroIsTop \in BOOLEAN
    /\ MaxChanges \in Nat

VARIABLES
    desk,      \* live windows, bottom to top
    unborn,    \* handles no window has had yet
    owner,     \* saved window a live one was launched for, or None
    changes,   \* windows the user has opened or closed so far
    likeness,  \* score of a saved and a live window in percent, 0 for another app
    options, can,
    pc,        \* "planning", "ordering", "closing", "matching", "executing", "done"
    next,      \* index of the loop in progress
    seen,      \* live_windows, in the order of enumerate
    used,      \* handles already matched
    unraised,  \* saved windows whose RaiseWindow step is not planned yet
    steps,     \* plan.steps
    monitors,
    handles,   \* handles[window.id]
    pids,      \* saved windows with an entry handles[id + ":pid"]
    frame,     \* frame the engine has given to a live window
    raised,    \* saved windows whose raise succeeded
    report

world == <<desk, unborn, owner, changes>>
request == <<likeness, options, can>>
vars == <<world, request, pc, next, seen, used, unraised, steps, monitors, handles, pids,
          frame, raised, report>>

On(h) == \E i \in DOMAIN desk : desk[i] = h

\* The desktop without its k-th window.
Without(k) == [i \in 1..(Len(desk) - 1) |-> IF i < k THEN desk[i] ELSE desk[i + 1]]

\* WindowProvider::enumerate, or nothing when it fails.
Enumerations ==
    {<<>>, IF ZeroIsTop THEN [i \in DOMAIN desk |-> desk[Len(desk) + 1 - i]] ELSE desk}

------------------------------------------------------------------------------
(* Matching and clamping.                                                    *)

\* The live windows best_live_match may still return: same application, not used.
Candidates(w) ==
    {i \in DOMAIN seen : seen[i] \notin used /\ likeness[w][seen[i]] >= 35}

\* best_live_match: the highest score, and of equal ones the first listed.
BestLiveMatch(w) ==
    {seen[i] : i \in {i \in Candidates(w) : \A j \in Candidates(w) :
        \/ likeness[w][seen[j]] < likeness[w][seen[i]]
        \/ likeness[w][seen[j]] = likeness[w][seen[i]] /\ i <= j}}

Larger(a, b) == IF a < b THEN b ELSE a
Smaller(a, b) == IF a < b THEN a ELSE b

Overlap(r, area) ==
    Larger(0, Smaller(r.x + r.width, area.x + area.width) - Larger(r.x, area.x))
      * Larger(0, Smaller(r.y + r.height, area.y + area.height) - Larger(r.y, area.y))

\* The work area clamp_to_monitors moves a frame into: the largest overlap, and of equal
\* ones, 0 included, the first.
TargetMonitor(r, areas) ==
    {i \in DOMAIN areas : \A j \in DOMAIN areas :
        \/ Overlap(r, areas[j]) < Overlap(r, areas[i])
        \/ Overlap(r, areas[j]) = Overlap(r, areas[i]) /\ i <= j}

\* Coordinate and length of a frame after it was clamped to an area, in one dimension.
ClampLength(length, room) == Smaller(length, room)
\* Mutant: the length is forgotten at the far edge.
MutClampStart(start, length, from, room) == Smaller(Larger(start, from), from + room)

ClampStart(start, length, from, room) == Smaller(Larger(start, from), from + room - length)

ClampInto(r, area) ==
    LET width == ClampLength(r.width, area.width)
        height == ClampLength(r.height, area.height)
    IN  [x |-> ClampStart(r.x, width, area.x, area.width),
         y |-> ClampStart(r.y, height, area.y, area.height),
         width |-> width, height |-> height]

ClampToMonitors(r, areas) ==
    IF areas = <<>> THEN {r} ELSE {ClampInto(r, areas[i]) : i \in TargetMonitor(r, areas)}

------------------------------------------------------------------------------
(* plan_restore.                                                             *)

Step(kind, w, skipped) == [kind |-> kind, target |-> w, skipped |-> skipped]

If(condition, planned) == IF condition THEN <<planned>> ELSE <<>>

\* What is planned for a window that has, or is going to have, a live one.
PlaceSteps(w) ==
    <<Step("MoveWindow", w, "move" \notin can)>>
      \o If(w \in Changed, Step("SetWindowState", w, "state" \notin can))
      \o If(options.restore_workspaces /\ w \in OnWorkspace,
            Step("SetWorkspace", w, "desktops" \notin can))
      \o If(options.restore_tabs /\ w \in WithTabs, Step("RestoreTabs", w, FALSE))

LaunchSteps(w) ==
    <<Step("LaunchProcess", w, "launch" \notin can),
      Step("WaitForWindow", w, "launch" \notin can)>>

Pass == next' = next + 1

\* Mutant: the loop goes on with a window the selectors do not admit.
MutPlanUnselected(w) ==
    /\ w \notin options.selected
    /\ steps' = steps \o PlaceSteps(w)
    /\ UNCHANGED used

PlanUnselected(w) ==
    /\ w \notin options.selected
    /\ UNCHANGED <<used, steps>>

PlanMatched(w) ==
    /\ w \in options.selected
    /\ \E h \in BestLiveMatch(w) :
          /\ used' = used \cup {h}
          /\ steps' = steps \o PlaceSteps(w)

PlanMissing(w) ==
    /\ w \in options.selected
    /\ BestLiveMatch(w) = {}
    /\ steps' = steps \o (IF options.launch_missing_apps
                          THEN LaunchSteps(w) \o PlaceSteps(w)
                          ELSE <<Step("MoveWindow", w, TRUE)>>)
    /\ UNCHANGED used

\* One iteration over saved.windows.
PlanWindow ==
    /\ pc = "planning" /\ next \in Window
    /\ PlanUnselected(next) \/ PlanMatched(next) \/ PlanMissing(next)
    /\ Pass
    /\ UNCHANGED <<world, request, pc, seen, unraised, monitors, handles, pids, frame, raised,
                   report>>

\* The windows to raise, if any.
PlanOrder ==
    /\ pc = "planning" /\ next > N
    /\ pc' = "ordering"
    /\ unraised' = IF options.restore_z_order THEN options.selected ELSE {}
    /\ UNCHANGED <<world, request, next, seen, used, steps, monitors, handles, pids, frame,
                   raised, report>>

\* Mutant: sorted the other way round.
MutPlanRaise ==
    /\ pc = "ordering"
    /\ \E w \in unraised :
          /\ \A v \in unraised : SavedZ[w] >= SavedZ[v]
          /\ steps' = Append(steps, Step("RaiseWindow", w, "z_order" \notin can))
          /\ unraised' = unraised \ {w}
    /\ UNCHANGED <<world, request, pc, next, seen, used, monitors, handles, pids, frame, raised,
                   report>>

\* The loop over the windows sorted by z_order.
PlanRaise ==
    /\ pc = "ordering"
    /\ \E w \in unraised :
          /\ \A v \in unraised : SavedZ[w] <= SavedZ[v]
          /\ steps' = Append(steps, Step("RaiseWindow", w, "z_order" \notin can))
          /\ unraised' = unraised \ {w}
    /\ UNCHANGED <<world, request, pc, next, seen, used, monitors, handles, pids, frame, raised,
                   report>>

\* Cursor and focus; a dry run ends here.
PlanClosing ==
    /\ pc = "ordering" /\ unraised = {}
    /\ steps' = steps
          \o If(options.restore_cursor, Step("WarpCursor", None, "warp" \notin can))
          \o If(options.restore_focus /\ Focused # None,
                Step("FocusWindow", Focused, "focus" \notin can))
    /\ pc' = IF options.dry_run THEN "done" ELSE "closing"
    /\ UNCHANGED <<world, request, next, seen, used, unraised, monitors, handles, pids, frame,
                   raised, report>>

------------------------------------------------------------------------------
(* execute_plan: the second look at the desktop.                             *)

Look ==
    /\ pc = "closing"
    /\ pc' = "matching"
    /\ next' = 1
    /\ used' = {}
    /\ seen' \in Enumerations
    /\ monitors' \in Layouts
    /\ UNCHANGED <<world, request, unraised, steps, handles, pids, frame, raised, report>>

\* Mutant: the matched handle is not marked as used.
MutMatchWindow ==
    /\ pc = "matching" /\ next \in Window
    /\ \/ \E h \in BestLiveMatch(next) : handles' = [handles EXCEPT ![next] = h]
       \/ BestLiveMatch(next) = {} /\ UNCHANGED handles
    /\ Pass
    /\ UNCHANGED <<world, request, pc, seen, used, unraised, steps, monitors, pids, frame,
                   raised, report>>

\* One iteration over snapshot.windows: selected or not.
MatchWindow ==
    /\ pc = "matching" /\ next \in Window
    /\ \/ \E h \in BestLiveMatch(next) :
             /\ handles' = [handles EXCEPT ![next] = h]
             /\ used' = used \cup {h}
       \/ BestLiveMatch(next) = {} /\ UNCHANGED <<handles, used>>
    /\ Pass
    /\ UNCHANGED <<world, request, pc, seen, unraised, steps, monitors, pids, frame, raised,
                   report>>

StartSteps ==
    /\ pc = "matching" /\ next > N
    /\ pc' = "executing"
    /\ next' = 1
    /\ UNCHANGED <<world, request, seen, used, unraised, steps, monitors, handles, pids, frame,
                   raised, report>>

------------------------------------------------------------------------------
(* execute_plan: the steps.                                                  *)

\* The step in progress; every step of the plan is run whatever became of the others.
Current(kind, w) ==
    /\ pc = "executing" /\ next \in DOMAIN steps
    /\ steps[next].kind = kind /\ steps[next].target = w
    /\ ~steps[next].skipped
    /\ Pass
    /\ UNCHANGED <<request, pc, seen, used, unraised, steps, monitors>>

Warn(w) == report' = [report EXCEPT !.warnings = @ \cup {w}]

Fail(w) == report' = [report EXCEPT !.windows_failed = @ + 1, !.errors = @ \cup {w}]

SkipStep ==
    /\ pc = "executing" /\ next \in DOMAIN steps /\ steps[next].skipped
    /\ Warn(steps[next].target)
    /\ Pass
    /\ UNCHANGED <<world, request, pc, seen, used, unraised, steps, monitors, handles, pids,
                   frame, raised>>

\* Mutant: the pid is stored under the key of the window's handle.
MutLaunchProcess(w) ==
    /\ Current("LaunchProcess", w)
    /\ \/ /\ handles' = [handles EXCEPT ![w] = 0]
          /\ report' = [report EXCEPT !.apps_launched = @ + 1]
       \/ Fail(w) /\ UNCHANGED handles
    /\ UNCHANGED <<world, pids, frame, raised>>

LaunchProcess(w) ==
    /\ Current("LaunchProcess", w)
    /\ \/ /\ pids' = pids \cup {w}
          /\ report' = [report EXCEPT !.apps_launched = @ + 1]
       \/ Fail(w) /\ UNCHANGED pids
    /\ UNCHANGED <<world, handles, frame, raised>>

\* The windows wait_for_window may return: those of the launched process, and of any
\* process when the launch has left no pid.
Appeared(w) == {h \in Handle : On(h) /\ (w \in pids => owner[h] = w)}

WaitForWindow(w) ==
    /\ Current("WaitForWindow", w)
    /\ \/ /\ \E h \in Appeared(w) : handles' = [handles EXCEPT ![w] = h]
          /\ UNCHANGED report
       \/ Fail(w) /\ UNCHANGED handles
    /\ UNCHANGED <<world, pids, frame, raised>>

\* Mutant: no word about a window without a live one.
MutMoveWindow(w) ==
    /\ Current("MoveWindow", w)
    /\ \/ handles[w] = None /\ UNCHANGED <<frame, report>>
       \/ /\ handles[w] # None
          /\ \E target \in ClampToMonitors(SavedFrame[w], monitors) :
                frame' = [frame EXCEPT ![handles[w]] = IF On(handles[w]) THEN target ELSE @]
          /\ report' = [report EXCEPT !.windows_restored = @ + 1, !.placed = @ \cup {w}]
       \/ handles[w] # None /\ Fail(w) /\ UNCHANGED frame
    /\ UNCHANGED <<world, handles, pids, raised>>

\* A closed window may be reported as moved (X11) or not (Windows, macOS).
MoveWindow(w) ==
    /\ Current("MoveWindow", w)
    /\ \/ handles[w] = None /\ Warn(w) /\ UNCHANGED frame
       \/ /\ handles[w] # None
          /\ \E target \in ClampToMonitors(SavedFrame[w], monitors) :
                frame' = [frame EXCEPT ![handles[w]] = IF On(handles[w]) THEN target ELSE @]
          /\ report' = [report EXCEPT !.windows_restored = @ + 1, !.placed = @ \cup {w}]
       \/ handles[w] # None /\ Fail(w) /\ UNCHANGED frame
    /\ UNCHANGED <<world, handles, pids, raised>>

\* set_state and move_window to a workspace: nothing without a handle.
AdjustWindow(w) ==
    /\ Current("SetWindowState", w) \/ Current("SetWorkspace", w)
    /\ \/ UNCHANGED report
       \/ handles[w] # None /\ Warn(w)
    /\ UNCHANGED <<world, handles, pids, frame, raised>>

RestoreTabs(w) ==
    /\ Current("RestoreTabs", w)
    /\ UNCHANGED report \/ Warn(w)
    /\ UNCHANGED <<world, handles, pids, frame, raised>>

\* What a window manager does to put a window on top.
OnTop(h) ==
    \/ \E k \in DOMAIN desk : desk[k] = h /\ desk' = Append(Without(k), h)
    \/ ~On(h) /\ UNCHANGED desk

RaiseWindow(w) ==
    /\ Current("RaiseWindow", w)
    /\ \/ handles[w] = None /\ UNCHANGED <<desk, raised, report>>
       \/ handles[w] # None /\ OnTop(handles[w]) /\ raised' = raised \cup {w} /\ UNCHANGED report
       \/ handles[w] # None /\ Warn(w) /\ UNCHANGED <<desk, raised>>
    /\ UNCHANGED <<unborn, owner, changes, handles, pids, frame>>

WarpCursor ==
    /\ Current("WarpCursor", None)
    /\ UNCHANGED report \/ Warn(None)
    /\ UNCHANGED <<world, handles, pids, frame, raised>>

FocusWindow(w) ==
    /\ Current("FocusWindow", w)
    /\ \/ handles[w] = None /\ UNCHANGED <<desk, report>>
       \/ handles[w] # None /\ OnTop(handles[w]) /\ UNCHANGED report
       \/ handles[w] # None /\ Warn(w) /\ UNCHANGED desk
    /\ UNCHANGED <<unborn, owner, changes, handles, pids, frame, raised>>

Finish ==
    /\ pc = "executing" /\ next > Len(steps)
    /\ pc' = "done"
    /\ UNCHANGED <<world, request, next, seen, used, unraised, steps, monitors, handles, pids,
                   frame, raised, report>>

------------------------------------------------------------------------------
(* The desktop.                                                              *)

\* A window comes up, on top, for a saved window whose application was launched or for
\* nobody; a launched application may hand over to a running one.
Comes(h, w) ==
    /\ h \in unborn
    /\ desk' = Append(desk, h)
    /\ unborn' = unborn \ {h}
    /\ owner' = [owner EXCEPT ![h] = w]
    /\ UNCHANGED <<request, pc, next, seen, used, unraised, steps, monitors, handles, pids,
                   frame, raised, report>>

AppOpensWindow(h, w) ==
    /\ w \in pids
    /\ Comes(h, w)
    /\ UNCHANGED changes

UserOpens(h) ==
    /\ changes < MaxChanges
    /\ Comes(h, None)
    /\ changes' = changes + 1

UserCloses(h) ==
    /\ changes < MaxChanges
    /\ \E k \in DOMAIN desk : desk[k] = h /\ desk' = Without(k)
    /\ changes' = changes + 1
    /\ UNCHANGED <<unborn, owner, request, pc, next, seen, used, unraised, steps, monitors,
                   handles, pids, frame, raised, report>>

------------------------------------------------------------------------------

Init ==
    /\ desk = Standing
    /\ unborn = {h \in Handle : \A i \in DOMAIN Standing : Standing[i] # h}
    /\ owner = [h \in Handle |-> None]
    /\ changes = 0
    /\ likeness \in Likenesses
    /\ options \in Requests
    /\ can \in Platforms
    /\ pc = "planning"
    /\ next = 1
    /\ seen \in Enumerations
    /\ used = {}
    /\ unraised = {}
    /\ steps = <<>>
    /\ monitors = <<>>
    /\ handles = [w \in Window |-> None]
    /\ pids = {}
    /\ frame = [h \in Handle |-> None]
    /\ raised = {}
    /\ report = [windows_restored |-> 0, windows_failed |-> 0, apps_launched |-> 0,
                 placed |-> {}, warnings |-> {}, errors |-> {}]

Execute ==
    \/ SkipStep \/ WarpCursor
    \/ \E w \in Window :
          \/ LaunchProcess(w) \/ WaitForWindow(w) \/ MoveWindow(w) \/ AdjustWindow(w)
          \/ RestoreTabs(w) \/ RaiseWindow(w) \/ FocusWindow(w)

Engine ==
    \/ PlanWindow \/ PlanOrder \/ PlanRaise \/ PlanClosing
    \/ Look \/ MatchWindow \/ StartSteps \/ Execute \/ Finish

Desktop ==
    \E h \in Handle : UserOpens(h) \/ UserCloses(h) \/ \E w \in Window : AppOpensWindow(h, w)

Next == Engine \/ Desktop

Spec == Init /\ [][Next]_vars

------------------------------------------------------------------------------
(* What the variables hold.                                                  *)

RequestType ==
    /\ likeness \in [Window -> [Handle -> Nat]]
    /\ options \in RestoreOptions
    /\ can \subseteq Abilities

DeskType ==
    /\ desk \in Seq(Handle)
    /\ unborn \subseteq Handle
    /\ owner \in [Handle -> Window \cup {None}]
    /\ changes \in 0..MaxChanges

PlanType ==
    /\ pc \in {"planning", "ordering", "closing", "matching", "executing", "done"}
    /\ next \in Nat \ {0}
    /\ seen \in Seq(Handle)
    /\ used \subseteq Handle
    /\ unraised \subseteq Window
    /\ steps \in Seq(RestoreStep)

ExecutionType ==
    /\ monitors \in Seq(Rect)
    /\ handles \in [Window -> Handle \cup {None}]
    /\ pids \subseteq Window
    /\ frame \in [Handle -> Rect \cup {None}]
    /\ raised \subseteq Window
    /\ report \in RestoreReport

\* Every variable keeps its type through planning, matching, execution and the changes of
\* the desktop.
TypeOK == RequestType /\ DeskType /\ PlanType /\ ExecutionType

------------------------------------------------------------------------------
(* What a restore promises.                                                  *)

\* The window of w was waited for without a pid, after a launch that failed.
Guessed(w) ==
    /\ w \notin pids
    /\ \E i \in DOMAIN steps : i < next /\ steps[i] = Step("WaitForWindow", w, FALSE)

\* Two saved windows never drive the same live one, over both ways of getting a handle,
\* matching and waiting for a launched process; the exception is the wait after a failed
\* launch, which has no pid to go by and takes any window.
OneToOne ==
    pc = "executing" =>
        \A v, w \in Window :
            v # w /\ handles[v] = handles[w] /\ handles[v] # None =>
                Guessed(v) \/ Guessed(w)

\* A live window that stands for a saved window outside the selection is left where it
\* is, unless it was taken after a failed launch.
UnselectedStay ==
    pc = "executing" =>
        \A v \in Window \ options.selected :
            handles[v] # None /\ frame[handles[v]] # None =>
                \E w \in options.selected : handles[w] = handles[v] /\ Guessed(w)

\* Honest reporting: a selected window is placed, or the report has an error or a warning
\* about it, whatever failed, closed or came too late.
NothingForgotten ==
    pc = "done" /\ ~options.dry_run =>
        options.selected \subseteq report.placed \cup report.warnings \cup report.errors

\* a lies inside b.
Inside(a, b) ==
    /\ b.x <= a.x /\ a.x + a.width <= b.x + b.width
    /\ b.y <= a.y /\ a.y + a.height <= b.y + b.height

\* Every window the engine has placed lies in the work area of a display of this restore,
\* whatever displays the snapshot was taken with.
PlacedOnScreen ==
    monitors # <<>> =>
        \A h \in Handle :
            frame[h] # None => \E i \in DOMAIN monitors : Inside(frame[h], monitors[i])

Below(g, h) == \E i, j \in DOMAIN desk : i < j /\ desk[i] = g /\ desk[j] = h

\* a was under b when the snapshot was taken.
WasBelow(a, b) == IF ZeroIsTop THEN SavedZ[a] > SavedZ[b] ELSE SavedZ[a] < SavedZ[b]

\* Windows with live windows of their own that were raised are in the order of the
\* snapshot; the focused window comes to the top later on.
InOrder ==
    \A a, b \in raised \ (IF options.restore_focus THEN {Focused} ELSE {}) :
        WasBelow(a, b) /\ On(handles[a]) /\ On(handles[b])
            /\ (\A w \in Window \ {a} : handles[w] # handles[a])
            /\ (\A w \in Window \ {b} : handles[w] # handles[b])
        => Below(handles[a], handles[b])

\* A restore ends with what it has raised in the order of the snapshot, whatever opens and
\* closes meanwhile and whichever raises fail.
StackingRestored == pc = "done" => InOrder

------------------------------------------------------------------------------
(* What makes these inductive.                                               *)

\* A handle that is on screen, listed or driven has a window already, so a window that
\* comes up later never changes whom it belongs to.
BornInv ==
    /\ \A i \in DOMAIN desk : desk[i] \notin unborn
    /\ pc = "matching" => \A i \in DOMAIN seen : seen[i] \notin unborn
    /\ \A w \in Window : handles[w] # None => handles[w] \notin unborn

\* Before the steps nothing is launched or placed, and before the second look nothing is
\* matched.
UntouchedInv ==
    /\ pc \in {"planning", "ordering", "closing", "matching"} =>
          pids = {} /\ \A h \in Handle : owner[h] = None /\ frame[h] = None
    /\ pc \in {"planning", "ordering", "closing"} => \A w \in Window : handles[w] = None

\* The second look assigns one to one.
MatchInv ==
    pc = "matching" =>
        /\ \A w \in Window : handles[w] # None => handles[w] \in used /\ w < next
        /\ \A v, w \in Window : v # w /\ handles[v] = handles[w] => handles[v] = None

\* A handle that was not guessed is that of a matched window or of the launched process.
DriveInv ==
    pc = "executing" =>
        \A w \in Window :
            handles[w] # None /\ ~Guessed(w) => owner[handles[w]] \in {None, w}

\* The plan launches, awaits and moves selected windows only; it launches each at most
\* once, and waits right after the launch.
PlanInv ==
    /\ \A i \in DOMAIN steps :
          steps[i].kind \in {"LaunchProcess", "WaitForWindow", "MoveWindow"} =>
              steps[i].target \in options.selected
    /\ \A i \in DOMAIN steps : steps[i].kind = "WaitForWindow" /\ ~steps[i].skipped =>
          i > 1 /\ steps[i - 1] = Step("LaunchProcess", steps[i].target, FALSE)
    /\ \A i, j \in DOMAIN steps :
          steps[i].kind = "LaunchProcess" /\ steps[j].kind = "LaunchProcess"
              /\ steps[i].target = steps[j].target => i = j
    /\ pc = "planning" =>
          \A i \in DOMAIN steps : steps[i].kind = "LaunchProcess" => steps[i].target < next

\* A window is on screen once.
DistinctInv == \A i, j \in DOMAIN desk : desk[i] = desk[j] => i = j

\* Windows are raised in the order of z_order and after every wait for a window; nothing
\* but the focused window is put on top besides.
OrderInv ==
    /\ \A i \in DOMAIN steps : steps[i].kind = "FocusWindow" =>
          pc # "planning" /\ steps[i].target = Focused /\ options.restore_focus
    /\ \A i \in DOMAIN steps : steps[i].kind = "RaiseWindow" =>
          /\ pc # "planning" /\ steps[i].target \in Window
          /\ pc = "ordering" => \A v \in unraised : SavedZ[steps[i].target] <= SavedZ[v]
          /\ \A j \in DOMAIN steps : steps[j].kind = "WaitForWindow" => j < i
          /\ \A j \in DOMAIN steps : steps[j].kind = "RaiseWindow" /\ i < j =>
                SavedZ[steps[i].target] <= SavedZ[steps[j].target]

\* What is raised was raised by a step that has been run.
RaisedInv ==
    /\ pc \in {"planning", "ordering", "closing", "matching"} => raised = {}
    /\ pc = "executing" =>
          \A w \in raised : \E i \in DOMAIN steps :
              i < next /\ steps[i].kind = "RaiseWindow" /\ steps[i].target = w

Accounted == report.placed \cup report.warnings \cup report.errors

\* Every selected window has a MoveWindow step, and one that was run has left its trace.
CoverInv ==
    /\ \A w \in options.selected : pc # "planning" \/ w < next =>
          \E i \in DOMAIN steps : steps[i].kind = "MoveWindow" /\ steps[i].target = w
    /\ pc = "executing" =>
          \A i \in DOMAIN steps :
              i < next /\ steps[i].kind = "MoveWindow" => steps[i].target \in Accounted

------------------------------------------------------------------------------
(* What the documentation says and the code does not keep.                   *)

\* The plan only has steps for what the selectors admit.
StepsAreFiltered ==
    \A i \in DOMAIN steps : steps[i].target \in options.selected \cup {None}

\* On an unchanged desktop, a window planned without a launch has a live window.
PlanIsExecutable ==
    pc = "executing" /\ changes = 0 /\ seen # <<>> =>
        \A w \in options.selected :
            \/ handles[w] # None
            \/ \E i \in DOMAIN steps : steps[i].target = w /\ steps[i].kind = "LaunchProcess"
            \/ \E i \in DOMAIN steps : steps[i] = Step("MoveWindow", w, TRUE)

\* A window is counted once, as restored or as failed.
CountedOnce ==
    report.windows_restored + report.windows_failed <= Cardinality(options.selected)
=============================================================================
