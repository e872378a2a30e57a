--------------------------- MODULE RestoreProofs ---------------------------
(* Theorems about RestoreEngine, for any snapshot, desktop and displays.    *)
EXTENDS RestoreEngine, SequenceTheorems, TLAPS

------------------------------------------------------------------------------
(* The plan.                                                                 *)

\* An optional step is a sequence of at most that step.
LEMMA IfStep ==
    ASSUME NEW c \in BOOLEAN, NEW s \in RestoreStep
    PROVE  /\ If(c, s) \in Seq(RestoreStep)
           /\ \A i \in DOMAIN If(c, s) : If(c, s)[i] = s
  BY DEF If

\* The elements of a concatenation are those of its parts.
LEMMA Elements ==
    ASSUME NEW s \in Seq(RestoreStep), NEW t \in Seq(RestoreStep)
    PROVE  /\ s \o t \in Seq(RestoreStep)
           /\ DOMAIN (s \o t) = 1..(Len(s) + Len(t))
           /\ \A i \in DOMAIN s : i \in DOMAIN (s \o t) /\ (s \o t)[i] = s[i]
           /\ \A i \in DOMAIN t : i + Len(s) \in DOMAIN (s \o t) /\ (s \o t)[i + Len(s)] = t[i]
           /\ \A i \in DOMAIN (s \o t) :
                 \/ i \in DOMAIN s /\ (s \o t)[i] = s[i]
                 \/ i - Len(s) \in DOMAIN t /\ (s \o t)[i] = t[i - Len(s)]
  OBVIOUS

\* The steps for a window with a live one: the first moves it, none launches, waits, raises
\* or focuses, and all are about that window.
LEMMA PlaceStepsShape ==
    ASSUME RequestType, NEW w \in Window
    PROVE  /\ PlaceSteps(w) \in Seq(RestoreStep)
           /\ 1 \in DOMAIN PlaceSteps(w) /\ PlaceSteps(w)[1].kind = "MoveWindow"
           /\ \A i \in DOMAIN PlaceSteps(w) :
                 /\ PlaceSteps(w)[i].target = w
                 /\ PlaceSteps(w)[i].kind \notin {"LaunchProcess", "WaitForWindow"}
                 /\ PlaceSteps(w)[i].kind \notin {"RaiseWindow", "FocusWindow"}
  <1> DEFINE a == Step("MoveWindow", w, "move" \notin can)
             b == Step("SetWindowState", w, "state" \notin can)
             c == Step("SetWorkspace", w, "desktops" \notin can)
             d == Step("RestoreTabs", w, FALSE)
             Good(s) == s \in RestoreStep /\ s.target = w
                          /\ s.kind \notin {"LaunchProcess", "WaitForWindow"}
                          /\ s.kind \notin {"RaiseWindow", "FocusWindow"}
             AllGood(q) == q \in Seq(RestoreStep) /\ \A i \in DOMAIN q : Good(q[i])
             FB == If(w \in Changed, b)
             FC == If(options.restore_workspaces /\ w \in OnWorkspace, c)
             FD == If(options.restore_tabs /\ w \in WithTabs, d)
  <1>1. Good(a) /\ Good(b) /\ Good(c) /\ Good(d) /\ a.kind = "MoveWindow"
    <2>3. Good(a) /\ a.kind = "MoveWindow"
      BY DEF Step, RestoreStep, Kinds
    <2>4. Good(b)
      BY DEF Step, RestoreStep, Kinds
    <2>5. Good(c)
      BY DEF Step, RestoreStep, Kinds
    <2>6. Good(d)
      BY DEF Step, RestoreStep, Kinds
    <2> QED
      BY <2>3, <2>4, <2>5, <2>6
  <1>2. options.restore_workspaces \in BOOLEAN /\ options.restore_tabs \in BOOLEAN
    BY DEF RequestType, RestoreOptions
  <1>3. AllGood(FB) /\ AllGood(FC) /\ AllGood(FD)
    <2> HIDE DEF a, b, c, d
    <2>1. ASSUME NEW e \in BOOLEAN, NEW s, Good(s) PROVE AllGood(If(e, s))
      BY <2>1, IfStep
    <2>2. /\ (w \in Changed) \in BOOLEAN
          /\ (options.restore_workspaces /\ w \in OnWorkspace) \in BOOLEAN
          /\ (options.restore_tabs /\ w \in WithTabs) \in BOOLEAN
      BY <1>2
    <2> QED
      BY <1>1, <2>1, <2>2
  <1>4. AllGood(<<a>>) /\ 1 \in DOMAIN <<a>> /\ <<a>>[1] = a
    BY <1>1
  <1>5. ASSUME NEW p, NEW q, AllGood(p), AllGood(q), 1 \in DOMAIN p, p[1] = a
        PROVE  AllGood(p \o q) /\ 1 \in DOMAIN (p \o q) /\ (p \o q)[1] = a
    <2>1. p \o q \in Seq(RestoreStep) /\ 1 \in DOMAIN (p \o q) /\ (p \o q)[1] = a
      BY <1>5, Elements
    <2>2. \A i \in DOMAIN (p \o q) : Good((p \o q)[i])
      BY <1>5, Elements
    <2> QED
      BY <2>1, <2>2
  <1> HIDE DEF a, b, c, d, FB, FC, FD, AllGood
  <1>6. AllGood(<<a>> \o FB) /\ 1 \in DOMAIN (<<a>> \o FB) /\ (<<a>> \o FB)[1] = a
    BY <1>3, <1>4, <1>5
  <1>7. /\ AllGood((<<a>> \o FB) \o FC) /\ 1 \in DOMAIN ((<<a>> \o FB) \o FC)
        /\ ((<<a>> \o FB) \o FC)[1] = a
    BY <1>3, <1>6, <1>5
  <1>8. /\ AllGood(((<<a>> \o FB) \o FC) \o FD) /\ 1 \in DOMAIN (((<<a>> \o FB) \o FC) \o FD)
        /\ (((<<a>> \o FB) \o FC) \o FD)[1] = a
    BY <1>3, <1>7, <1>5
  <1>9. PlaceSteps(w) = ((<<a>> \o FB) \o FC) \o FD
    BY DEF PlaceSteps, a, b, c, d, FB, FC, FD
  <1> QED
    BY <1>1, <1>8, <1>9 DEF AllGood

\* The launch of a window, and the wait that goes with it.
LEMMA LaunchStepsShape ==
    ASSUME NEW w \in Window
    PROVE  /\ LaunchSteps(w) \in Seq(RestoreStep)
           /\ DOMAIN LaunchSteps(w) = {1, 2} /\ Len(LaunchSteps(w)) = 2
           /\ LaunchSteps(w)[1] = Step("LaunchProcess", w, "launch" \notin can)
           /\ LaunchSteps(w)[2] = Step("WaitForWindow", w, "launch" \notin can)
           /\ \A i \in DOMAIN LaunchSteps(w) : LaunchSteps(w)[i].target = w
           /\ LaunchSteps(w)[1].kind = "LaunchProcess" /\ LaunchSteps(w)[2].kind = "WaitForWindow"
  BY DEF LaunchSteps, Step, RestoreStep, Kinds

\* A window that is skipped.
LEMMA SkipShape ==
    ASSUME NEW w \in Window
    PROVE  /\ <<Step("MoveWindow", w, TRUE)>> \in Seq(RestoreStep)
           /\ Step("MoveWindow", w, TRUE).kind = "MoveWindow"
           /\ Step("MoveWindow", w, TRUE).target = w
  BY DEF Step, RestoreStep, Kinds

------------------------------------------------------------------------------
(* Types.                                                                    *)

\* A desktop without one of its windows.
LEMMA WithoutType ==
    ASSUME DeskType, NEW k \in DOMAIN desk
    PROVE  /\ Without(k) \in Seq(Handle)
           /\ \A i \in DOMAIN Without(k) : \E j \in DOMAIN desk : Without(k)[i] = desk[j]
  BY DEF DeskType, Without

\* A length clamped to an area fits into it.
LEMMA ClampFits ==
    ASSUME NEW start \in Int, NEW length \in Int, NEW from \in Int, NEW room \in Int
    PROVE  LET l == ClampLength(length, room)
               at == ClampStart(start, l, from, room)
           IN  l \in Int /\ at \in Int /\ from <= at /\ at + l <= from + room
  BY DEF ClampLength, ClampStart, Smaller, Larger

\* A clamped frame lies inside the area.
LEMMA ClampedInside ==
    ASSUME NEW r \in Rect, NEW area \in Rect
    PROVE  ClampInto(r, area) \in Rect /\ Inside(ClampInto(r, area), area)
  <1> DEFINE width == ClampLength(r.width, area.width)
             height == ClampLength(r.height, area.height)
             x == ClampStart(r.x, width, area.x, area.width)
             y == ClampStart(r.y, height, area.y, area.height)
  <1>1. /\ r.x \in Int /\ r.y \in Int /\ r.width \in Int /\ r.height \in Int
        /\ area.x \in Int /\ area.y \in Int /\ area.width \in Int /\ area.height \in Int
    BY DEF Rect
  <1>2. width \in Int /\ x \in Int /\ area.x <= x /\ x + width <= area.x + area.width
    BY <1>1, ClampFits
  <1>3. height \in Int /\ y \in Int /\ area.y <= y /\ y + height <= area.y + area.height
    BY <1>1, ClampFits
  <1>4. ClampInto(r, area) = [x |-> x, y |-> y, width |-> width, height |-> height]
    BY DEF ClampInto
  <1> HIDE DEF width, height, x, y
  <1> QED
    BY <1>2, <1>3, <1>4 DEF Rect, Inside

\* Clamped frames are frames.
LEMMA ClampType ==
    ASSUME NEW r \in Rect, NEW areas \in Seq(Rect), NEW t \in ClampToMonitors(r, areas)
    PROVE  t \in Rect
  <1>1. CASE areas = <<>>
    BY <1>1 DEF ClampToMonitors
  <1>2. CASE areas # <<>>
    <2>1. PICK i \in DOMAIN areas : t = ClampInto(r, areas[i])
      BY <1>2 DEF ClampToMonitors, TargetMonitor
    <2>2. areas[i] \in Rect
      OBVIOUS
    <2> QED
      BY <2>1, <2>2, ClampedInside
  <1> QED
    BY <1>1, <1>2

\* What enumerate lists is on screen.
LEMMA EnumerationType ==
    ASSUME DeskType, NEW q \in Enumerations
    PROVE  /\ q \in Seq(Handle)
           /\ \A i \in DOMAIN q : \E j \in DOMAIN desk : q[i] = desk[j]
  <1>1. CASE q = <<>>
    BY <1>1
  <1>2. CASE q = desk
    BY <1>2 DEF DeskType
  <1>3. CASE q = [i \in DOMAIN desk |-> desk[Len(desk) + 1 - i]]
    <2>1. Len(desk) \in Nat /\ DOMAIN desk = 1..Len(desk)
      BY DEF DeskType
    <2>2. \A i \in DOMAIN desk : Len(desk) + 1 - i \in DOMAIN desk
      BY <2>1
    <2>3. \A i \in DOMAIN desk : desk[i] \in Handle
      BY DEF DeskType
    <2>4. DOMAIN q = 1..Len(desk) /\ \A i \in DOMAIN q : q[i] \in Handle
      BY <1>3, <2>1, <2>2, <2>3
    <2>5. q \in [1..Len(desk) -> Handle]
      BY <1>3, <2>1, <2>2, <2>3
    <2> QED
      BY <1>3, <2>1, <2>2, <2>5
  <1> QED
    BY <1>1, <1>2, <1>3, RestoreAssumption DEF Enumerations

\* A match is a live window that was listed and is free.
LEMMA MatchType ==
    ASSUME PlanType, NEW w \in Window, NEW h \in BestLiveMatch(w)
    PROVE  h \in Handle /\ h \notin used /\ \E i \in DOMAIN seen : seen[i] = h
  BY DEF PlanType, BestLiveMatch, Candidates

\* A step of the desktop keeps its type.
LEMMA DesktopType ==
    ASSUME DeskType, Desktop
    PROVE  DeskType'
  <1> USE RestoreAssumption
  <1>1. ASSUME NEW h \in Handle, UserOpens(h) PROVE DeskType'
    BY <1>1 DEF UserOpens, Comes, DeskType
  <1>2. ASSUME NEW h \in Handle, UserCloses(h) PROVE DeskType'
    <2>1. PICK k \in DOMAIN desk : desk' = Without(k)
      BY <1>2 DEF UserCloses
    <2> QED
      BY <1>2, <2>1, WithoutType DEF UserCloses, DeskType
  <1>3. ASSUME NEW h \in Handle, NEW w \in Window, AppOpensWindow(h, w) PROVE DeskType'
    BY <1>3 DEF AppOpensWindow, Comes, DeskType
  <1> QED
    BY <1>1, <1>2, <1>3 DEF Desktop

\* So does putting a window on top.
LEMMA OnTopType ==
    ASSUME DeskType, NEW h \in Handle, OnTop(h), UNCHANGED <<unborn, owner, changes>>
    PROVE  DeskType'
  <1>1. CASE UNCHANGED desk
    BY <1>1 DEF DeskType
  <1>2. ASSUME NEW k \in DOMAIN desk, desk' = Append(Without(k), h) PROVE DeskType'
    BY <1>2, WithoutType DEF DeskType
  <1> QED
    BY <1>1, <1>2 DEF OnTop

\* What happens to a report leaves it one.
LEMMA ReportType ==
    ASSUME report \in RestoreReport, NEW w \in Window
    PROVE  /\ [report EXCEPT !.windows_failed = @ + 1, !.errors = @ \cup {w}] \in RestoreReport
           /\ [report EXCEPT !.windows_restored = @ + 1, !.placed = @ \cup {w}] \in RestoreReport
           /\ [report EXCEPT !.apps_launched = @ + 1] \in RestoreReport
  <1> DEFINE r == report
  <1>1. /\ r.windows_restored + 1 \in Nat /\ r.windows_failed + 1 \in Nat
        /\ r.apps_launched + 1 \in Nat
    BY DEF RestoreReport
  <1>2. /\ r.placed \cup {w} \in SUBSET Window /\ r.errors \cup {w} \in SUBSET Window
    BY DEF RestoreReport
  <1>3. [report EXCEPT !.apps_launched = @ + 1] \in RestoreReport
    BY <1>1 DEF RestoreReport
  <1>5. [report EXCEPT !.windows_failed = @ + 1, !.errors = @ \cup {w}] \in RestoreReport
    BY <1>1, <1>2 DEF RestoreReport
  <1>6. [report EXCEPT !.windows_restored = @ + 1, !.placed = @ \cup {w}] \in RestoreReport
    BY <1>1, <1>2 DEF RestoreReport
  <1> QED
    BY <1>3, <1>5, <1>6

\* So does a warning.
LEMMA WarnType ==
    ASSUME report \in RestoreReport, NEW v \in Window \cup {None}
    PROVE  [report EXCEPT !.warnings = @ \cup {v}] \in RestoreReport
  <1>1. report.warnings \cup {v} \in SUBSET (Window \cup {None})
    BY DEF RestoreReport
  <1> QED
    BY <1>1 DEF RestoreReport

\* Every step keeps the types.
LEMMA TypeStep ==
    ASSUME TypeOK, [Next]_vars
    PROVE  TypeOK'
  <1> USE RestoreAssumption DEF world, request, Pass
  <1>t. RequestType /\ DeskType /\ PlanType /\ ExecutionType
    BY DEF TypeOK
  <1>r. ASSUME UNCHANGED request PROVE RequestType'
    BY <1>t, <1>r DEF RequestType
  <1>d. ASSUME UNCHANGED world PROVE DeskType'
    BY <1>t, <1>d DEF DeskType
  <1>p. ASSUME UNCHANGED <<seen, used, unraised, steps>>, next' \in {1, next, next + 1},
               pc' \in {"planning", "ordering", "closing", "matching", "executing", "done"}
        PROVE  PlanType'
    BY <1>t, <1>p DEF PlanType
  <1>e. ASSUME UNCHANGED <<monitors, handles, pids, frame, raised, report>>
        PROVE  ExecutionType'
    BY <1>t, <1>e DEF ExecutionType
  <1>1. ASSUME PlanWindow PROVE TypeOK'
    <2>1. next \in Window /\ PlaceSteps(next) \in Seq(RestoreStep)
             /\ LaunchSteps(next) \in Seq(RestoreStep)
      BY <1>1, <1>t, PlaceStepsShape, LaunchStepsShape DEF PlanWindow
    <2>2. used' \subseteq Handle
      BY <1>1, <1>t, <2>1, MatchType
         DEF PlanWindow, PlanUnselected, PlanMatched, PlanMissing, PlanType
    <2>3. steps' \in Seq(RestoreStep)
      <3>1. steps \in Seq(RestoreStep)
        BY <1>t DEF PlanType
      <3>2. CASE steps' = steps
        BY <3>1, <3>2
      <3>3. CASE steps' = steps \o PlaceSteps(next)
        BY <2>1, <3>1, <3>3
      <3>4. CASE steps' = steps \o (LaunchSteps(next) \o PlaceSteps(next))
        BY <2>1, <3>1, <3>4
      <3>5. CASE steps' = steps \o <<Step("MoveWindow", next, TRUE)>>
        <4>1. <<Step("MoveWindow", next, TRUE)>> \in Seq(RestoreStep)
          BY <2>1, SkipShape
        <4> QED
          BY <3>1, <3>5, <4>1, Elements
      <3> QED
        BY <1>1, <3>2, <3>3, <3>4, <3>5 DEF PlanWindow, PlanUnselected, PlanMatched, PlanMissing
    <2>4. PlanType'
      BY <1>1, <1>t, <2>2, <2>3 DEF PlanWindow, PlanType
    <2> QED
      BY <1>1, <1>r, <1>d, <1>e, <2>4 DEF PlanWindow, TypeOK
  <1>2. ASSUME PlanOrder PROVE TypeOK'
    <2>1. PlanType'
      BY <1>2, <1>t DEF PlanOrder, PlanType, RequestType, RestoreOptions
    <2> QED
      BY <1>2, <1>r, <1>d, <1>e, <2>1 DEF PlanOrder, TypeOK
  <1>3. ASSUME PlanRaise PROVE TypeOK'
    <2>1. PICK w \in unraised : /\ steps' = Append(steps, Step("RaiseWindow", w, "z_order" \notin can))
                                /\ unraised' = unraised \ {w}
      BY <1>3 DEF PlanRaise
    <2>2. Step("RaiseWindow", w, "z_order" \notin can) \in RestoreStep
      BY <1>t DEF PlanType, Step, RestoreStep, Kinds
    <2>3. PlanType'
      BY <1>3, <1>t, <2>1, <2>2 DEF PlanRaise, PlanType
    <2> QED
      BY <1>3, <1>r, <1>d, <1>e, <2>3 DEF PlanRaise, TypeOK
  <1>4. ASSUME PlanClosing PROVE TypeOK'
    <2> DEFINE a == Step("WarpCursor", None, "warp" \notin can)
               b == Step("FocusWindow", Focused, "focus" \notin can)
    <2>1. a \in RestoreStep /\ b \in RestoreStep
      BY DEF Step, RestoreStep, Kinds
    <2> HIDE DEF a, b
    <2>2. /\ If(options.restore_cursor, a) \in Seq(RestoreStep)
          /\ If(options.restore_focus /\ Focused # None, b) \in Seq(RestoreStep)
      BY <2>1, IfStep DEF If
    <2>3. steps' = (steps \o If(options.restore_cursor, a))
                     \o If(options.restore_focus /\ Focused # None, b)
      BY <1>4 DEF PlanClosing, a, b
    <2>4. steps' \in Seq(RestoreStep)
      BY <1>t, <2>2, <2>3 DEF PlanType
    <2>5. PlanType'
      BY <1>4, <1>t, <2>4 DEF PlanClosing, PlanType
    <2> QED
      BY <1>4, <1>r, <1>d, <1>e, <2>5 DEF PlanClosing, TypeOK
  <1>5. ASSUME Look PROVE TypeOK'
    <2>1. PlanType'
      BY <1>5, <1>t, EnumerationType DEF Look, PlanType
    <2>2. ExecutionType'
      BY <1>5, <1>t DEF Look, ExecutionType
    <2> QED
      BY <1>5, <1>r, <1>d, <2>1, <2>2 DEF Look, TypeOK
  <1>6. ASSUME MatchWindow PROVE TypeOK'
    <2>1. next \in Window /\ BestLiveMatch(next) \subseteq Handle
      BY <1>6, <1>t, MatchType DEF MatchWindow
    <2>2. PlanType'
      BY <1>6, <1>t, <2>1 DEF MatchWindow, PlanType
    <2>3. ExecutionType'
      BY <1>6, <1>t, <2>1 DEF MatchWindow, ExecutionType
    <2> QED
      BY <1>6, <1>r, <1>d, <2>2, <2>3 DEF MatchWindow, TypeOK
  <1>7. ASSUME StartSteps \/ Finish PROVE TypeOK'
    BY <1>7, <1>r, <1>d, <1>p, <1>e DEF StartSteps, Finish, TypeOK
  <1>w. ASSUME NEW w \in Window \cup {None}, Warn(w), UNCHANGED <<monitors, handles, pids, frame, raised>>
        PROVE  ExecutionType'
    BY <1>w, <1>t, WarnType DEF Warn, ExecutionType
  <1>f. ASSUME NEW w \in Window, Fail(w), UNCHANGED <<monitors, handles, pids, frame, raised>>
        PROVE  ExecutionType'
    BY <1>f, <1>t, ReportType DEF Fail, ExecutionType
  <1>8. ASSUME SkipStep PROVE TypeOK'
    <2>1. steps[next].target \in Window \cup {None}
      <3>1. steps[next] \in RestoreStep
        BY <1>8, <1>t DEF SkipStep, PlanType
      <3> QED
        BY <3>1 DEF RestoreStep
    <2>2. PlanType'
      BY <1>8, <1>t DEF SkipStep, PlanType
    <2> QED
      BY <1>8, <1>r, <1>d, <1>w, <2>1, <2>2 DEF SkipStep, TypeOK
  <1>c. ASSUME NEW k, NEW w, Current(k, w) PROVE RequestType' /\ PlanType' /\ UNCHANGED monitors
    BY <1>c, <1>r, <1>t DEF Current, PlanType
  <1>9. ASSUME WarpCursor PROVE TypeOK'
    <2>1. RequestType' /\ PlanType' /\ UNCHANGED monitors
      BY <1>9, <1>c DEF WarpCursor
    <2> QED
      BY <1>9, <1>d, <1>e, <1>w, <2>1 DEF WarpCursor, TypeOK
  <1>10. ASSUME NEW w \in Window, LaunchProcess(w) PROVE TypeOK'
    <2>1. RequestType' /\ PlanType' /\ UNCHANGED monitors
      BY <1>10, <1>c DEF LaunchProcess
    <2>2. ExecutionType'
      BY <1>10, <1>t, <1>f, <2>1, ReportType DEF LaunchProcess, ExecutionType
    <2> QED
      BY <1>10, <1>d, <2>1, <2>2 DEF LaunchProcess, TypeOK
  <1>11. ASSUME NEW w \in Window, WaitForWindow(w) PROVE TypeOK'
    <2>1. RequestType' /\ PlanType' /\ UNCHANGED monitors
      BY <1>11, <1>c DEF WaitForWindow
    <2>2. ExecutionType'
      <3>1. CASE Fail(w) /\ UNCHANGED handles
        BY <1>11, <1>f, <2>1, <3>1 DEF WaitForWindow
      <3>2. ASSUME NEW h \in Appeared(w), handles' = [handles EXCEPT ![w] = h], UNCHANGED report
            PROVE  ExecutionType'
        BY <1>11, <1>t, <2>1, <3>2 DEF WaitForWindow, ExecutionType, Appeared
      <3> QED
        BY <1>11, <3>1, <3>2 DEF WaitForWindow
    <2> QED
      BY <1>11, <1>d, <2>1, <2>2 DEF WaitForWindow, TypeOK
  <1>12. ASSUME NEW w \in Window, MoveWindow(w) PROVE TypeOK'
    <2>1. RequestType' /\ PlanType' /\ UNCHANGED monitors
      BY <1>12, <1>c DEF MoveWindow
    <2>2. ClampToMonitors(SavedFrame[w], monitors) \subseteq Rect
      BY <1>t, ClampType DEF ExecutionType
    <2>3. ExecutionType'
      <3>1. CASE handles[w] = None /\ Warn(w) /\ UNCHANGED frame
        BY <1>12, <1>w, <2>1, <3>1 DEF MoveWindow
      <3>2. CASE handles[w] # None /\ Fail(w) /\ UNCHANGED frame
        BY <1>12, <1>f, <2>1, <3>2 DEF MoveWindow
      <3>3. ASSUME NEW t \in ClampToMonitors(SavedFrame[w], monitors), handles[w] # None,
                   frame' = [frame EXCEPT ![handles[w]] = IF On(handles[w]) THEN t ELSE @],
                   report' = [report EXCEPT !.windows_restored = @ + 1, !.placed = @ \cup {w}]
            PROVE  ExecutionType'
        <4>1. frame' \in [Handle -> Rect \cup {None}]
          BY <1>t, <2>2, <3>3 DEF ExecutionType
        <4> QED
          BY <1>12, <1>t, <2>1, <3>3, <4>1, ReportType DEF MoveWindow, ExecutionType
      <3> QED
        BY <1>12, <3>1, <3>2, <3>3 DEF MoveWindow
    <2> QED
      BY <1>12, <1>d, <2>1, <2>3 DEF MoveWindow, TypeOK
  <1>13. ASSUME NEW w \in Window, AdjustWindow(w) \/ RestoreTabs(w) PROVE TypeOK'
    <2>1. RequestType' /\ PlanType' /\ UNCHANGED monitors
      BY <1>13, <1>c DEF AdjustWindow, RestoreTabs
    <2> QED
      BY <1>13, <1>d, <1>e, <1>w, <2>1 DEF AdjustWindow, RestoreTabs, TypeOK
  <1>14. ASSUME NEW w \in Window, RaiseWindow(w) \/ FocusWindow(w) PROVE TypeOK'
    <2>1. RequestType' /\ PlanType' /\ UNCHANGED monitors
      BY <1>14, <1>c DEF RaiseWindow, FocusWindow
    <2>2. DeskType'
      BY <1>14, <1>t, <1>d, OnTopType DEF RaiseWindow, FocusWindow, ExecutionType
    <2>3. CASE UNCHANGED report
      BY <1>14, <1>t, <2>1, <2>2, <2>3 DEF RaiseWindow, FocusWindow, ExecutionType, TypeOK
    <2>4. CASE Warn(w) /\ UNCHANGED raised
      BY <1>14, <1>w, <2>1, <2>2, <2>4 DEF RaiseWindow, FocusWindow, TypeOK
    <2> QED
      BY <1>14, <2>3, <2>4 DEF RaiseWindow, FocusWindow
  <1>15. ASSUME Desktop PROVE TypeOK'
    <2>1. DeskType'
      BY <1>15, <1>t, DesktopType
    <2>2. UNCHANGED <<request, pc, next, seen, used, unraised, steps, monitors, handles, pids,
                      frame, raised, report>>
      BY <1>15 DEF Desktop, UserOpens, UserCloses, AppOpensWindow, Comes
    <2>3. PlanType'
      BY <1>t, <2>2 DEF PlanType
    <2> QED
      BY <1>r, <1>e, <2>1, <2>2, <2>3 DEF TypeOK
  <1>16. ASSUME UNCHANGED vars PROVE TypeOK'
    <2>1. PlanType'
      BY <1>t, <1>16 DEF PlanType, vars
    <2> QED
      BY <1>r, <1>d, <1>e, <1>16, <2>1 DEF vars, TypeOK
  <1> QED
    BY <1>1, <1>2, <1>3, <1>4, <1>5, <1>6, <1>7, <1>8, <1>9, <1>10, <1>11, <1>12, <1>13, <1>14,
       <1>15, <1>16 DEF Next, Engine, Execute

\* At the start every variable has its type.
LEMMA TypeInit ==
    ASSUME Init PROVE TypeOK
  <1> USE RestoreAssumption
  <1>1. DeskType
    BY DEF Init, DeskType
  <1>2. seen \in Seq(Handle)
    BY <1>1, EnumerationType DEF Init
  <1> QED
    BY <1>1, <1>2 DEF Init, TypeOK, RequestType, PlanType, ExecutionType, RestoreReport

\* Every reachable state of a restore has its types, for any snapshot and any desktop.
THEOREM RestoreTypeCorrect == Spec => []TypeOK
  BY TypeInit, TypeStep, PTL DEF Spec

------------------------------------------------------------------------------
(* The shape of a plan.                                                      *)

\* What one iteration may add to the plan for window w.
Planned(t, w) ==
    /\ t \in Seq(RestoreStep)
    /\ \A i \in DOMAIN t : t[i].target = w
    /\ \A i \in DOMAIN t : t[i].kind \notin {"RaiseWindow", "FocusWindow"}
    /\ \A i \in DOMAIN t : t[i].kind = "WaitForWindow" /\ ~t[i].skipped =>
          i > 1 /\ t[i - 1] = Step("LaunchProcess", w, FALSE)
    /\ \A i, j \in DOMAIN t :
          t[i].kind = "LaunchProcess" /\ t[j].kind = "LaunchProcess" => i = j
    /\ \E i \in DOMAIN t : t[i].kind = "MoveWindow"

\* The three things an iteration adds for a selected window have that shape.
LEMMA PlannedShape ==
    ASSUME RequestType, NEW w \in Window
    PROVE  /\ Planned(PlaceSteps(w), w)
           /\ Planned(LaunchSteps(w) \o PlaceSteps(w), w)
           /\ Planned(<<Step("MoveWindow", w, TRUE)>>, w)
  <1> DEFINE p == PlaceSteps(w)
             l == LaunchSteps(w)
  <1>p. /\ p \in Seq(RestoreStep) /\ 1 \in DOMAIN p /\ p[1].kind = "MoveWindow"
        /\ \A i \in DOMAIN p :
              /\ p[i].target = w
              /\ p[i].kind \notin {"LaunchProcess", "WaitForWindow"}
              /\ p[i].kind \notin {"RaiseWindow", "FocusWindow"}
    BY PlaceStepsShape
  <1>l. /\ l \in Seq(RestoreStep) /\ DOMAIN l = {1, 2} /\ Len(l) = 2
        /\ l[1].target = w /\ l[1].kind = "LaunchProcess"
        /\ l[2].target = w /\ l[2].kind = "WaitForWindow"
        /\ ~l[2].skipped => l[1] = Step("LaunchProcess", w, FALSE)
    <2>1. /\ l \in Seq(RestoreStep) /\ DOMAIN l = {1, 2} /\ Len(l) = 2
          /\ l[1].target = w /\ l[1].kind = "LaunchProcess"
          /\ l[2].target = w /\ l[2].kind = "WaitForWindow"
      BY LaunchStepsShape
    <2>2. CASE "launch" \in can
      <3>1. l[1] = Step("LaunchProcess", w, FALSE)
        BY <2>2 DEF LaunchSteps, Step
      <3> QED
        BY <2>1, <3>1
    <2>3. CASE "launch" \notin can
      <3>1. l[2].skipped
        BY <2>3 DEF LaunchSteps, Step
      <3> QED
        BY <2>1, <3>1
    <2> QED
      BY <2>2, <2>3
  <1> HIDE DEF p, l
  <1>1. Planned(p, w)
    BY <1>p DEF Planned
  <1>2. Planned(l \o p, w)
    <2> DEFINE q == l \o p
    <2>0. /\ q \in Seq(RestoreStep)
          /\ DOMAIN q = 1..(Len(l) + Len(p))
          /\ \A i \in DOMAIN l : i \in DOMAIN q /\ q[i] = l[i]
          /\ \A i \in DOMAIN p : i + Len(l) \in DOMAIN q /\ q[i + Len(l)] = p[i]
          /\ \A i \in DOMAIN q :
                \/ i \in DOMAIN l /\ q[i] = l[i]
                \/ i - Len(l) \in DOMAIN p /\ q[i] = p[i - Len(l)]
      <3>1. l \in Seq(RestoreStep) /\ p \in Seq(RestoreStep)
        BY <1>p, <1>l
      <3> QED
        BY <3>1, Elements
    <2> HIDE DEF q
    <2>1. q[1] = l[1] /\ q[2] = l[2]
      BY <1>l, <2>0
    <2>2. \A i \in DOMAIN q : i \in {1, 2} \/ (i - 2 \in DOMAIN p /\ q[i] = p[i - 2])
      <3>1. Len(l) = 2 /\ DOMAIN l = {1, 2}
        BY <1>l
      <3>2. ASSUME NEW i \in DOMAIN q, i \notin {1, 2}
            PROVE  i - 2 \in DOMAIN p /\ q[i] = p[i - 2]
        <4>1. i - Len(l) \in DOMAIN p /\ q[i] = p[i - Len(l)]
          BY <2>0, <3>1, <3>2
        <4> QED
          BY <3>1, <4>1
      <3> QED
        BY <3>2, Zenon
    <2>3. 3 \in DOMAIN q /\ q[3] = p[1]
      BY <1>p, <1>l, <2>0
    <2>4. \A i \in DOMAIN q :
            q[i].target = w /\ q[i].kind \notin {"RaiseWindow", "FocusWindow"}
      BY <1>p, <1>l, <2>1, <2>2
    <2>5. \A i \in DOMAIN q : q[i].kind = "LaunchProcess" => i = 1
      BY <1>p, <1>l, <2>1, <2>2
    <2>6. \A i \in DOMAIN q : q[i].kind = "WaitForWindow" => i = 2
      BY <1>p, <1>l, <2>1, <2>2
    <2>7. ~q[2].skipped => q[1] = Step("LaunchProcess", w, FALSE)
      BY <1>l, <2>1
    <2>8. \E i \in DOMAIN q : q[i].kind = "MoveWindow"
      BY <1>p, <2>3
    <2> QED
      <3>1. \A i \in DOMAIN q : q[i].kind = "WaitForWindow" /\ ~q[i].skipped =>
              i > 1 /\ q[i - 1] = Step("LaunchProcess", w, FALSE)
        <4> SUFFICES ASSUME NEW i \in DOMAIN q, q[i].kind = "WaitForWindow", ~q[i].skipped
                     PROVE  i > 1 /\ q[i - 1] = Step("LaunchProcess", w, FALSE)
          OBVIOUS
        <4>1. i = 2
          BY <2>6
        <4>2. q[1] = Step("LaunchProcess", w, FALSE)
          BY <2>7, <4>1
        <4>3. i > 1 /\ i - 1 = 1
          BY <4>1
        <4> QED
          BY <4>2, <4>3
      <3>2. Planned(q, w)
        BY <2>0, <2>4, <2>5, <2>8, <3>1 DEF Planned
      <3> QED
        BY <3>2 DEF q
  <1>3. Planned(<<Step("MoveWindow", w, TRUE)>>, w)
    BY DEF Planned, Step, RestoreStep, Kinds
  <1> QED
    BY <1>1, <1>2, <1>3 DEF p, l

\* One iteration over the saved windows leaves the plan alone or adds such steps for a
\* selected window.
LEMMA PlanWindowAdds ==
    ASSUME TypeOK, PlanWindow
    PROVE  \/ next \notin options.selected /\ steps' = steps
           \/ /\ next \in options.selected
              /\ \E t : Planned(t, next) /\ steps' = steps \o t
  <1>1. next \in Window /\ RequestType
    BY DEF PlanWindow, TypeOK
  <1>2. CASE PlanUnselected(next)
    BY <1>2 DEF PlanUnselected
  <1>3. CASE PlanMatched(next)
    BY <1>1, <1>3, PlannedShape DEF PlanMatched
  <1>4. CASE PlanMissing(next)
    BY <1>1, <1>4, PlannedShape DEF PlanMissing
  <1> QED
    BY <1>2, <1>3, <1>4 DEF PlanWindow

\* Steps that neither launch, wait nor move may be added behind a plan.
LEMMA PlanTail ==
    ASSUME TypeOK, PlanInv, NEW t \in Seq(RestoreStep), steps' = steps \o t,
           UNCHANGED options, pc' # "planning",
           \A i \in DOMAIN t :
               t[i].kind \notin {"LaunchProcess", "WaitForWindow", "MoveWindow"}
    PROVE  PlanInv'
  <1> DEFINE q == steps'
  <1>1. steps \in Seq(RestoreStep) /\ DOMAIN steps = 1..Len(steps)
    BY DEF TypeOK, PlanType
  <1>2. /\ \A i \in DOMAIN steps : i \in DOMAIN q /\ q[i] = steps[i]
        /\ \A i \in DOMAIN q :
              \/ i \in DOMAIN steps /\ q[i] = steps[i]
              \/ q[i].kind \notin {"LaunchProcess", "WaitForWindow", "MoveWindow"}
    BY <1>1, Elements
  <1>3. \A i \in DOMAIN q : q[i].kind \in {"LaunchProcess", "WaitForWindow", "MoveWindow"} =>
          i \in DOMAIN steps /\ q[i] = steps[i]
    BY <1>2
  <1> HIDE DEF q
  <1>4. \A i \in DOMAIN q : q[i].kind = "WaitForWindow" /\ ~q[i].skipped =>
          i > 1 /\ q[i - 1] = Step("LaunchProcess", q[i].target, FALSE)
    <2> SUFFICES ASSUME NEW i \in DOMAIN q, q[i].kind = "WaitForWindow", ~q[i].skipped
                 PROVE  i > 1 /\ q[i - 1] = Step("LaunchProcess", q[i].target, FALSE)
      OBVIOUS
    <2>1. i \in DOMAIN steps /\ q[i] = steps[i]
      BY <1>3
    <2>2. i > 1 /\ steps[i - 1] = Step("LaunchProcess", q[i].target, FALSE)
      BY <2>1 DEF PlanInv
    <2>3. i - 1 \in DOMAIN steps
      BY <1>1, <2>1, <2>2
    <2> QED
      BY <1>2, <2>2, <2>3
  <1>5. \A i \in DOMAIN q :
          q[i].kind \in {"LaunchProcess", "WaitForWindow", "MoveWindow"} =>
              q[i].target \in options.selected
    BY <1>3 DEF PlanInv
  <1>6. \A i, j \in DOMAIN q :
          q[i].kind = "LaunchProcess" /\ q[j].kind = "LaunchProcess"
              /\ q[i].target = q[j].target => i = j
    BY <1>3 DEF PlanInv
  <1> QED
    BY <1>4, <1>5, <1>6 DEF PlanInv, q, Step

\* An iteration over the saved windows keeps the shape of the plan.
LEMMA PlanWindowStep ==
    ASSUME TypeOK, PlanInv, PlanWindow
    PROVE  PlanInv'
  <1> DEFINE q == steps'
  <1>1. /\ steps \in Seq(RestoreStep) /\ DOMAIN steps = 1..Len(steps) /\ Len(steps) \in Nat
        /\ next \in Nat /\ Window \subseteq Nat
    BY RestoreAssumption DEF TypeOK, PlanType, Window
  <1>2. pc = "planning" /\ pc' = "planning" /\ next' = next + 1 /\ UNCHANGED options
    BY DEF PlanWindow, Pass, request
  <1>3. CASE steps' = steps
    <2>2. \A i \in DOMAIN steps : steps[i].kind = "LaunchProcess" => steps[i].target < next'
      <3> SUFFICES ASSUME NEW i \in DOMAIN steps, steps[i].kind = "LaunchProcess"
                   PROVE  steps[i].target < next'
        OBVIOUS
      <3>1. steps[i].target < next /\ steps[i].target \in options.selected
        BY <1>2 DEF PlanInv
      <3>2. steps[i].target \in Nat
        BY <1>1, <3>1 DEF TypeOK, RequestType, RestoreOptions
      <3> QED
        BY <1>1, <1>2, <3>1, <3>2
    <2> QED
      BY <1>2, <1>3, <2>2 DEF PlanInv, Step
  <1>4. ASSUME NEW t, next \in options.selected, Planned(t, next), steps' = steps \o t
        PROVE  PlanInv'
    <2>0. t \in Seq(RestoreStep) /\ DOMAIN t = 1..Len(t) /\ Len(t) \in Nat
      BY <1>4 DEF Planned
    <2>1. /\ \A i \in DOMAIN steps : i \in DOMAIN q /\ q[i] = steps[i]
          /\ \A i \in DOMAIN t : i + Len(steps) \in DOMAIN q /\ q[i + Len(steps)] = t[i]
          /\ \A i \in DOMAIN q :
                \/ i \in DOMAIN steps /\ q[i] = steps[i]
                \/ i - Len(steps) \in DOMAIN t /\ q[i] = t[i - Len(steps)]
          /\ DOMAIN q \subseteq Nat
      BY <1>1, <1>4, <2>0, Elements
    <2> HIDE DEF q
    <2>2. \A i \in DOMAIN q :
            q[i].kind \in {"LaunchProcess", "WaitForWindow", "MoveWindow"} =>
                q[i].target \in options.selected
      BY <1>4, <2>1 DEF PlanInv, Planned
    <2>3. \A i \in DOMAIN q : q[i].kind = "WaitForWindow" /\ ~q[i].skipped =>
            i > 1 /\ q[i - 1] = Step("LaunchProcess", q[i].target, FALSE)
      <3> SUFFICES ASSUME NEW i \in DOMAIN q, q[i].kind = "WaitForWindow", ~q[i].skipped
                   PROVE  i > 1 /\ q[i - 1] = Step("LaunchProcess", q[i].target, FALSE)
        OBVIOUS
      <3>1. CASE i \in DOMAIN steps /\ q[i] = steps[i]
        <4>1. i > 1 /\ steps[i - 1] = Step("LaunchProcess", q[i].target, FALSE)
          BY <3>1 DEF PlanInv
        <4>2. i - 1 \in DOMAIN steps
          BY <1>1, <3>1, <4>1
        <4> QED
          BY <2>1, <4>1, <4>2
      <3>2. CASE i - Len(steps) \in DOMAIN t /\ q[i] = t[i - Len(steps)]
        <4> DEFINE j == i - Len(steps)
        <4>1. j > 1 /\ t[j - 1] = Step("LaunchProcess", next, FALSE) /\ t[j].target = next
          BY <1>4, <3>2 DEF Planned
        <4>2. j - 1 \in DOMAIN t /\ i = j + Len(steps) /\ i \in Nat
          BY <1>1, <2>0, <2>1, <3>2, <4>1
        <4>3. q[(j - 1) + Len(steps)] = t[j - 1]
          BY <2>1, <4>2
        <4>4. (j - 1) + Len(steps) = i - 1 /\ i > 1
          BY <1>1, <2>0, <4>1, <4>2
        <4> QED
          BY <3>2, <4>1, <4>3, <4>4
      <3> QED
        BY <2>1, <3>1, <3>2
    <2>4. \A i \in DOMAIN q : q[i].kind = "LaunchProcess" =>
            \/ i \in DOMAIN steps /\ q[i] = steps[i] /\ q[i].target < next
            \/ i - Len(steps) \in DOMAIN t /\ q[i] = t[i - Len(steps)] /\ q[i].target = next
      BY <1>2, <1>4, <2>1 DEF PlanInv, Planned
    <2>5. \A i, j \in DOMAIN q :
            q[i].kind = "LaunchProcess" /\ q[j].kind = "LaunchProcess"
                /\ q[i].target = q[j].target => i = j
      <3> SUFFICES ASSUME NEW i \in DOMAIN q, NEW j \in DOMAIN q, q[i].kind = "LaunchProcess",
                          q[j].kind = "LaunchProcess", q[i].target = q[j].target
                   PROVE  i = j
        OBVIOUS
      <3>1. i \in Nat /\ j \in Nat /\ next \in Nat
        BY <1>1, <2>1
      <3>2. CASE i \in DOMAIN steps /\ j \in DOMAIN steps
        BY <2>1, <3>2 DEF PlanInv
      <3>3. CASE i - Len(steps) \in DOMAIN t /\ j - Len(steps) \in DOMAIN t
        <4>1. ~(i \in DOMAIN steps) /\ ~(j \in DOMAIN steps)
          BY <1>1, <2>0, <3>1, <3>3
        <4>2. i - Len(steps) = j - Len(steps)
          BY <1>4, <2>4, <3>3, <4>1 DEF Planned
        <4> QED
          BY <1>1, <3>1, <4>2
      <3>4. CASE i \in DOMAIN steps /\ j - Len(steps) \in DOMAIN t
        <4>1. ~(i - Len(steps) \in DOMAIN t) /\ ~(j \in DOMAIN steps)
          BY <1>1, <2>0, <3>1, <3>4
        <4> QED
          BY <2>4, <3>1, <4>1
      <3>5. CASE j \in DOMAIN steps /\ i - Len(steps) \in DOMAIN t
        <4>1. ~(j - Len(steps) \in DOMAIN t) /\ ~(i \in DOMAIN steps)
          BY <1>1, <2>0, <3>1, <3>5
        <4> QED
          BY <2>4, <3>1, <4>1
      <3> QED
        BY <2>4, <3>2, <3>3, <3>4, <3>5
    <2>6. \A i \in DOMAIN q : q[i].kind = "LaunchProcess" => q[i].target < next'
      <3> SUFFICES ASSUME NEW i \in DOMAIN q, q[i].kind = "LaunchProcess"
                   PROVE  q[i].target < next'
        OBVIOUS
      <3>1. q[i].target \in Nat
        BY <1>1, <2>2 DEF TypeOK, RequestType, RestoreOptions
      <3> QED
        BY <1>1, <1>2, <2>4, <3>1
    <2> QED
      BY <1>2, <2>2, <2>3, <2>5, <2>6 DEF PlanInv, q, Step
  <1> QED
    BY <1>3, <1>4, PlanWindowAdds

\* A plan ends with the cursor and the focus.
LEMMA ClosingAdds ==
    ASSUME TypeOK, PlanClosing
    PROVE  \E t \in Seq(RestoreStep) :
              /\ steps' = steps \o t
              /\ \A i \in DOMAIN t : t[i].kind \in {"WarpCursor", "FocusWindow"}
              /\ \A i \in DOMAIN t :
                    t[i].kind = "FocusWindow" => t[i].target = Focused /\ options.restore_focus
  <1> DEFINE a == Step("WarpCursor", None, "warp" \notin can)
             b == Step("FocusWindow", Focused, "focus" \notin can)
             c == If(options.restore_cursor, a)
             d == If(options.restore_focus /\ Focused # None, b)
  <1>1. /\ a \in RestoreStep /\ b \in RestoreStep
        /\ a.kind = "WarpCursor" /\ b.kind = "FocusWindow" /\ b.target = Focused
    BY RestoreAssumption DEF Step, RestoreStep, Kinds
  <1> HIDE DEF a, b
  <1>2. /\ c \in Seq(RestoreStep) /\ \A i \in DOMAIN c : c[i].kind = "WarpCursor"
        /\ d \in Seq(RestoreStep)
        /\ \A i \in DOMAIN d : d[i].kind = "FocusWindow" /\ d[i].target = Focused
        /\ DOMAIN d # {} => options.restore_focus
    <2>1. options.restore_cursor \in BOOLEAN /\ options.restore_focus \in BOOLEAN
      BY DEF TypeOK, RequestType, RestoreOptions
    <2>2. (options.restore_focus /\ Focused # None) \in BOOLEAN
      BY <2>1
    <2>3. c \in Seq(RestoreStep) /\ \A i \in DOMAIN c : c[i] = a
      BY <1>1, <2>1, IfStep
    <2>4. d \in Seq(RestoreStep) /\ \A i \in DOMAIN d : d[i] = b
      BY <1>1, <2>2, IfStep
    <2>5. DOMAIN d # {} => options.restore_focus
      BY <2>2 DEF If
    <2> QED
      BY <1>1, <2>3, <2>4, <2>5
  <1> HIDE DEF c, d
  <1>3. c \o d \in Seq(RestoreStep)
        /\ \A i \in DOMAIN (c \o d) :
              \/ i \in DOMAIN c /\ (c \o d)[i] = c[i]
              \/ i - Len(c) \in DOMAIN d /\ (c \o d)[i] = d[i - Len(c)]
    BY <1>2, Elements
  <1>4. \A i \in DOMAIN (c \o d) :
          \/ (c \o d)[i].kind = "WarpCursor"
          \/ /\ (c \o d)[i].kind = "FocusWindow" /\ (c \o d)[i].target = Focused
             /\ options.restore_focus
    BY <1>2, <1>3
  <1>5. steps' = steps \o (c \o d)
    <2>1. steps' = (steps \o c) \o d
      BY DEF PlanClosing, a, b, c, d
    <2>2. steps \in Seq(RestoreStep)
      BY DEF TypeOK, PlanType
    <2> QED
      BY <1>2, <2>1, <2>2, SMTT(30)
  <1>6. \A i \in DOMAIN (c \o d) : (c \o d)[i].kind \in {"WarpCursor", "FocusWindow"}
    BY <1>4
  <1>7. \A i \in DOMAIN (c \o d) : (c \o d)[i].kind = "FocusWindow" =>
          (c \o d)[i].target = Focused /\ options.restore_focus
    BY <1>4
  <1> QED
    BY <1>3, <1>5, <1>6, <1>7

\* Behind the planning of windows the plan only gets steps of other kinds, and from the
\* second look on it stays as it is.
LEMMA PlanGrows ==
    ASSUME TypeOK, [Next]_vars, ~PlanWindow
    PROVE  /\ UNCHANGED options
           /\ \/ UNCHANGED steps /\ (pc' # "planning" \/ UNCHANGED <<pc, next>>)
              \/ /\ pc # "planning" /\ pc' \notin {"planning", "executing"}
                 /\ \E t \in Seq(RestoreStep) :
                       /\ steps' = steps \o t
                       /\ \A i \in DOMAIN t :
                             t[i].kind \notin {"LaunchProcess", "WaitForWindow", "MoveWindow"}
  <1> DEFINE Goal ==
        /\ UNCHANGED options
        /\ \/ UNCHANGED steps /\ (pc' # "planning" \/ UNCHANGED <<pc, next>>)
           \/ /\ pc # "planning" /\ pc' \notin {"planning", "executing"}
              /\ \E t \in Seq(RestoreStep) :
                    /\ steps' = steps \o t
                    /\ \A i \in DOMAIN t :
                          t[i].kind \notin {"LaunchProcess", "WaitForWindow", "MoveWindow"}
  <1>0. steps \in Seq(RestoreStep) /\ unraised \subseteq Window
    BY DEF TypeOK, PlanType
  <1>1. CASE PlanRaise
    <2>1. PICK w \in unraised :
            steps' = Append(steps, Step("RaiseWindow", w, "z_order" \notin can))
      BY <1>1 DEF PlanRaise
    <2> DEFINE a == Step("RaiseWindow", w, "z_order" \notin can)
    <2>2. a \in RestoreStep /\ a.kind = "RaiseWindow"
      BY <1>0 DEF Step, RestoreStep, Kinds
    <2> HIDE DEF a
    <2>3. steps' = steps \o <<a>>
      BY <1>0, <2>1, <2>2 DEF a
    <2>4. <<a>> \in Seq(RestoreStep) /\ \A i \in DOMAIN <<a>> : <<a>>[i].kind = "RaiseWindow"
      BY <2>2
    <2>5. \E t \in Seq(RestoreStep) :
            /\ steps' = steps \o t
            /\ \A i \in DOMAIN t :
                  t[i].kind \notin {"LaunchProcess", "WaitForWindow", "MoveWindow"}
      BY <2>3, <2>4
    <2> QED
      BY <1>1, <2>5 DEF PlanRaise, request
  <1>2. CASE PlanClosing
    <2>1. PICK t \in Seq(RestoreStep) :
            /\ steps' = steps \o t
            /\ \A i \in DOMAIN t : t[i].kind \in {"WarpCursor", "FocusWindow"}
      BY <1>2, ClosingAdds
    <2>2. \A i \in DOMAIN t : t[i].kind \notin {"LaunchProcess", "WaitForWindow", "MoveWindow"}
      BY <2>1, SMTT(30)
    <2> QED
      BY <1>2, <2>1, <2>2 DEF PlanClosing, request
  <1>3. CASE PlanOrder \/ Look \/ MatchWindow \/ StartSteps \/ Finish
    BY <1>3 DEF PlanOrder, Look, MatchWindow, StartSteps, Finish, request
  <1>4. CASE Execute
    BY <1>4 DEF Execute, SkipStep, WarpCursor, LaunchProcess, WaitForWindow, MoveWindow,
                AdjustWindow, RestoreTabs, RaiseWindow, FocusWindow, Current, request
  <1>5. CASE Desktop
    BY <1>5 DEF Desktop, UserOpens, UserCloses, AppOpensWindow, Comes, request
  <1>6. CASE UNCHANGED vars
    BY <1>6 DEF vars, request
  <1> QED
    BY <1>1, <1>2, <1>3, <1>4, <1>5, <1>6 DEF Next, Engine

\* Every step keeps the shape of the plan.
LEMMA PlanInvStep ==
    ASSUME TypeOK, PlanInv, [Next]_vars
    PROVE  PlanInv'
  <1>1. CASE PlanWindow
    BY <1>1, PlanWindowStep
  <1>2. CASE UNCHANGED <<steps, options>> /\ (pc' # "planning" \/ UNCHANGED <<pc, next>>)
    BY <1>2 DEF PlanInv, Step
  <1>3. ASSUME NEW t \in Seq(RestoreStep), UNCHANGED options, pc' # "planning",
               steps' = steps \o t,
               \A i \in DOMAIN t :
                   t[i].kind \notin {"LaunchProcess", "WaitForWindow", "MoveWindow"}
        PROVE  PlanInv'
    BY <1>3, PlanTail
  <1> QED
    BY <1>1, <1>2, <1>3, PlanGrows

------------------------------------------------------------------------------
(* Execution.                                                                *)

\* What the steps of execution have in common.
LEMMA CurrentStep ==
    ASSUME NEW k, NEW w, Current(k, w)
    PROVE  /\ pc = "executing" /\ pc' = "executing" /\ next \in DOMAIN steps /\ next' = next + 1
           /\ steps[next].kind = k /\ steps[next].target = w /\ ~steps[next].skipped
           /\ UNCHANGED <<options, seen, used, steps, monitors>>
  BY DEF Current, Pass, request

\* The steps of execution that put a window on top at most.
Restack ==
    /\ pc = "executing" /\ pc' = "executing" /\ next \in DOMAIN steps /\ next' = next + 1
    /\ UNCHANGED <<unborn, owner, options, seen, used, steps, monitors, handles, pids, frame>>
    /\ UNCHANGED desk \/ \E w \in Window : handles[w] # None /\ OnTop(handles[w])

\* The planning of windows, their order and the rest.
Planning ==
    /\ pc \in {"planning", "ordering"} /\ pc' \in {"planning", "ordering", "closing", "done"}
    /\ UNCHANGED <<world, options, seen, monitors, handles, pids, frame>>

\* The actions, as far as windows, handles and frames are concerned.
LEMMA StepKinds ==
    ASSUME [Next]_vars
    PROVE  \/ Planning \/ Look \/ MatchWindow \/ StartSteps \/ Finish \/ Restack
           \/ \E w \in Window : LaunchProcess(w) \/ WaitForWindow(w) \/ MoveWindow(w)
           \/ Desktop \/ UNCHANGED vars
  <1>1. CASE PlanWindow \/ PlanOrder \/ PlanRaise \/ PlanClosing
    BY <1>1 DEF PlanWindow, PlanOrder, PlanRaise, PlanClosing, Planning, request
  <1>2. CASE SkipStep
    BY <1>2 DEF SkipStep, Restack, world, request, Pass
  <1>3. CASE WarpCursor
    BY <1>3, CurrentStep DEF WarpCursor, Restack, world
  <1>4. ASSUME NEW w \in Window, AdjustWindow(w) \/ RestoreTabs(w) PROVE Restack
    BY <1>4, CurrentStep DEF AdjustWindow, RestoreTabs, Restack, world
  <1>5. ASSUME NEW w \in Window, RaiseWindow(w) \/ FocusWindow(w) PROVE Restack
    <2>1. /\ pc = "executing" /\ pc' = "executing" /\ next \in DOMAIN steps /\ next' = next + 1
          /\ UNCHANGED <<options, seen, used, steps, monitors>>
      BY <1>5, CurrentStep DEF RaiseWindow, FocusWindow
    <2> QED
      BY <1>5, <2>1 DEF RaiseWindow, FocusWindow, Restack
  <1> QED
    BY <1>1, <1>2, <1>3, <1>4, <1>5 DEF Next, Engine, Execute

\* A window on screen, listed or driven keeps being an old one.
LEMMA BornStep ==
    ASSUME TypeOK, BornInv, [Next]_vars
    PROVE  BornInv'
  <1>t. DeskType /\ PlanType /\ ExecutionType
    BY DEF TypeOK
  <1>1. CASE Planning
    BY <1>1 DEF Planning, world, BornInv
  <1>2. CASE Look
    <2>1. \A i \in DOMAIN seen' : \E j \in DOMAIN desk : seen'[i] = desk[j]
      BY <1>2, <1>t, EnumerationType DEF Look
    <2> QED
      BY <1>2, <2>1 DEF Look, world, BornInv
  <1>3. CASE MatchWindow
    <2>1. \A h \in BestLiveMatch(next) : h \in Handle /\ \E i \in DOMAIN seen : seen[i] = h
      BY <1>3, <1>t, MatchType DEF MatchWindow
    <2>2. \A w \in Window : handles'[w] = handles[w] \/ handles'[w] \in BestLiveMatch(next)
      BY <1>3, <1>t DEF MatchWindow, ExecutionType
    <2>3. \A w \in Window : handles'[w] # None => handles'[w] \notin unborn
      BY <1>3, <2>1, <2>2 DEF MatchWindow, BornInv
    <2> QED
      BY <1>3, <2>3 DEF MatchWindow, world, BornInv
  <1>4. CASE StartSteps \/ Finish
    BY <1>4 DEF StartSteps, Finish, world, BornInv
  <1>5. CASE Restack
    <2>1. CASE UNCHANGED desk
      BY <1>5, <2>1 DEF Restack, BornInv
    <2>2. ASSUME NEW w \in Window, handles[w] # None, OnTop(handles[w]) PROVE BornInv'
      <3>1. CASE UNCHANGED desk
        BY <1>5, <3>1 DEF Restack, BornInv
      <3>2. ASSUME NEW k \in DOMAIN desk, desk' = Append(Without(k), handles[w]) PROVE BornInv'
        <4>1. /\ Without(k) \in Seq(Handle)
              /\ \A i \in DOMAIN Without(k) : \E j \in DOMAIN desk : Without(k)[i] = desk[j]
          BY <1>t, <3>2, WithoutType
        <4>2. \A i \in DOMAIN desk' :
                desk'[i] = handles[w] \/ \E j \in DOMAIN desk : desk'[i] = desk[j]
          BY <3>2, <4>1
        <4> QED
          BY <1>5, <2>2, <4>2 DEF Restack, BornInv
      <3> QED
        BY <2>2, <3>1, <3>2 DEF OnTop
    <2> QED
      BY <1>5, <2>1, <2>2 DEF Restack
  <1>6. ASSUME NEW w \in Window, LaunchProcess(w) \/ MoveWindow(w) PROVE BornInv'
    BY <1>6, CurrentStep DEF LaunchProcess, MoveWindow, world, BornInv
  <1>7. ASSUME NEW w \in Window, WaitForWindow(w) PROVE BornInv'
    <2>1. \A v \in Window : handles'[v] = handles[v] \/ On(handles'[v])
      BY <1>7, <1>t DEF WaitForWindow, ExecutionType, Appeared
    <2>2. pc' = "executing" /\ UNCHANGED <<desk, unborn>>
      BY <1>7, CurrentStep DEF WaitForWindow, world
    <2> QED
      BY <2>1, <2>2 DEF BornInv, On
  <1>8. ASSUME NEW h \in Handle, NEW w, Comes(h, w) PROVE BornInv'
    <2>1. \A i \in DOMAIN desk' : desk'[i] = h \/ \E j \in DOMAIN desk : desk'[i] = desk[j]
      BY <1>8, <1>t DEF Comes, DeskType
    <2>2. h \notin unborn' /\ unborn' \subseteq unborn
      BY <1>8 DEF Comes
    <2> QED
      BY <1>8, <2>1, <2>2 DEF Comes, BornInv
  <1>9. ASSUME NEW h \in Handle, UserCloses(h) PROVE BornInv'
    <2>1. \A i \in DOMAIN desk' : \E j \in DOMAIN desk : desk'[i] = desk[j]
      BY <1>9, <1>t, WithoutType DEF UserCloses
    <2> QED
      BY <1>9, <2>1 DEF UserCloses, BornInv
  <1>10. CASE UNCHANGED vars
    BY <1>10 DEF vars, world, BornInv
  <1> QED
    BY <1>1, <1>2, <1>3, <1>4, <1>5, <1>6, <1>7, <1>8, <1>9, <1>10, StepKinds
       DEF Desktop, UserOpens, AppOpensWindow

\* Nothing is touched before the steps.
LEMMA UntouchedStep ==
    ASSUME TypeOK, UntouchedInv, [Next]_vars
    PROVE  UntouchedInv'
  <1>t. DeskType /\ ExecutionType
    BY DEF TypeOK
  <1>1. CASE Planning
    BY <1>1 DEF Planning, world, UntouchedInv
  <1>2. CASE Look \/ MatchWindow \/ StartSteps \/ Finish
    BY <1>2 DEF Look, MatchWindow, StartSteps, Finish, world, UntouchedInv
  <1>3. CASE Restack
    BY <1>3 DEF Restack, UntouchedInv
  <1>4. ASSUME NEW w \in Window, LaunchProcess(w) \/ WaitForWindow(w) \/ MoveWindow(w)
        PROVE  UntouchedInv'
    <2>1. pc' = "executing"
      BY <1>4, CurrentStep DEF LaunchProcess, WaitForWindow, MoveWindow
    <2> QED
      BY <2>1 DEF UntouchedInv
  <1>5. CASE Desktop
    <2>1. UNCHANGED <<pc, pids, handles, frame>>
      BY <1>5 DEF Desktop, UserOpens, UserCloses, AppOpensWindow, Comes
    <2>2. pids = {} => \A h \in Handle : owner[h] = None => owner'[h] = None
      BY <1>5, <1>t DEF Desktop, UserOpens, UserCloses, AppOpensWindow, Comes, DeskType
    <2> QED
      BY <2>1, <2>2 DEF UntouchedInv
  <1>6. CASE UNCHANGED vars
    BY <1>6 DEF vars, world, UntouchedInv
  <1> QED
    BY <1>1, <1>2, <1>3, <1>4, <1>5, <1>6, StepKinds

\* Matching stays one to one.
LEMMA MatchStep ==
    ASSUME TypeOK, UntouchedInv, MatchInv, [Next]_vars
    PROVE  MatchInv'
  <1>t. PlanType /\ ExecutionType
    BY DEF TypeOK
  <1>1. CASE pc' # "matching"
    BY <1>1 DEF MatchInv
  <1>2. CASE Look
    BY <1>2 DEF Look, MatchInv, UntouchedInv
  <1>3. CASE MatchWindow
    <2>0. pc = "matching" /\ next \in Window /\ next' = next + 1
      BY <1>3 DEF MatchWindow, Pass
    <2>1. CASE UNCHANGED <<handles, used>>
      BY <2>0, <2>1, RestoreAssumption DEF MatchInv, Window
    <2>2. ASSUME NEW h \in BestLiveMatch(next), handles' = [handles EXCEPT ![next] = h],
                 used' = used \cup {h}
          PROVE  MatchInv'
      <3>1. h \in Handle /\ h \notin used /\ h # None
        BY <1>t, <2>0, <2>2, MatchType, RestoreAssumption
      <3>2. handles'[next] = h /\ \A w \in Window \ {next} : handles'[w] = handles[w]
        BY <1>t, <2>0, <2>2 DEF ExecutionType
      <3>3. \A w \in Window : handles'[w] # None => handles'[w] \in used'
        BY <2>0, <2>2, <3>2 DEF MatchInv
      <3>4. \A w \in Window : handles'[w] # None => w < next'
        <4>1. next \in Nat /\ Window \subseteq Nat
          BY <2>0, RestoreAssumption DEF Window
        <4>2. ASSUME NEW w \in Window \ {next}, handles'[w] # None PROVE w < next'
          <5>1. w \in Nat /\ w < next
            BY <2>0, <3>2, <4>1, <4>2 DEF MatchInv
          <5> QED
            BY <2>0, <4>1, <5>1
        <4>3. next < next'
          BY <2>0, <4>1
        <4> QED
          BY <4>2, <4>3
      <3>5. \A w \in Window \ {next} : handles'[w] # None => handles'[w] # h
        BY <2>0, <3>1, <3>2 DEF MatchInv
      <3>6. \A v, w \in Window : v # w /\ handles'[v] = handles'[w] => handles'[v] = None
        BY <2>0, <3>2, <3>5, <3>1 DEF MatchInv
      <3> QED
        BY <3>3, <3>4, <3>6 DEF MatchInv
    <2> QED
      BY <1>3, <2>1, <2>2 DEF MatchWindow
  <1>4. CASE Desktop \/ UNCHANGED vars
    BY <1>4 DEF Desktop, UserOpens, UserCloses, AppOpensWindow, Comes, vars, MatchInv
  <1>5. ASSUME Planning \/ StartSteps \/ Finish \/ Restack PROVE pc' # "matching"
    BY <1>5 DEF Planning, StartSteps, Finish, Restack
  <1>6. ASSUME NEW w \in Window, LaunchProcess(w) \/ WaitForWindow(w) \/ MoveWindow(w)
        PROVE  pc' # "matching"
    BY <1>6, CurrentStep DEF LaunchProcess, WaitForWindow, MoveWindow
  <1> QED
    BY <1>1, <1>2, <1>3, <1>4, <1>5, <1>6, StepKinds

------------------------------------------------------------------------------
(* Whom the handles belong to.                                               *)

\* The plan of a process: a wait is behind its launch, and there is only one.
LEMMA WaitsOnce ==
    ASSUME TypeOK, PlanInv, NEW i \in DOMAIN steps, NEW j \in DOMAIN steps, NEW w,
           steps[i] = Step("WaitForWindow", w, FALSE)
    PROVE  /\ w \in options.selected
           /\ steps[j].kind = "LaunchProcess" /\ steps[j].target = w => j < i
           /\ steps[j] = Step("WaitForWindow", w, FALSE) => j = i
  <1>1. DOMAIN steps \subseteq Nat /\ DOMAIN steps = 1..Len(steps) /\ Len(steps) \in Nat
    BY DEF TypeOK, PlanType
  <1>2. i - 1 \in DOMAIN steps /\ steps[i - 1].kind = "LaunchProcess" /\ steps[i - 1].target = w
    <2>1. steps[i].kind = "WaitForWindow" /\ ~steps[i].skipped /\ steps[i].target = w
      BY DEF Step
    <2>2. i > 1 /\ steps[i - 1] = Step("LaunchProcess", w, FALSE)
      BY <2>1 DEF PlanInv
    <2> QED
      BY <1>1, <2>2 DEF Step
  <1>3. ASSUME steps[j].kind = "LaunchProcess", steps[j].target = w PROVE j < i
    <2>1. j = i - 1
      BY <1>2, <1>3 DEF PlanInv
    <2> QED
      BY <1>1, <2>1
  <1>4. ASSUME steps[j] = Step("WaitForWindow", w, FALSE) PROVE j = i
    <2>1. steps[j].kind = "WaitForWindow" /\ ~steps[j].skipped /\ steps[j].target = w
      BY <1>4 DEF Step
    <2>2. j > 1 /\ steps[j - 1] = Step("LaunchProcess", w, FALSE)
      BY <2>1 DEF PlanInv
    <2>3. j - 1 \in DOMAIN steps /\ steps[j - 1].kind = "LaunchProcess"
          /\ steps[j - 1].target = w
      BY <1>1, <2>2 DEF Step
    <2>4. j - 1 = i - 1
      BY <1>2, <2>3 DEF PlanInv
    <2> QED
      BY <1>1, <2>4
  <1>5. w \in options.selected
    BY DEF PlanInv, Step
  <1> QED
    BY <1>3, <1>4, <1>5

\* Once a window was guessed it stays so: its launch is behind.
LEMMA GuessedStays ==
    ASSUME TypeOK, PlanInv, UNCHANGED steps, next' \in {next, next + 1},
           \/ UNCHANGED pids
           \/ \E u : pids' = pids \cup {u} /\ next \in DOMAIN steps
                     /\ steps[next].kind = "LaunchProcess" /\ steps[next].target = u,
           NEW w, Guessed(w)
    PROVE  Guessed(w)'
  <1>0. next \in Nat /\ DOMAIN steps \subseteq Nat
    BY DEF TypeOK, PlanType
  <1>1. PICK i \in DOMAIN steps : i < next /\ steps[i] = Step("WaitForWindow", w, FALSE)
    BY DEF Guessed
  <1>2. i < next'
    BY <1>0, <1>1
  <1>3. w \notin pids'
    <2>1. w \notin pids
      BY DEF Guessed
    <2>2. ASSUME NEW u, pids' = pids \cup {u}, next \in DOMAIN steps,
                 steps[next].kind = "LaunchProcess", steps[next].target = u
          PROVE  w # u
      <3>1. w = u => next < i
        BY <1>1, <2>2, WaitsOnce
      <3> QED
        BY <1>0, <1>1, <3>1
    <2> QED
      BY <2>1, <2>2
  <1> QED
    BY <1>1, <1>2, <1>3 DEF Guessed, Step

\* A wait is reached once, and is a guess from then on when there is no pid.
LEMMA WaitIsNew ==
    ASSUME TypeOK, PlanInv, NEW w \in Window, WaitForWindow(w)
    PROVE  /\ w \in options.selected
           /\ ~Guessed(w)
           /\ w \notin pids => Guessed(w)'
  <1>1. /\ next \in DOMAIN steps /\ next' = next + 1 /\ UNCHANGED <<steps, pids>>
        /\ steps[next].kind = "WaitForWindow" /\ steps[next].target = w /\ ~steps[next].skipped
    BY CurrentStep DEF WaitForWindow
  <1>2. next \in Nat /\ steps[next] \in RestoreStep
    BY <1>1 DEF TypeOK, PlanType
  <1>3. steps[next] = Step("WaitForWindow", w, FALSE)
    BY <1>1, <1>2 DEF Step, RestoreStep
  <1>4. ~Guessed(w)
    <2> SUFFICES ASSUME NEW i \in DOMAIN steps, i < next,
                        steps[i] = Step("WaitForWindow", w, FALSE)
                 PROVE  FALSE
      BY DEF Guessed
    <2>1. i = next
      BY <1>1, <1>3, WaitsOnce
    <2> QED
      BY <1>2, <2>1
  <1>5. w \notin pids => Guessed(w)'
    BY <1>1, <1>2, <1>3 DEF Guessed, Step
  <1> QED
    BY <1>1, <1>3, <1>4, <1>5, WaitsOnce

\* The step of a launch, and what it leaves alone.
LEMMA LaunchKeeps ==
    ASSUME NEW w \in Window, LaunchProcess(w)
    PROVE  /\ UNCHANGED <<options, steps, handles, frame, owner>>
           /\ pc = "executing" /\ next' = next + 1
           /\ \/ UNCHANGED pids
              \/ \E u : pids' = pids \cup {u} /\ next \in DOMAIN steps
                        /\ steps[next].kind = "LaunchProcess" /\ steps[next].target = u
  <1>1. /\ pc = "executing" /\ next' = next + 1 /\ next \in DOMAIN steps
        /\ steps[next].kind = "LaunchProcess" /\ steps[next].target = w
        /\ UNCHANGED <<options, steps>>
    BY CurrentStep DEF LaunchProcess
  <1> QED
    BY <1>1 DEF LaunchProcess, world

\* Execution keeps the handles apart, except for guesses.
LEMMA DriveStep ==
    ASSUME TypeOK, BornInv, UntouchedInv, MatchInv, PlanInv, DriveInv, OneToOne, [Next]_vars
    PROVE  DriveInv' /\ OneToOne'
  <1>t. DeskType /\ ExecutionType /\ next \in Nat
    BY DEF TypeOK, PlanType
  <1>n. None \notin Window /\ None \notin Handle
    BY RestoreAssumption
  <1>1. CASE pc' # "executing"
    BY <1>1 DEF DriveInv, OneToOne
  <1>2. CASE StartSteps
    <2>1. /\ pc = "matching" /\ UNCHANGED <<handles, owner>>
      BY <1>2 DEF StartSteps, world
    <2>2. \A w \in Window : handles[w] # None => owner[handles[w]] = None
      BY <1>t, <2>1 DEF UntouchedInv, ExecutionType
    <2> QED
      BY <2>1, <2>2 DEF DriveInv, OneToOne, MatchInv
  <1>3. ASSUME pc = "executing", UNCHANGED <<handles, owner>>,
               \A w \in Window : Guessed(w) => Guessed(w)'
        PROVE  DriveInv' /\ OneToOne'
    <2>1. \A v, w \in Window :
            v # w /\ handles[v] = handles[w] /\ handles[v] # None => Guessed(v) \/ Guessed(w)
      BY <1>3 DEF OneToOne
    <2>2. \A w \in Window :
            handles[w] # None /\ ~Guessed(w) => owner[handles[w]] \in {None, w}
      BY <1>3 DEF DriveInv
    <2>3. \A v, w \in Window :
            v # w /\ handles'[v] = handles'[w] /\ handles'[v] # None =>
                Guessed(v)' \/ Guessed(w)'
      BY <1>3, <2>1
    <2>4. \A w \in Window :
            handles'[w] # None /\ ~Guessed(w)' => owner'[handles'[w]] \in {None, w}
      BY <1>3, <2>2
    <2> QED
      BY <2>3, <2>4 DEF DriveInv, OneToOne
  <1>4. CASE Restack
    <2>1. pc = "executing" /\ next' = next + 1 /\ UNCHANGED <<steps, pids, handles, owner>>
      BY <1>4 DEF Restack
    <2>2. \A w \in Window : Guessed(w) => Guessed(w)'
      BY <2>1, GuessedStays
    <2> QED
      BY <1>3, <2>1, <2>2
  <1>5. ASSUME NEW w \in Window, LaunchProcess(w) PROVE DriveInv' /\ OneToOne'
    <2>1. \A v \in Window : Guessed(v) => Guessed(v)'
      BY <1>5, LaunchKeeps, GuessedStays
    <2> QED
      BY <1>3, <1>5, <2>1, LaunchKeeps
  <1>6. ASSUME NEW w \in Window, MoveWindow(w) PROVE DriveInv' /\ OneToOne'
    <2>1. pc = "executing" /\ next' = next + 1 /\ UNCHANGED <<steps, pids, handles, owner>>
      BY <1>6, CurrentStep DEF MoveWindow, world
    <2>2. \A v \in Window : Guessed(v) => Guessed(v)'
      BY <2>1, GuessedStays
    <2> QED
      BY <1>3, <2>1, <2>2
  <1>7. ASSUME NEW w \in Window, WaitForWindow(w) PROVE DriveInv' /\ OneToOne'
    <2>1. pc = "executing" /\ next' = next + 1 /\ UNCHANGED <<steps, pids, owner>>
      BY <1>7, CurrentStep DEF WaitForWindow, world
    <2>2. \A v \in Window : Guessed(v) => Guessed(v)'
      BY <2>1, GuessedStays
    <2>3. CASE UNCHANGED handles
      BY <1>3, <2>1, <2>2, <2>3
    <2>4. ASSUME NEW h \in Appeared(w), handles' = [handles EXCEPT ![w] = h]
          PROVE  DriveInv' /\ OneToOne'
      <3>1. handles'[w] = h /\ \A v \in Window \ {w} : handles'[v] = handles[v]
        BY <1>t, <2>4 DEF ExecutionType
      <3>2. Guessed(w)' \/ (w \in pids /\ owner[h] = w)
        BY <1>7, <2>4, WaitIsNew DEF Appeared
      <3>3. ASSUME NEW v \in Window \ {w}, handles[v] = h, h # None
            PROVE  Guessed(v)' \/ Guessed(w)'
        <4>1. CASE owner[h] = w
          <5>1. ~Guessed(v) => owner[h] \in {None, v}
            BY <2>1, <3>3 DEF DriveInv
          <5>2. Guessed(v)
            BY <1>n, <3>3, <4>1, <5>1
          <5> QED
            BY <2>2, <5>2
        <4> QED
          BY <3>2, <4>1
      <3>4. \A u, v \in Window :
              u # v /\ handles'[u] = handles'[v] /\ handles'[u] # None =>
                  Guessed(u)' \/ Guessed(v)'
        <4> SUFFICES ASSUME NEW u \in Window, NEW v \in Window, u # v,
                            handles'[u] = handles'[v], handles'[u] # None
                     PROVE  Guessed(u)' \/ Guessed(v)'
          OBVIOUS
        <4>1. CASE u = w
          BY <3>1, <3>3, <4>1
        <4>2. CASE v = w
          BY <3>1, <3>3, <4>2
        <4>3. CASE u # w /\ v # w
          <5>1. Guessed(u) \/ Guessed(v)
            BY <2>1, <3>1, <4>3 DEF OneToOne
          <5> QED
            BY <2>2, <5>1
        <4> QED
          BY <4>1, <4>2, <4>3
      <3>5. \A v \in Window :
              handles'[v] # None /\ ~Guessed(v)' => owner'[handles'[v]] \in {None, v}
        <4> SUFFICES ASSUME NEW v \in Window, handles'[v] # None, ~Guessed(v)'
                     PROVE  owner[handles'[v]] \in {None, v}
          BY <2>1
        <4>1. CASE v = w
          BY <3>1, <3>2, <4>1
        <4>2. CASE v # w
          BY <2>1, <2>2, <3>1, <4>2 DEF DriveInv
        <4> QED
          BY <4>1, <4>2
      <3> QED
        BY <3>4, <3>5 DEF DriveInv, OneToOne
    <2> QED
      BY <1>7, <2>3, <2>4 DEF WaitForWindow
  <1>8. CASE Desktop
    <2>1. UNCHANGED <<pc, next, steps, pids, handles>>
      BY <1>8 DEF Desktop, UserOpens, UserCloses, AppOpensWindow, Comes
    <2>2. \A h \in Handle : h \notin unborn => owner'[h] = owner[h]
      BY <1>8, <1>t DEF Desktop, UserOpens, UserCloses, AppOpensWindow, Comes, DeskType
    <2>3. \A w \in Window : Guessed(w)' <=> Guessed(w)
      BY <2>1 DEF Guessed
    <2>4. \A w \in Window : handles[w] # None => owner'[handles[w]] = owner[handles[w]]
      BY <1>t, <2>2 DEF BornInv, ExecutionType
    <2>5. OneToOne'
      BY <2>1, <2>3 DEF OneToOne
    <2>6. DriveInv'
      BY <2>1, <2>3, <2>4 DEF DriveInv
    <2> QED
      BY <2>5, <2>6
  <1>9. CASE UNCHANGED vars
    BY <1>9 DEF vars, world, DriveInv, OneToOne, Guessed, Step
  <1>10. ASSUME Planning \/ Look \/ MatchWindow \/ Finish PROVE pc' # "executing"
    BY <1>10 DEF Planning, Look, MatchWindow, Finish
  <1> QED
    BY <1>1, <1>2, <1>4, <1>5, <1>6, <1>7, <1>8, <1>9, <1>10, StepKinds

\* Windows outside the selection are moved as guesses only.
LEMMA StayStep ==
    ASSUME TypeOK, UntouchedInv, PlanInv, OneToOne, UnselectedStay, [Next]_vars
    PROVE  UnselectedStay'
  <1>t. ExecutionType /\ next \in Nat /\ options.selected \subseteq Window
    BY DEF TypeOK, PlanType, RequestType, RestoreOptions
  <1>1. CASE pc' # "executing"
    BY <1>1 DEF UnselectedStay
  <1>2. CASE StartSteps
    <2>1. pc = "matching" /\ UNCHANGED <<handles, frame>>
      BY <1>2 DEF StartSteps
    <2>2. \A w \in Window : handles[w] # None => frame[handles[w]] = None
      BY <1>t, <2>1 DEF UntouchedInv, ExecutionType
    <2> QED
      BY <2>1, <2>2 DEF UnselectedStay
  <1>3. ASSUME pc = "executing", UNCHANGED <<options, handles, frame>>,
               \A w \in Window : Guessed(w) => Guessed(w)'
        PROVE  UnselectedStay'
    <2> SUFFICES ASSUME NEW v \in Window \ options.selected, handles[v] # None,
                        frame[handles[v]] # None
                 PROVE  \E w \in options.selected : handles[w] = handles[v] /\ Guessed(w)'
      BY <1>3 DEF UnselectedStay
    <2>1. PICK w \in options.selected : handles[w] = handles[v] /\ Guessed(w)
      BY <1>3 DEF UnselectedStay
    <2> QED
      BY <1>t, <1>3, <2>1
  <1>4. CASE Restack
    <2>1. pc = "executing" /\ next' = next + 1
          /\ UNCHANGED <<options, steps, pids, handles, frame>>
      BY <1>4 DEF Restack
    <2>2. \A w \in Window : Guessed(w) => Guessed(w)'
      BY <2>1, GuessedStays
    <2> QED
      BY <1>3, <2>1, <2>2
  <1>5. ASSUME NEW w \in Window, LaunchProcess(w) PROVE UnselectedStay'
    <2>1. \A v \in Window : Guessed(v) => Guessed(v)'
      BY <1>5, LaunchKeeps, GuessedStays
    <2> QED
      BY <1>3, <1>5, <2>1, LaunchKeeps
  <1>6. ASSUME NEW w \in Window, MoveWindow(w) PROVE UnselectedStay'
    <2>1. /\ pc = "executing" /\ next' = next + 1 /\ next \in DOMAIN steps
          /\ steps[next].kind = "MoveWindow" /\ steps[next].target = w
          /\ UNCHANGED <<options, steps, pids, handles>>
      BY <1>6, CurrentStep DEF MoveWindow
    <2>2. \A v \in Window : Guessed(v) => Guessed(v)'
      BY <2>1, GuessedStays
    <2>3. w \in options.selected
      BY <2>1 DEF PlanInv
    <2>4. CASE UNCHANGED frame
      BY <1>3, <2>1, <2>2, <2>4
    <2>5. ASSUME NEW v \in Window \ options.selected, handles[v] # None,
                 frame'[handles[v]] # None, handles[w] # None,
                 \A h \in Handle \ {handles[w]} : frame'[h] = frame[h]
          PROVE  \E u \in options.selected : handles[u] = handles[v] /\ Guessed(u)'
      <3>1. CASE handles[v] # handles[w]
        <4>1. frame[handles[v]] # None
          BY <1>t, <2>5, <3>1 DEF ExecutionType
        <4>2. PICK u \in options.selected : handles[u] = handles[v] /\ Guessed(u)
          BY <2>1, <2>5, <4>1 DEF UnselectedStay
        <4> QED
          BY <1>t, <2>2, <4>2
      <3>2. CASE handles[v] = handles[w]
        <4>1. Guessed(v) \/ Guessed(w)
          BY <2>1, <2>3, <2>5, <3>2 DEF OneToOne
        <4>2. ~Guessed(v)
          BY <2>5, WaitsOnce DEF Guessed
        <4> QED
          BY <2>2, <2>3, <3>2, <4>1, <4>2
      <3> QED
        BY <3>1, <3>2
    <2>6. UNCHANGED frame
          \/ (handles[w] # None /\ \A h \in Handle \ {handles[w]} : frame'[h] = frame[h])
      BY <1>6, <1>t DEF MoveWindow, ExecutionType
    <2> QED
      BY <2>1, <2>4, <2>5, <2>6 DEF UnselectedStay
  <1>7. ASSUME NEW w \in Window, WaitForWindow(w) PROVE UnselectedStay'
    <2>1. pc = "executing" /\ next' = next + 1
          /\ UNCHANGED <<options, steps, pids, frame>>
      BY <1>7, CurrentStep DEF WaitForWindow
    <2>2. \A v \in Window : Guessed(v) => Guessed(v)'
      BY <2>1, GuessedStays
    <2>3. w \in options.selected /\ ~Guessed(w)
      BY <1>7, WaitIsNew
    <2>4. \A v \in Window \ {w} : handles'[v] = handles[v]
      BY <1>7, <1>t DEF WaitForWindow, ExecutionType
    <2> SUFFICES ASSUME NEW v \in Window \ options.selected, handles'[v] # None,
                        frame[handles'[v]] # None
                 PROVE  \E u \in options.selected : handles'[u] = handles'[v] /\ Guessed(u)'
      BY <2>1 DEF UnselectedStay
    <2>5. handles'[v] = handles[v]
      BY <2>3, <2>4
    <2>6. PICK u \in options.selected : handles[u] = handles[v] /\ Guessed(u)
      BY <2>1, <2>5 DEF UnselectedStay
    <2>7. u \in Window /\ u # w /\ handles'[u] = handles[u]
      BY <1>t, <2>3, <2>4, <2>6
    <2> QED
      BY <2>2, <2>5, <2>6, <2>7
  <1>8. CASE Desktop
    <2>1. UNCHANGED <<pc, next, options, steps, pids, handles, frame>>
      BY <1>8 DEF Desktop, UserOpens, UserCloses, AppOpensWindow, Comes, request
    <2>2. \A w : Guessed(w)' <=> Guessed(w)
      BY <2>1 DEF Guessed
    <2> QED
      BY <2>1, <2>2 DEF UnselectedStay
  <1>9. CASE UNCHANGED vars
    BY <1>9 DEF vars, request, UnselectedStay, Guessed, Step
  <1>10. ASSUME Planning \/ Look \/ MatchWindow \/ Finish PROVE pc' # "executing"
    BY <1>10 DEF Planning, Look, MatchWindow, Finish
  <1> QED
    BY <1>1, <1>2, <1>4, <1>5, <1>6, <1>7, <1>8, <1>9, <1>10, StepKinds

------------------------------------------------------------------------------
(* Where the windows are put.                                                *)

\* A clamped frame lies in one of the work areas.
LEMMA ClampedOnScreen ==
    ASSUME NEW r \in Rect, NEW areas \in Seq(Rect), areas # <<>>,
           NEW t \in ClampToMonitors(r, areas)
    PROVE  \E i \in DOMAIN areas : Inside(t, areas[i])
  <1>1. PICK i \in DOMAIN areas : t = ClampInto(r, areas[i])
    BY DEF ClampToMonitors, TargetMonitor
  <1>2. areas[i] \in Rect
    OBVIOUS
  <1> QED
    BY <1>1, <1>2, ClampedInside

\* Every step leaves the placed windows on the displays.
LEMMA PlacedStep ==
    ASSUME TypeOK, UntouchedInv, PlacedOnScreen, [Next]_vars
    PROVE  PlacedOnScreen'
  <1>t. ExecutionType
    BY DEF TypeOK
  <1>1. CASE UNCHANGED <<frame, monitors>>
    BY <1>1 DEF PlacedOnScreen
  <1>2. CASE Look
    BY <1>2 DEF Look, UntouchedInv, PlacedOnScreen
  <1>3. ASSUME NEW w \in Window, MoveWindow(w) PROVE PlacedOnScreen'
    <2>1. UNCHANGED monitors
      BY <1>3, CurrentStep DEF MoveWindow
    <2>2. CASE UNCHANGED frame
      BY <1>1, <2>1, <2>2
    <2>3. ASSUME NEW t \in ClampToMonitors(SavedFrame[w], monitors),
                 \A h \in Handle : frame'[h] = frame[h] \/ frame'[h] = t
          PROVE  PlacedOnScreen'
      <3> SUFFICES ASSUME monitors # <<>>, NEW h \in Handle, frame'[h] # None
                   PROVE  \E i \in DOMAIN monitors : Inside(frame'[h], monitors[i])
        BY <2>1 DEF PlacedOnScreen
      <3>1. CASE frame'[h] = frame[h]
        BY <3>1 DEF PlacedOnScreen
      <3>2. CASE frame'[h] = t
        <4>1. SavedFrame[w] \in Rect /\ monitors \in Seq(Rect)
          BY <1>t, RestoreAssumption DEF ExecutionType
        <4> QED
          BY <2>3, <3>2, <4>1, ClampedOnScreen
      <3> QED
        BY <2>3, <3>1, <3>2
    <2>4. UNCHANGED frame
          \/ \E t \in ClampToMonitors(SavedFrame[w], monitors) :
                \A h \in Handle : frame'[h] = frame[h] \/ frame'[h] = t
      BY <1>3, <1>t DEF MoveWindow, ExecutionType
    <2> QED
      BY <2>2, <2>3, <2>4
  <1>4. CASE Planning \/ MatchWindow \/ StartSteps \/ Finish \/ Restack
    BY <1>1, <1>4 DEF Planning, MatchWindow, StartSteps, Finish, Restack
  <1>5. ASSUME NEW w \in Window, LaunchProcess(w) \/ WaitForWindow(w) PROVE PlacedOnScreen'
    BY <1>1, <1>5, CurrentStep DEF LaunchProcess, WaitForWindow
  <1>6. CASE Desktop \/ UNCHANGED vars
    BY <1>1, <1>6 DEF Desktop, UserOpens, UserCloses, AppOpensWindow, Comes, vars
  <1> QED
    BY <1>2, <1>3, <1>4, <1>5, <1>6, StepKinds

------------------------------------------------------------------------------
(* What the report says.                                                     *)

\* A report only grows, and what a step adds is accounted for.
LEMMA ReportGrows ==
    ASSUME report \in RestoreReport, NEW w
    PROVE  /\ Warn(w) => Accounted' = Accounted \cup {w}
           /\ Fail(w) => Accounted' = Accounted \cup {w}
           /\ report' = [report EXCEPT !.windows_restored = @ + 1, !.placed = @ \cup {w}] =>
                 Accounted' = Accounted \cup {w}
           /\ report' = [report EXCEPT !.apps_launched = @ + 1] => Accounted' = Accounted
  <1>1. ASSUME Warn(w) PROVE Accounted' = Accounted \cup {w}
    <2>1. /\ report'.warnings = report.warnings \cup {w} /\ report'.placed = report.placed
          /\ report'.errors = report.errors
      BY <1>1 DEF Warn, RestoreReport
    <2> QED
      BY <2>1 DEF Accounted
  <1>2. ASSUME Fail(w) PROVE Accounted' = Accounted \cup {w}
    <2>1. /\ report'.warnings = report.warnings /\ report'.placed = report.placed
          /\ report'.errors = report.errors \cup {w}
      BY <1>2 DEF Fail, RestoreReport
    <2> QED
      BY <2>1 DEF Accounted
  <1>3. ASSUME report' = [report EXCEPT !.windows_restored = @ + 1, !.placed = @ \cup {w}]
        PROVE  Accounted' = Accounted \cup {w}
    <2>1. /\ report'.warnings = report.warnings /\ report'.placed = report.placed \cup {w}
          /\ report'.errors = report.errors
      BY <1>3 DEF RestoreReport
    <2> QED
      BY <2>1 DEF Accounted
  <1>4. ASSUME report' = [report EXCEPT !.apps_launched = @ + 1]
        PROVE  Accounted' = Accounted
    <2>1. /\ report'.warnings = report.warnings /\ report'.placed = report.placed
          /\ report'.errors = report.errors
      BY <1>4 DEF RestoreReport
    <2> QED
      BY <2>1 DEF Accounted
  <1> QED
    BY <1>1, <1>2, <1>3, <1>4

\* One step of the plan: the report keeps what it has, and has the window of a MoveWindow.
LEMMA ExecuteAccounts ==
    ASSUME TypeOK, Execute
    PROVE  /\ pc = "executing" /\ pc' = "executing" /\ next' = next + 1 /\ next \in DOMAIN steps
           /\ UNCHANGED <<options, steps>>
           /\ Accounted \subseteq Accounted'
           /\ steps[next].kind = "MoveWindow" => steps[next].target \in Accounted'
  <1>r. report \in RestoreReport
    BY DEF TypeOK, ExecutionType
  <1>u. UNCHANGED report => Accounted' = Accounted
    BY DEF Accounted
  <1>1. CASE SkipStep
    <2>1. /\ pc = "executing" /\ pc' = "executing" /\ next' = next + 1
          /\ next \in DOMAIN steps /\ UNCHANGED <<options, steps>>
          /\ Warn(steps[next].target)
      BY <1>1 DEF SkipStep, Pass, request
    <2>2. Accounted' = Accounted \cup {steps[next].target}
      BY <1>r, <2>1, ReportGrows
    <2> QED
      BY <2>1, <2>2
  <1>2. CASE WarpCursor
    BY <1>2, <1>r, <1>u, ReportGrows, CurrentStep, ZenonT(60) DEF WarpCursor
  <1>3. ASSUME NEW w \in Window, LaunchProcess(w) \/ WaitForWindow(w) \/ RestoreTabs(w)
                                 \/ RaiseWindow(w) \/ FocusWindow(w)
        PROVE  /\ pc = "executing" /\ pc' = "executing" /\ next' = next + 1
               /\ next \in DOMAIN steps /\ UNCHANGED <<options, steps>>
               /\ steps[next].kind # "MoveWindow" /\ Accounted \subseteq Accounted'
    <2>1. /\ pc = "executing" /\ pc' = "executing" /\ next' = next + 1
          /\ next \in DOMAIN steps /\ UNCHANGED <<options, steps>>
          /\ steps[next].kind # "MoveWindow"
      BY <1>3, CurrentStep
         DEF LaunchProcess, WaitForWindow, RestoreTabs, RaiseWindow, FocusWindow
    <2>2. \/ UNCHANGED report \/ Warn(w) \/ Fail(w)
          \/ report' = [report EXCEPT !.apps_launched = @ + 1]
      BY <1>3 DEF LaunchProcess, WaitForWindow, RestoreTabs, RaiseWindow, FocusWindow
    <2>3. Accounted \subseteq Accounted'
      BY <1>r, <1>u, <2>2, ReportGrows
    <2> QED
      BY <2>1, <2>3
  <1>4. ASSUME NEW w \in Window, AdjustWindow(w)
        PROVE  /\ pc = "executing" /\ pc' = "executing" /\ next' = next + 1
               /\ next \in DOMAIN steps /\ UNCHANGED <<options, steps>>
               /\ steps[next].kind # "MoveWindow" /\ Accounted \subseteq Accounted'
    <2>1. /\ pc = "executing" /\ pc' = "executing" /\ next' = next + 1
          /\ next \in DOMAIN steps /\ UNCHANGED <<options, steps>>
          /\ steps[next].kind # "MoveWindow"
      BY <1>4, CurrentStep DEF AdjustWindow
    <2> QED
      BY <1>4, <1>r, <1>u, <2>1, ReportGrows DEF AdjustWindow
  <1>5. ASSUME NEW w \in Window, MoveWindow(w)
        PROVE  /\ pc = "executing" /\ pc' = "executing" /\ next' = next + 1
               /\ next \in DOMAIN steps /\ UNCHANGED <<options, steps>>
               /\ steps[next].target = w /\ Accounted' = Accounted \cup {w}
    <2>1. /\ pc = "executing" /\ pc' = "executing" /\ next' = next + 1
          /\ next \in DOMAIN steps /\ UNCHANGED <<options, steps>>
          /\ steps[next].target = w
      BY <1>5, CurrentStep DEF MoveWindow
    <2>2. \/ Warn(w) \/ Fail(w)
          \/ report' = [report EXCEPT !.windows_restored = @ + 1, !.placed = @ \cup {w}]
      BY <1>5 DEF MoveWindow
    <2> QED
      BY <1>r, <2>1, <2>2, ReportGrows
  <1> QED
    BY <1>1, <1>2, <1>3, <1>4, <1>5 DEF Execute

\* Every step keeps the plan covering the selection and the report covering the plan.
LEMMA CoverStep ==
    ASSUME TypeOK, CoverInv, [Next]_vars
    PROVE  CoverInv'
  <1>0. /\ steps \in Seq(RestoreStep) /\ DOMAIN steps = 1..Len(steps) /\ Len(steps) \in Nat
        /\ next \in Nat /\ options.selected \subseteq Nat
    BY RestoreAssumption DEF TypeOK, PlanType, RequestType, RestoreOptions, Window
  <1>1. CASE PlanWindow
    <2>1. pc = "planning" /\ pc' = "planning" /\ next' = next + 1 /\ UNCHANGED options
      BY <1>1 DEF PlanWindow, Pass, request
    <2>2. ASSUME NEW w \in options.selected, w < next'
          PROVE  \E i \in DOMAIN steps' : steps'[i].kind = "MoveWindow" /\ steps'[i].target = w
      <3>1. w < next \/ w = next
        BY <1>0, <2>1, <2>2
      <3>2. CASE next \notin options.selected /\ steps' = steps
        <4>1. w < next
          BY <2>2, <3>1, <3>2
        <4> QED
          BY <2>2, <3>2, <4>1 DEF CoverInv
      <3>3. ASSUME NEW t, Planned(t, next), steps' = steps \o t
            PROVE  \E i \in DOMAIN steps' :
                      steps'[i].kind = "MoveWindow" /\ steps'[i].target = w
        <4>1. /\ \A i \in DOMAIN steps : i \in DOMAIN steps' /\ steps'[i] = steps[i]
              /\ \A i \in DOMAIN t :
                    i + Len(steps) \in DOMAIN steps' /\ steps'[i + Len(steps)] = t[i]
          BY <1>0, <3>3, Elements DEF Planned
        <4>2. CASE w < next
          BY <2>2, <4>1, <4>2 DEF CoverInv
        <4>3. CASE w = next
          <5>1. PICK i \in DOMAIN t : t[i].kind = "MoveWindow" /\ t[i].target = next
            BY <3>3 DEF Planned
          <5> QED
            BY <4>1, <4>3, <5>1
        <4> QED
          BY <3>1, <4>2, <4>3
      <3> QED
        BY <1>1, <2>2, <3>2, <3>3, PlanWindowAdds
    <2> QED
      BY <2>1, <2>2 DEF CoverInv
  <1>2. CASE PlanOrder
    <2>1. \A w \in options.selected : w < next
      BY <1>2, RestoreAssumption, <1>0 DEF PlanOrder, TypeOK, RequestType, RestoreOptions, Window
    <2>2. pc' = "ordering" /\ UNCHANGED <<options, steps>>
      BY <1>2 DEF PlanOrder, request
    <2> QED
      BY <2>1, <2>2 DEF CoverInv
  <1>3. ASSUME NEW t \in Seq(RestoreStep), steps' = steps \o t, UNCHANGED options,
               pc # "planning", pc' \notin {"planning", "executing"}
        PROVE  CoverInv'
    <2>1. \A i \in DOMAIN steps : i \in DOMAIN steps' /\ steps'[i] = steps[i]
      BY <1>0, <1>3, Elements
    <2> QED
      BY <1>3, <2>1 DEF CoverInv
  <1>4. CASE Execute
    <2>1. /\ pc = "executing" /\ pc' = "executing" /\ next' = next + 1 /\ next \in DOMAIN steps
          /\ UNCHANGED <<options, steps>> /\ Accounted \subseteq Accounted'
          /\ steps[next].kind = "MoveWindow" => steps[next].target \in Accounted'
      BY <1>4, ExecuteAccounts
    <2>2. ASSUME NEW i \in DOMAIN steps, i < next', steps[i].kind = "MoveWindow"
          PROVE  steps[i].target \in Accounted'
      <3>1. i < next \/ i = next
        BY <1>0, <2>1, <2>2
      <3> QED
        BY <2>1, <2>2, <3>1 DEF CoverInv
    <2> QED
      BY <2>1, <2>2 DEF CoverInv
  <1>5. CASE StartSteps
    <2>1. pc = "matching" /\ next' = 1 /\ UNCHANGED <<options, steps>>
      BY <1>5 DEF StartSteps, request
    <2>2. \A i \in DOMAIN steps : ~(i < next')
      BY <1>0, <2>1
    <2> QED
      BY <2>1, <2>2 DEF CoverInv
  <1>6. CASE Look \/ MatchWindow \/ Finish
    BY <1>6 DEF Look, MatchWindow, Finish, request, CoverInv
  <1>7. CASE Desktop \/ UNCHANGED vars
    <2>1. UNCHANGED <<options, steps, pc, next, report>>
      BY <1>7 DEF Desktop, UserOpens, UserCloses, AppOpensWindow, Comes, vars, request
    <2> QED
      BY <2>1 DEF CoverInv, Accounted
  <1>8. ASSUME PlanRaise \/ PlanClosing PROVE CoverInv'
    <2>1. /\ pc = "ordering" /\ ~PlanWindow /\ pc' \notin {"planning", "executing"}
      BY <1>8 DEF PlanRaise, PlanClosing, PlanWindow
    <2>2. CASE UNCHANGED steps
      BY <1>8, <2>1, <2>2 DEF PlanRaise, PlanClosing, request, CoverInv
    <2> QED
      BY <1>3, <2>1, <2>2, PlanGrows
  <1> QED
    BY <1>1, <1>2, <1>4, <1>5, <1>6, <1>7, <1>8 DEF Next, Engine

\* A restore ends with every selected window accounted for.
LEMMA ForgottenStep ==
    ASSUME TypeOK, CoverInv, NothingForgotten, [Next]_vars
    PROVE  NothingForgotten'
  <1>1. CASE pc' # "done"
    BY <1>1 DEF NothingForgotten
  <1>2. CASE Finish
    <2>1. /\ pc = "executing" /\ next > Len(steps) /\ UNCHANGED <<options, report>>
      BY <1>2 DEF Finish, request
    <2>2. \A i \in DOMAIN steps : i < next
      BY <2>1 DEF TypeOK, PlanType
    <2>3. options.selected \subseteq Accounted
      BY <2>1, <2>2 DEF CoverInv
    <2> QED
      BY <2>1, <2>3 DEF NothingForgotten, Accounted
  <1>3. CASE PlanClosing
    BY <1>3 DEF PlanClosing, request, NothingForgotten
  <1>4. CASE Desktop \/ UNCHANGED vars
    BY <1>4 DEF Desktop, UserOpens, UserCloses, AppOpensWindow, Comes, vars, request,
                NothingForgotten
  <1>5. ASSUME PlanWindow \/ PlanOrder \/ PlanRaise \/ Look \/ MatchWindow \/ StartSteps
        PROVE  pc' # "done"
    BY <1>5 DEF PlanWindow, PlanOrder, PlanRaise, Look, MatchWindow, StartSteps
  <1>6. CASE Execute
    BY <1>1, <1>6, ExecuteAccounts
  <1> QED
    BY <1>1, <1>2, <1>3, <1>4, <1>5, <1>6 DEF Next, Engine

------------------------------------------------------------------------------
(* Stacking.                                                                 *)

OnIn(d, h) == \E i \in DOMAIN d : d[i] = h

BelowIn(d, g, h) == \E i, j \in DOMAIN d : i < j /\ d[i] = g /\ d[j] = h

Distinct(d) == \A i, j \in DOMAIN d : d[i] = d[j] => i = j

\* Without one window the others are where they were.
LEMMA WithoutKeeps ==
    ASSUME DeskType, DistinctInv, NEW k \in DOMAIN desk
    PROVE  /\ Without(k) \in Seq(Handle)
           /\ Distinct(Without(k))
           /\ \A g : OnIn(Without(k), g) => g # desk[k] /\ OnIn(desk, g)
           /\ \A f, g : f # desk[k] /\ g # desk[k] /\ BelowIn(desk, f, g) =>
                 BelowIn(Without(k), f, g)
  <1> DEFINE d == Without(k)
             old(i) == IF i < k THEN i ELSE i + 1
             new(i) == IF i < k THEN i ELSE i - 1
  <1>1. /\ desk \in Seq(Handle) /\ DOMAIN desk = 1..Len(desk) /\ Len(desk) \in Nat
        /\ k \in 1..Len(desk)
    BY DEF DeskType
  <1>2. DOMAIN d = 1..(Len(desk) - 1) /\ \A i \in DOMAIN d : d[i] = desk[old(i)]
    BY <1>1 DEF Without
  <1>3. \A i \in DOMAIN d : i \in Nat /\ old(i) \in DOMAIN desk /\ old(i) # k
    BY <1>1, <1>2
  <1>4. \A i \in DOMAIN desk : i # k =>
          new(i) \in DOMAIN d /\ old(new(i)) = i /\ d[new(i)] = desk[i]
    BY <1>1, <1>2
  <1>5. d \in Seq(Handle)
    BY WithoutType
  <1>6. Distinct(d)
    <2> SUFFICES ASSUME NEW i \in DOMAIN d, NEW j \in DOMAIN d, d[i] = d[j] PROVE i = j
      BY DEF Distinct
    <2>1. old(i) = old(j)
      BY <1>2, <1>3 DEF DistinctInv
    <2> QED
      BY <1>1, <1>3, <2>1
  <1>7. ASSUME NEW g, OnIn(d, g) PROVE g # desk[k] /\ OnIn(desk, g)
    <2>1. PICK i \in DOMAIN d : d[i] = g
      BY <1>7 DEF OnIn
    <2>2. old(i) \in DOMAIN desk /\ desk[old(i)] = g /\ old(i) # k
      BY <1>2, <1>3, <2>1
    <2> QED
      BY <2>2 DEF DistinctInv, OnIn
  <1>8. ASSUME NEW f, NEW g, f # desk[k], g # desk[k], BelowIn(desk, f, g)
        PROVE  BelowIn(d, f, g)
    <2>1. PICK i \in DOMAIN desk, j \in DOMAIN desk : i < j /\ desk[i] = f /\ desk[j] = g
      BY <1>8 DEF BelowIn
    <2>2. new(i) \in DOMAIN d /\ d[new(i)] = f /\ new(j) \in DOMAIN d /\ d[new(j)] = g
      BY <1>4, <1>8, <2>1
    <2>3. new(i) < new(j)
      BY <1>1, <1>8, <2>1
    <2> QED
      BY <2>2, <2>3 DEF BelowIn
  <1> QED
    BY <1>5, <1>6, <1>7, <1>8

\* A window put behind the others lies above them.
LEMMA AppendedIs ==
    ASSUME NEW d \in Seq(Handle), Distinct(d), NEW h \in Handle, ~OnIn(d, h)
    PROVE  /\ Distinct(Append(d, h))
           /\ \A g : OnIn(Append(d, h), g) => g = h \/ OnIn(d, g)
           /\ \A f, g : BelowIn(d, f, g) => BelowIn(Append(d, h), f, g)
           /\ \A g : OnIn(d, g) => BelowIn(Append(d, h), g, h)
  <1> DEFINE e == Append(d, h)
             n == Len(d) + 1
  <1>1. /\ DOMAIN d = 1..Len(d) /\ Len(d) \in Nat /\ DOMAIN e = 1..n
        /\ e[n] = h /\ \A i \in DOMAIN d : e[i] = d[i] /\ i \in DOMAIN e /\ i < n
        /\ \A i \in DOMAIN e : i \in DOMAIN d \/ i = n
    OBVIOUS
  <1> HIDE DEF e, n
  <1>2. \A i \in DOMAIN d : d[i] # h
    BY DEF OnIn
  <1>3. n \in DOMAIN e
    BY <1>1 DEF n
  <1>4. Distinct(e)
    BY <1>1, <1>2 DEF Distinct
  <1>5. \A g : OnIn(e, g) => g = h \/ OnIn(d, g)
    BY <1>1 DEF OnIn
  <1>6. \A f, g : BelowIn(d, f, g) => BelowIn(e, f, g)
    BY <1>1 DEF BelowIn
  <1>7. \A g : OnIn(d, g) => BelowIn(e, g, h)
    BY <1>1, <1>3 DEF BelowIn, OnIn
  <1> QED
    BY <1>4, <1>5, <1>6, <1>7 DEF e

\* A window that is put on top lies above every other, and the others keep their order.
LEMMA OnTopIs ==
    ASSUME DeskType, DistinctInv, NEW h \in Handle, OnTop(h)
    PROVE  /\ Distinct(desk')
           /\ \A g : OnIn(desk', g) => OnIn(desk, g)
           /\ \A f, g : f # h /\ g # h /\ BelowIn(desk, f, g) => BelowIn(desk', f, g)
           /\ \A g : g # h /\ OnIn(desk', g) /\ OnIn(desk', h) => BelowIn(desk', g, h)
  <1>1. ASSUME NEW k \in DOMAIN desk, desk[k] = h, desk' = Append(Without(k), h)
        PROVE  /\ Distinct(desk')
               /\ \A g : OnIn(desk', g) => OnIn(desk, g)
               /\ \A f, g : f # h /\ g # h /\ BelowIn(desk, f, g) => BelowIn(desk', f, g)
               /\ \A g : g # h /\ OnIn(desk', g) /\ OnIn(desk', h) => BelowIn(desk', g, h)
    <2> DEFINE d == Without(k)
    <2>1. /\ d \in Seq(Handle) /\ Distinct(d)
          /\ \A g : OnIn(d, g) => g # h /\ OnIn(desk, g)
          /\ \A f, g : f # h /\ g # h /\ BelowIn(desk, f, g) => BelowIn(d, f, g)
      BY <1>1, WithoutKeeps
    <2>2. OnIn(desk, h)
      BY <1>1 DEF OnIn
    <2> HIDE DEF d
    <2>3. /\ Distinct(Append(d, h))
          /\ \A g : OnIn(Append(d, h), g) => g = h \/ OnIn(d, g)
          /\ \A f, g : BelowIn(d, f, g) => BelowIn(Append(d, h), f, g)
          /\ \A g : OnIn(d, g) => BelowIn(Append(d, h), g, h)
      BY <2>1, AppendedIs
    <2>4. desk' = Append(d, h)
      BY <1>1 DEF d
    <2> QED
      BY <2>1, <2>2, <2>3, <2>4, Zenon
  <1>2. ASSUME ~On(h), UNCHANGED desk
        PROVE  /\ Distinct(desk')
               /\ \A g : OnIn(desk', g) => OnIn(desk, g)
               /\ \A f, g : f # h /\ g # h /\ BelowIn(desk, f, g) => BelowIn(desk', f, g)
               /\ \A g : g # h /\ OnIn(desk', g) /\ OnIn(desk', h) => BelowIn(desk', g, h)
    <2>1. Distinct(desk) /\ ~OnIn(desk, h)
      BY <1>2 DEF DistinctInv, Distinct, On, OnIn
    <2> QED
      BY <1>2, <2>1, Zenon
  <1> QED
    BY <1>1, <1>2, Zenon DEF OnTop

\* What the user and the applications do to the order of the windows.
LEMMA DesktopIs ==
    ASSUME DeskType, DistinctInv, BornInv, Desktop
    PROVE  /\ Distinct(desk')
           /\ \A g : OnIn(desk', g) => g \in unborn \/ OnIn(desk, g)
           /\ \A f, g : BelowIn(desk, f, g) /\ OnIn(desk', f) /\ OnIn(desk', g) =>
                 BelowIn(desk', f, g)
  <1> DEFINE Goal ==
        /\ Distinct(desk')
        /\ \A g : OnIn(desk', g) => g \in unborn \/ OnIn(desk, g)
        /\ \A f, g : BelowIn(desk, f, g) /\ OnIn(desk', f) /\ OnIn(desk', g) =>
              BelowIn(desk', f, g)
  <1>1. ASSUME NEW h \in Handle, NEW w, Comes(h, w) PROVE Goal
    <2>1. h \in unborn /\ desk' = Append(desk, h)
      BY <1>1 DEF Comes
    <2>2. desk \in Seq(Handle) /\ Distinct(desk) /\ ~OnIn(desk, h)
      BY <2>1 DEF DeskType, DistinctInv, Distinct, BornInv, OnIn
    <2>3. /\ Distinct(desk')
          /\ \A g : OnIn(desk', g) => g = h \/ OnIn(desk, g)
          /\ \A f, g : BelowIn(desk, f, g) => BelowIn(desk', f, g)
      BY <2>1, <2>2, AppendedIs
    <2> QED
      BY <2>1, <2>3, Zenon
  <1>2. ASSUME NEW h \in Handle, UserCloses(h) PROVE Goal
    <2>1. PICK k \in DOMAIN desk : desk[k] = h /\ desk' = Without(k)
      BY <1>2 DEF UserCloses
    <2>2. /\ Distinct(desk')
          /\ \A g : OnIn(desk', g) => g # h /\ OnIn(desk, g)
          /\ \A f, g : f # h /\ g # h /\ BelowIn(desk, f, g) => BelowIn(desk', f, g)
      BY <2>1, WithoutKeeps
    <2> QED
      BY <2>2, Zenon
  <1> QED
    BY <1>1, <1>2, Zenon DEF Desktop, UserOpens, AppOpensWindow

\* The actions, as far as the plan, the raised windows and their order are concerned.
LEMMA StackKinds ==
    ASSUME TypeOK, [Next]_vars
    PROVE  \/ PlanWindow \/ PlanOrder \/ PlanRaise \/ PlanClosing
           \/ /\ UNCHANGED <<options, steps, desk, raised>>
              /\ pc \in {"closing", "matching"} /\ pc' \in {"matching", "executing"}
           \/ /\ UNCHANGED <<options, steps, desk, raised>> /\ pc = "executing"
              /\ \/ pc' = "done" /\ UNCHANGED handles
                 \/ /\ pc' = "executing" /\ next' = next + 1 /\ next \in DOMAIN steps
                    /\ UNCHANGED handles \/ steps[next].kind = "WaitForWindow"
           \/ \E w \in Window : RaiseWindow(w) \/ FocusWindow(w)
           \/ Desktop \/ UNCHANGED vars
  <1>1. CASE Look \/ MatchWindow \/ StartSteps \/ Finish
    BY <1>1 DEF Look, MatchWindow, StartSteps, Finish, world, request
  <1>2. CASE SkipStep
    BY <1>2 DEF SkipStep, world, request, Pass
  <1>3. CASE WarpCursor
    BY <1>3, CurrentStep DEF WarpCursor, world
  <1>4. ASSUME NEW w \in Window,
               \/ LaunchProcess(w) \/ WaitForWindow(w) \/ MoveWindow(w) \/ AdjustWindow(w)
               \/ RestoreTabs(w)
        PROVE  /\ UNCHANGED <<options, steps, desk, raised>> /\ pc = "executing"
               /\ pc' = "executing" /\ next' = next + 1 /\ next \in DOMAIN steps
               /\ UNCHANGED handles \/ steps[next].kind = "WaitForWindow"
    BY <1>4, CurrentStep
       DEF LaunchProcess, WaitForWindow, MoveWindow, AdjustWindow, RestoreTabs, world
  <1> QED
    BY <1>1, <1>2, <1>3, <1>4, Zenon DEF Next, Engine, Execute

\* Behind the planning of windows the order of the plan stands.
LEMMA OrderTail ==
    ASSUME TypeOK, OrderInv, NEW t \in Seq(RestoreStep), steps' = steps \o t,
           UNCHANGED options, pc' \notin {"planning", "ordering"},
           \A i \in DOMAIN t : t[i].kind \in {"WarpCursor", "FocusWindow"},
           \A i \in DOMAIN t :
               t[i].kind = "FocusWindow" => t[i].target = Focused /\ options.restore_focus
    PROVE  OrderInv'
  <1> DEFINE q == steps'
  <1>1. \A i \in DOMAIN q :
          \/ i \in DOMAIN steps /\ q[i] = steps[i]
          \/ /\ q[i].kind \in {"WarpCursor", "FocusWindow"}
             /\ q[i].kind = "FocusWindow" => q[i].target = Focused /\ options.restore_focus
    <2>1. steps \in Seq(RestoreStep)
      BY DEF TypeOK, PlanType
    <2> QED
      BY <2>1, Elements
  <1>2. \A i \in DOMAIN q : q[i].kind \in {"RaiseWindow", "WaitForWindow"} =>
          i \in DOMAIN steps /\ q[i] = steps[i]
    BY <1>1
  <1> HIDE DEF q
  <1>3. \A i \in DOMAIN q : q[i].kind = "FocusWindow" =>
          pc' # "planning" /\ q[i].target = Focused /\ options.restore_focus
    BY <1>1 DEF OrderInv
  <1>4. ASSUME NEW i \in DOMAIN q, q[i].kind = "RaiseWindow"
        PROVE  /\ pc' \notin {"planning", "ordering"} /\ q[i].target \in Window
               /\ \A j \in DOMAIN q : q[j].kind = "WaitForWindow" => j < i
               /\ \A j \in DOMAIN q : q[j].kind = "RaiseWindow" /\ i < j =>
                     SavedZ[q[i].target] <= SavedZ[q[j].target]
    BY <1>2, <1>4 DEF OrderInv
  <1> QED
    BY <1>3, <1>4 DEF OrderInv, q

\* Windows are planned without a raise, and then raised from the lowest to the highest.
LEMMA OrderStep ==
    ASSUME TypeOK, OrderInv, [Next]_vars
    PROVE  OrderInv'
  <1>0. /\ steps \in Seq(RestoreStep) /\ DOMAIN steps = 1..Len(steps) /\ Len(steps) \in Nat
        /\ unraised \subseteq Window
    BY DEF TypeOK, PlanType
  <1>1. CASE PlanWindow
    <2>1. pc = "planning"
      BY <1>1 DEF PlanWindow
    <2>2. \A i \in DOMAIN steps : steps[i].kind \notin {"RaiseWindow", "FocusWindow"}
      BY <2>1 DEF OrderInv
    <2>3. \A i \in DOMAIN steps' : steps'[i].kind \notin {"RaiseWindow", "FocusWindow"}
      <3>1. CASE steps' = steps
        BY <2>2, <3>1
      <3>2. ASSUME NEW t, Planned(t, next), steps' = steps \o t
            PROVE  \A i \in DOMAIN steps' : steps'[i].kind \notin {"RaiseWindow", "FocusWindow"}
        <4>1. /\ t \in Seq(RestoreStep)
              /\ \A i \in DOMAIN t : t[i].kind \notin {"RaiseWindow", "FocusWindow"}
          BY <3>2 DEF Planned
        <4>2. \A i \in DOMAIN steps' :
                \/ i \in DOMAIN steps /\ steps'[i] = steps[i]
                \/ i - Len(steps) \in DOMAIN t /\ steps'[i] = t[i - Len(steps)]
          BY <1>0, <3>2, <4>1, Elements
        <4> QED
          BY <2>2, <4>1, <4>2
      <3> QED
        BY <1>1, <3>1, <3>2, PlanWindowAdds
    <2> QED
      BY <2>3 DEF OrderInv
  <1>2. CASE PlanOrder
    <2>1. pc = "planning" /\ UNCHANGED steps
      BY <1>2 DEF PlanOrder
    <2>2. \A i \in DOMAIN steps' : steps'[i].kind \notin {"RaiseWindow", "FocusWindow"}
      BY <2>1 DEF OrderInv
    <2> QED
      BY <2>2 DEF OrderInv
  <1>3. CASE PlanRaise
    <2>1. pc = "ordering" /\ pc' = "ordering" /\ UNCHANGED options
      BY <1>3 DEF PlanRaise, request
    <2>2. PICK w \in unraised :
            /\ \A v \in unraised : SavedZ[w] <= SavedZ[v]
            /\ steps' = Append(steps, Step("RaiseWindow", w, "z_order" \notin can))
            /\ unraised' = unraised \ {w}
      BY <1>3 DEF PlanRaise
    <2> DEFINE a == Step("RaiseWindow", w, "z_order" \notin can)
               q == steps'
               n == Len(steps) + 1
    <2>3. a.kind = "RaiseWindow" /\ a.target = w /\ w \in Window
      BY <1>0 DEF Step
    <2> HIDE DEF a
    <2>4. /\ DOMAIN q = 1..n /\ q[n] = a /\ \A i \in DOMAIN steps : q[i] = steps[i]
          /\ \A i \in DOMAIN q : (i \in DOMAIN steps /\ i < n) \/ i = n
          /\ n \in DOMAIN q /\ n \in Nat
      <3>1. q = Append(steps, a)
        BY <2>2 DEF a
      <3> HIDE DEF q
      <3> QED
        BY <1>0, <3>1
    <2> HIDE DEF q, n
    <2>5. \A i \in DOMAIN q : q[i].kind = "FocusWindow" =>
            pc' # "planning" /\ q[i].target = Focused /\ options.restore_focus
      BY <2>1, <2>3, <2>4 DEF OrderInv
    <2>6. \A i \in DOMAIN steps : steps[i].kind = "RaiseWindow" =>
            /\ steps[i].target \in Window
            /\ \A v \in unraised : SavedZ[steps[i].target] <= SavedZ[v]
            /\ \A j \in DOMAIN steps : steps[j].kind = "WaitForWindow" => j < i
            /\ \A j \in DOMAIN steps : steps[j].kind = "RaiseWindow" /\ i < j =>
                  SavedZ[steps[i].target] <= SavedZ[steps[j].target]
      BY <2>1 DEF OrderInv
    <2>7. ASSUME NEW i \in DOMAIN q, q[i].kind = "RaiseWindow"
          PROVE  /\ q[i].target \in Window
                 /\ \A v \in unraised' : SavedZ[q[i].target] <= SavedZ[v]
                 /\ \A j \in DOMAIN q : q[j].kind = "WaitForWindow" => j < i
                 /\ \A j \in DOMAIN q : q[j].kind = "RaiseWindow" /\ i < j =>
                       SavedZ[q[i].target] <= SavedZ[q[j].target]
      <3>1. CASE i \in DOMAIN steps /\ i < n
        <4>1. q[i] = steps[i] /\ steps[i].kind = "RaiseWindow"
          BY <2>4, <2>7, <3>1
        <4>2. \A j \in DOMAIN q : q[j].kind = "WaitForWindow" => j \in DOMAIN steps /\ q[j] = steps[j]
          BY <2>3, <2>4
        <4>3. \A j \in DOMAIN q :
                (j \in DOMAIN steps /\ q[j] = steps[j]) \/ q[j].target = w
          BY <2>3, <2>4
        <4> QED
          BY <2>2, <2>6, <3>1, <4>1, <4>2, <4>3
      <3>2. CASE i = n
        <4>1. q[i].target = w /\ i \in Nat
          BY <2>3, <2>4, <3>2
        <4>2. \A j \in DOMAIN q : q[j].kind = "WaitForWindow" => j < i
          BY <2>3, <2>4, <3>2
        <4>3. \A j \in DOMAIN q : j \in Nat /\ ~(i < j)
          BY <2>4, <3>2
        <4> QED
          BY <2>2, <2>3, <4>1, <4>2, <4>3
      <3> QED
        BY <2>4, <3>1, <3>2
    <2> QED
      BY <2>1, <2>5, <2>7 DEF OrderInv, q
  <1>4. CASE PlanClosing
    BY <1>4, ClosingAdds, OrderTail DEF PlanClosing, request
  <1>5. ASSUME UNCHANGED <<options, steps>>, pc # "planning", pc' \notin {"planning", "ordering"}
        PROVE  OrderInv'
    BY <1>5 DEF OrderInv
  <1>6. ASSUME NEW w \in Window, RaiseWindow(w) \/ FocusWindow(w) PROVE OrderInv'
    <2>1. UNCHANGED <<options, steps>> /\ pc = "executing" /\ pc' = "executing"
      BY <1>6, CurrentStep DEF RaiseWindow, FocusWindow
    <2> QED
      BY <1>5, <2>1
  <1>7. CASE Desktop \/ UNCHANGED vars
    <2>1. UNCHANGED <<options, steps, pc, unraised>>
      BY <1>7 DEF Desktop, UserOpens, UserCloses, AppOpensWindow, Comes, vars, request
    <2> QED
      BY <2>1 DEF OrderInv
  <1> QED
    BY <1>1, <1>2, <1>3, <1>4, <1>5, <1>6, <1>7, StackKinds

\* A window counts as raised once its step has been run.
LEMMA RaisedStep ==
    ASSUME TypeOK, RaisedInv, [Next]_vars
    PROVE  RaisedInv'
  <1>0. DOMAIN steps \subseteq Nat /\ next \in Nat
    BY DEF TypeOK, PlanType
  <1>1. CASE PlanWindow \/ PlanOrder \/ PlanRaise \/ PlanClosing
    BY <1>1 DEF PlanWindow, PlanOrder, PlanRaise, PlanClosing, RaisedInv
  <1>2. CASE /\ UNCHANGED <<options, steps, desk, raised>>
             /\ pc \in {"closing", "matching"} /\ pc' \in {"matching", "executing"}
    BY <1>2 DEF RaisedInv
  <1>3. ASSUME UNCHANGED <<steps, raised>>, pc = "executing",
               pc' = "done" \/ (pc' = "executing" /\ next' = next + 1)
        PROVE  RaisedInv'
    BY <1>0, <1>3 DEF RaisedInv
  <1>4. ASSUME NEW w \in Window, RaiseWindow(w) PROVE RaisedInv'
    <2>1. /\ pc = "executing" /\ pc' = "executing" /\ next \in DOMAIN steps /\ next' = next + 1
          /\ steps[next].kind = "RaiseWindow" /\ steps[next].target = w /\ UNCHANGED steps
      BY <1>4, CurrentStep DEF RaiseWindow
    <2>2. raised' \subseteq raised \cup {w}
      BY <1>4 DEF RaiseWindow
    <2> QED
      BY <1>0, <2>1, <2>2 DEF RaisedInv
  <1>5. ASSUME NEW w \in Window, FocusWindow(w) PROVE RaisedInv'
    <2>1. /\ pc = "executing" /\ pc' = "executing" /\ next' = next + 1
          /\ UNCHANGED <<steps, raised>>
      BY <1>5, CurrentStep DEF FocusWindow
    <2> QED
      BY <1>3, <2>1
  <1>6. CASE Desktop \/ UNCHANGED vars
    <2>1. UNCHANGED <<steps, pc, next, raised>>
      BY <1>6 DEF Desktop, UserOpens, UserCloses, AppOpensWindow, Comes, vars
    <2> QED
      BY <2>1 DEF RaisedInv
  <1>7. CASE /\ UNCHANGED <<options, steps, desk, raised>> /\ pc = "executing"
             /\ \/ pc' = "done" /\ UNCHANGED handles
                \/ /\ pc' = "executing" /\ next' = next + 1 /\ next \in DOMAIN steps
                   /\ UNCHANGED handles \/ steps[next].kind = "WaitForWindow"
    <2>1. UNCHANGED <<steps, raised>>
      BY <1>7
    <2> QED
      BY <1>3, <1>7, <2>1, Zenon
  <1> QED
    BY <1>1, <1>2, <1>4, <1>5, <1>6, <1>7, StackKinds, Zenon

\* Windows stay on screen once at most.
LEMMA DistinctStep ==
    ASSUME TypeOK, BornInv, DistinctInv, [Next]_vars
    PROVE  DistinctInv'
  <1>1. DeskType /\ \A w \in Window : handles[w] # None => handles[w] \in Handle
    BY DEF TypeOK, ExecutionType
  <1>2. CASE UNCHANGED desk
    BY <1>2 DEF DistinctInv
  <1>3. ASSUME NEW w \in Window, RaiseWindow(w) \/ FocusWindow(w) PROVE DistinctInv'
    <2>1. UNCHANGED desk \/ (OnTop(handles[w]) /\ handles[w] # None)
      <3>1. RaiseWindow(w) => UNCHANGED desk \/ (OnTop(handles[w]) /\ handles[w] # None)
        BY DEF RaiseWindow
      <3>2. FocusWindow(w) => UNCHANGED desk \/ (OnTop(handles[w]) /\ handles[w] # None)
        BY DEF FocusWindow
      <3> QED
        BY <1>3, <3>1, <3>2
    <2> QED
      BY <1>1, <1>2, <2>1, OnTopIs DEF DistinctInv, Distinct
  <1>4. CASE Desktop
    BY <1>1, <1>4, DesktopIs DEF DistinctInv, Distinct
  <1>5. CASE PlanWindow \/ PlanOrder \/ PlanRaise \/ PlanClosing \/ UNCHANGED vars
    BY <1>2, <1>5 DEF PlanWindow, PlanOrder, PlanRaise, PlanClosing, vars, world
  <1> QED
    BY <1>2, <1>3, <1>4, <1>5, StackKinds

\* A window of its own is not the one another saved window drives.
LEMMA Alone ==
    ASSUME NEW a \in Window, NEW w \in Window, a # w,
           \A v \in Window \ {a} : handles[v] # handles[a]
    PROVE  handles[a] # handles[w]
  BY Zenon

\* Raising from the lowest to the highest brings the order of the snapshot back, and neither
\* the desktop nor the focus disturbs it.
LEMMA InOrderStep ==
    ASSUME ZeroIsTop = FALSE, TypeOK, BornInv, OrderInv, RaisedInv, DistinctInv, InOrder,
           [Next]_vars
    PROVE  InOrder'
  <1>0. /\ DeskType /\ raised \subseteq Window
        /\ \A w \in Window : handles[w] # None => handles[w] \in Handle
        /\ \A w \in Window : SavedZ[w] \in Int
        /\ DOMAIN steps \subseteq Nat /\ next \in Nat
    BY RestoreAssumption DEF TypeOK, PlanType, ExecutionType
  <1>1. ASSUME raised' = {} PROVE InOrder'
    BY <1>1 DEF InOrder
  <1>2. ASSUME UNCHANGED <<options, desk, raised, handles>> PROVE InOrder'
    BY <1>2 DEF InOrder, On, Below
  \* What holds of every pair of raised windows on their own.
  <1> DEFINE Rest == raised \ (IF options.restore_focus THEN {Focused} ELSE {})
             Own(a) == \A w \in Window \ {a} : handles[w] # handles[a]
  <1>3. ASSUME UNCHANGED <<options, handles>>,
               \A a, b \in raised' \ (IF options.restore_focus THEN {Focused} ELSE {}) :
                   /\ SavedZ[a] < SavedZ[b] /\ Own(a) /\ Own(b)
                   /\ OnIn(desk', handles[a]) /\ OnIn(desk', handles[b])
                   => BelowIn(desk', handles[a], handles[b])
        PROVE  InOrder'
    BY <1>3 DEF InOrder, WasBelow, On, OnIn, Below, BelowIn
  <1>4. ASSUME NEW a \in Rest, NEW b \in Rest, SavedZ[a] < SavedZ[b], Own(a), Own(b),
               OnIn(desk, handles[a]), OnIn(desk, handles[b])
        PROVE  BelowIn(desk, handles[a], handles[b])
    BY <1>4 DEF InOrder, WasBelow, On, OnIn, Below, BelowIn
  <1>5. CASE PlanWindow \/ PlanOrder \/ PlanRaise \/ PlanClosing
    <2>1. raised' = raised /\ raised = {}
      BY <1>5 DEF PlanWindow, PlanOrder, PlanRaise, PlanClosing, RaisedInv
    <2> QED
      BY <1>1, <2>1
  <1>6. CASE /\ UNCHANGED <<options, steps, desk, raised>>
             /\ pc \in {"closing", "matching"} /\ pc' \in {"matching", "executing"}
    <2>1. raised' = raised /\ raised = {}
      BY <1>6 DEF RaisedInv
    <2> QED
      BY <1>1, <2>1
  <1>7. CASE /\ UNCHANGED <<options, steps, desk, raised>> /\ pc = "executing"
             /\ \/ pc' = "done" /\ UNCHANGED handles
                \/ /\ pc' = "executing" /\ next' = next + 1 /\ next \in DOMAIN steps
                   /\ UNCHANGED handles \/ steps[next].kind = "WaitForWindow"
    <2>1. UNCHANGED <<options, desk, raised>>
      BY <1>7
    <2>2. CASE UNCHANGED handles
      BY <1>2, <2>1, <2>2
    <2>3. CASE next \in DOMAIN steps /\ steps[next].kind = "WaitForWindow"
      <3>1. raised = {}
        <4> SUFFICES ASSUME NEW w \in raised PROVE FALSE
          OBVIOUS
        <4>1. PICK i \in DOMAIN steps : i < next /\ steps[i].kind = "RaiseWindow"
          BY <1>7 DEF RaisedInv
        <4>2. next < i
          BY <2>3, <4>1 DEF OrderInv
        <4> QED
          BY <1>0, <4>1, <4>2
      <3> QED
        BY <1>1, <2>1, <3>1
    <2> QED
      BY <1>7, <2>2, <2>3
  <1>8. ASSUME NEW w \in Window, RaiseWindow(w) PROVE InOrder'
    <2> DEFINE h == handles[w]
    <2>1. /\ pc = "executing" /\ next \in DOMAIN steps /\ UNCHANGED <<options, handles>>
          /\ steps[next].kind = "RaiseWindow" /\ steps[next].target = w
      BY <1>8, CurrentStep DEF RaiseWindow
    <2>2. CASE UNCHANGED <<desk, raised>>
      BY <1>2, <2>1, <2>2
    <2>3. CASE h # None /\ OnTop(h) /\ raised' = raised \cup {w}
      <3>1. /\ \A g : OnIn(desk', g) => OnIn(desk, g)
            /\ \A f, g : f # h /\ g # h /\ BelowIn(desk, f, g) => BelowIn(desk', f, g)
            /\ \A g : g # h /\ OnIn(desk', g) /\ OnIn(desk', h) => BelowIn(desk', g, h)
        BY <1>0, <2>3, OnTopIs
      <3>2. ASSUME NEW b \in raised PROVE SavedZ[b] <= SavedZ[w]
        <4>1. PICK i \in DOMAIN steps :
                i < next /\ steps[i].kind = "RaiseWindow" /\ steps[i].target = b
          BY <2>1 DEF RaisedInv
        <4> QED
          BY <2>1, <4>1 DEF OrderInv
      <3>3. ASSUME NEW a \in raised' \ (IF options.restore_focus THEN {Focused} ELSE {}),
                   NEW b \in raised' \ (IF options.restore_focus THEN {Focused} ELSE {}),
                   SavedZ[a] < SavedZ[b], Own(a), Own(b),
                   OnIn(desk', handles[a]), OnIn(desk', handles[b])
            PROVE  BelowIn(desk', handles[a], handles[b])
        <4>1. a \in Window /\ b \in Window /\ a # b
          BY <1>0, <2>3, <3>3
        <4>2. a # w
          BY <1>0, <2>3, <3>2, <3>3, <4>1
        <4>3. handles[a] # h
          BY <3>3, <4>1, <4>2, Alone
        <4>4. CASE b = w
          BY <3>1, <3>3, <4>3, <4>4
        <4>5. CASE b # w
          <5>1. a \in Rest /\ b \in Rest
            BY <2>3, <3>3, <4>2, <4>5
          <5>2. handles[b] # h
            BY <3>3, <4>1, <4>5, Alone
          <5>3. BelowIn(desk, handles[a], handles[b])
            BY <1>4, <3>1, <3>3, <5>1, Zenon
          <5> QED
            BY <3>1, <4>3, <5>2, <5>3
        <4> QED
          BY <4>4, <4>5
      <3> QED
        BY <1>3, <2>1, <3>3, Zenon
    <2> QED
      BY <1>8, <2>2, <2>3 DEF RaiseWindow
  <1>9. ASSUME NEW w \in Window, FocusWindow(w) PROVE InOrder'
    <2> DEFINE h == handles[w]
    <2>1. /\ pc = "executing" /\ next \in DOMAIN steps /\ UNCHANGED <<options, handles, raised>>
          /\ steps[next].kind = "FocusWindow" /\ steps[next].target = w
      BY <1>9, CurrentStep DEF FocusWindow
    <2>2. w = Focused /\ options.restore_focus
      BY <2>1 DEF OrderInv
    <2>3. CASE UNCHANGED desk
      BY <1>2, <2>1, <2>3
    <2>4. CASE h # None /\ OnTop(h)
      <3>1. /\ \A g : OnIn(desk', g) => OnIn(desk, g)
            /\ \A f, g : f # h /\ g # h /\ BelowIn(desk, f, g) => BelowIn(desk', f, g)
        BY <1>0, <2>4, OnTopIs
      <3>2. ASSUME NEW a \in Rest, NEW b \in Rest,
                   SavedZ[a] < SavedZ[b], Own(a), Own(b),
                   OnIn(desk', handles[a]), OnIn(desk', handles[b])
            PROVE  BelowIn(desk', handles[a], handles[b])
        <4>1. a \in Window /\ b \in Window /\ a # w /\ b # w
          BY <1>0, <2>2
        <4>2. handles[a] # h /\ handles[b] # h
          BY <3>2, <4>1, Alone
        <4>3. BelowIn(desk, handles[a], handles[b])
          BY <1>4, <3>1, <3>2, Zenon
        <4> QED
          BY <3>1, <4>2, <4>3
      <3> QED
        BY <1>3, <2>1, <3>2, Zenon
    <2> QED
      BY <1>9, <2>3, <2>4 DEF FocusWindow
  <1>10. CASE Desktop
    <2>1. UNCHANGED <<options, handles, raised>>
      BY <1>10 DEF Desktop, UserOpens, UserCloses, AppOpensWindow, Comes, request
    <2>2. /\ \A g : OnIn(desk', g) => g \in unborn \/ OnIn(desk, g)
          /\ \A f, g : BelowIn(desk, f, g) /\ OnIn(desk', f) /\ OnIn(desk', g) =>
                BelowIn(desk', f, g)
      BY <1>0, <1>10, DesktopIs
    <2>3. \A w \in Window : handles[w] \notin unborn
      BY <1>0, RestoreAssumption DEF BornInv, DeskType
    <2>4. ASSUME NEW a \in Rest, NEW b \in Rest,
                 SavedZ[a] < SavedZ[b], Own(a), Own(b),
                 OnIn(desk', handles[a]), OnIn(desk', handles[b])
          PROVE  BelowIn(desk', handles[a], handles[b])
      <3>1. OnIn(desk, handles[a]) /\ OnIn(desk, handles[b])
        BY <1>0, <2>2, <2>3, <2>4
      <3>2. BelowIn(desk, handles[a], handles[b])
        BY <1>4, <2>4, <3>1, Zenon
      <3> QED
        BY <2>2, <2>4, <3>2
    <2> QED
      BY <1>3, <2>1, <2>4, Zenon
  <1>11. CASE UNCHANGED vars
    BY <1>2, <1>11 DEF vars, world, request
  <1> QED
    BY <1>5, <1>6, <1>7, <1>8, <1>9, <1>10, <1>11, StackKinds, Zenon

------------------------------------------------------------------------------
(* The theorems.                                                             *)

\* The inductive invariant.
RestoreInv ==
    /\ TypeOK /\ BornInv /\ UntouchedInv /\ MatchInv /\ PlanInv /\ DriveInv /\ CoverInv
    /\ OneToOne /\ UnselectedStay /\ PlacedOnScreen /\ NothingForgotten

\* It holds at the start.
LEMMA RestoreInvInit ==
    ASSUME Init PROVE RestoreInv
  <1>1. TypeOK
    BY TypeInit
  <1>2. \A i \in DOMAIN Standing : Standing[i] \notin unborn
    BY DEF Init
  <1>3. BornInv
    BY <1>2 DEF Init, BornInv
  <1>4. UntouchedInv /\ PlacedOnScreen
    BY DEF Init, UntouchedInv, PlacedOnScreen
  <1>5. DOMAIN steps = {}
    BY DEF Init
  <1>6. PlanInv
    BY <1>5 DEF PlanInv
  <1>7. CoverInv
    <2>1. \A w \in options.selected : ~(w < next)
      BY <1>1, RestoreAssumption DEF Init, TypeOK, RequestType, RestoreOptions, Window
    <2> QED
      BY <2>1 DEF Init, CoverInv
  <1>8. MatchInv /\ DriveInv /\ OneToOne /\ UnselectedStay /\ NothingForgotten
    BY DEF Init, MatchInv, DriveInv, OneToOne, UnselectedStay, NothingForgotten
  <1> QED
    BY <1>1, <1>3, <1>4, <1>6, <1>7, <1>8 DEF RestoreInv

\* Every step keeps it.
LEMMA RestoreInvStep ==
    ASSUME RestoreInv, [Next]_vars
    PROVE  RestoreInv'
  <1>0. /\ TypeOK /\ BornInv /\ UntouchedInv /\ MatchInv /\ PlanInv /\ DriveInv /\ CoverInv
        /\ OneToOne /\ UnselectedStay /\ PlacedOnScreen /\ NothingForgotten
    BY DEF RestoreInv
  <1>1. TypeOK' /\ BornInv' /\ UntouchedInv' /\ MatchInv' /\ PlanInv' /\ CoverInv'
    BY <1>0, TypeStep, BornStep, UntouchedStep, MatchStep, PlanInvStep, CoverStep
  <1>2. DriveInv' /\ OneToOne'
    BY <1>0, DriveStep
  <1>3. UnselectedStay' /\ PlacedOnScreen' /\ NothingForgotten'
    BY <1>0, StayStep, PlacedStep, ForgottenStep
  <1> QED
    BY <1>1, <1>2, <1>3 DEF RestoreInv

\* Whatever opens, closes or fails between the two looks and the steps, two saved windows
\* drive the same live window only behind a launch that failed.
THEOREM RestoreIsOneToOne == Spec => []OneToOne
  <1>1. RestoreInv => OneToOne
    BY DEF RestoreInv
  <1> QED
    BY <1>1, RestoreInvInit, RestoreInvStep, PTL DEF Spec

\* Live windows of saved windows outside the selection are not moved, for any selection,
\* except as the guess of a failed launch.
THEOREM UnselectedAreLeft == Spec => []UnselectedStay
  <1>1. RestoreInv => UnselectedStay
    BY DEF RestoreInv
  <1> QED
    BY <1>1, RestoreInvInit, RestoreInvStep, PTL DEF Spec

\* Every frame the engine sets lies in a work area, for any frames and any displays of
\* any sizes.
THEOREM PlacedAreVisible == Spec => []PlacedOnScreen
  <1>1. RestoreInv => PlacedOnScreen
    BY DEF RestoreInv
  <1> QED
    BY <1>1, RestoreInvInit, RestoreInvStep, PTL DEF Spec

\* A restore that was not a dry run ends with a report on every selected window.
THEOREM ReportIsHonest == Spec => []NothingForgotten
  <1>1. RestoreInv => NothingForgotten
    BY DEF RestoreInv
  <1> QED
    BY <1>1, RestoreInvInit, RestoreInvStep, PTL DEF Spec

\* What keeps the order.
StackInv == OrderInv /\ RaisedInv /\ DistinctInv /\ InOrder

\* Where the lowest window has the lowest z_order, as on X11, the windows a restore has
\* raised end up in the order of the snapshot, whatever opens, closes, is focused or fails
\* to be raised in between.
THEOREM StackingComesBack ==
    ASSUME ZeroIsTop = FALSE
    PROVE  Spec => []StackingRestored
  <1>1. Init => RestoreInv /\ StackInv
    <2> SUFFICES ASSUME Init PROVE RestoreInv /\ StackInv
      OBVIOUS
    <2>1. RestoreInv
      BY RestoreInvInit
    <2>2. DOMAIN steps = {} /\ raised = {} /\ desk = Standing /\ pc = "planning"
      BY DEF Init
    <2>3. OrderInv /\ RaisedInv /\ InOrder
      BY <2>2 DEF OrderInv, RaisedInv, InOrder
    <2>4. DistinctInv
      BY <2>2, RestoreAssumption DEF DistinctInv
    <2> QED
      BY <2>1, <2>3, <2>4 DEF StackInv
  <1>2. RestoreInv /\ StackInv /\ [Next]_vars => RestoreInv' /\ StackInv'
    <2> SUFFICES ASSUME RestoreInv, StackInv, [Next]_vars PROVE RestoreInv' /\ StackInv'
      OBVIOUS
    <2>1. TypeOK /\ BornInv /\ OrderInv /\ RaisedInv /\ DistinctInv /\ InOrder
      BY DEF RestoreInv, StackInv
    <2>2. OrderInv' /\ RaisedInv' /\ DistinctInv' /\ InOrder'
      BY <2>1, OrderStep, RaisedStep, DistinctStep, InOrderStep
    <2> QED
      BY <2>2, RestoreInvStep DEF StackInv
  <1>3. RestoreInv /\ StackInv => StackingRestored
    BY DEF StackInv, StackingRestored
  <1> QED
    BY <1>1, <1>2, <1>3, PTL DEF Spec
=============================================================================
