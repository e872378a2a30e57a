------------------------------ MODULE Capture -------------------------------
(***************************************************************************)
(* The capture of a snapshot (src/core/snapshot_manager.cpp): the desktop  *)
(* is enumerated, the bridge is asked for the tabs of the browser, they    *)
(* are attached to the windows, and what may not be stored is taken out.   *)
(*                                                                         *)
(* The browser is a part of the model that lives on while a capture looks  *)
(* at it: its tabs are opened, navigated, moved and closed, its windows    *)
(* are moved and focused, and it writes its session file in its own time.  *)
(* An extension that answers (TabBridge has how) answers for the moment it *)
(* is asked; when none does the session file is read.                      *)
(***************************************************************************)
EXTENDS Sanitizer, SessionFiles

CONSTANTS
    Browsers,    \* the kinds of browser: "chromium", "firefox"
    Tab, Window, \* the tabs and the windows of the browser, numbered
    Private,     \* the windows that are private
    Minimized,   \* the windows that are minimized
    Page,        \* the pages a tab may go to
    Opened,      \* the tabs that are open at first: a sequence of records as in live
    Frame,       \* where a window may be: the left edge of a rectangle of width Width
    Width,
    Frames,      \* the frames of the windows at first
    Apps,        \* the windows of other programs, as the platform has them
    BrowserApp,  \* the app id of the browser
    Requests,    \* the CaptureOptions of a request
    None,
    MaxSteps     \* bound on what the user does in the browser

\* A page, a tab of the browser, and what the platform says of a window.
AnyPage     == [url: Parsed, title: Word]
BrowserTabs == {tab \in [win: Window, pages: Seq(AnyPage), at: Nat] : tab.at \in DOMAIN tab.pages}
AppWindows  == [id: Nat, browser: {"none"}, frame: Frame, focused: BOOLEAN, app: Seq(Word),
                minimized: BOOLEAN, tabs: {<<>>}]
Asking      == [tabs: BOOLEAN, incognito: BOOLEAN, sanitize: BOOLEAN, minimized: BOOLEAN,
                apps: SUBSET Seq(STRING), urls: SUBSET Seq(STRING)]

ASSUME CaptureAssumption ==
    /\ Browsers \subseteq {"chromium", "firefox"}
    /\ Tab \cup Window \subseteq Nat \ {0} /\ IsFiniteSet(Tab) /\ IsFiniteSet(Window) /\ Window # {}
    /\ Private \cup Minimized \subseteq Window /\ Frame \subseteq Nat /\ NoFrame \notin Frame
    /\ Frames \subseteq [Window -> Frame] /\ Width \in Nat \ {0} /\ MaxSteps \in Nat
    /\ Page \subseteq AnyPage /\ Opened \in Seq(BrowserTabs) /\ DOMAIN Opened \subseteq Tab
    /\ Apps \in Seq(AppWindows) /\ BrowserApp \in Seq(Word) /\ Requests \subseteq Asking

VARIABLES
    \* the browser: its kind, its open tabs, a record [win, pages, at] each, the frames of its windows,
    \* the one that has the focus, the commands it has logged, and how much of its session
    \* is on the disk: so many commands, or the state after so many things done
    kind, live, frame, focus, log, saved,
    \* the handler: where it is, its options, the windows it has found, and the last snapshot
    stage, options, windows, snapshot,
    \* whether nothing was done since the desktop was enumerated, and the browser's states
    \* so far
    calm, past

browser == <<kind, live, frame, focus, log, saved>>
handler == <<stage, options, windows, snapshot>>
history == <<calm, past>>
vars    == <<browser, handler, history>>

-----------------------------------------------------------------------------
(* The browser.                                                             *)

Shown(tab) == tab.pages[tab.at]

\* The tabs of a window of the browser, in their order.
TabsIn(tabs, w) == Ascending({t \in DOMAIN tabs : tabs[t].win = w})

\* The user has done something, which live', frame' and focus' have, and Chromium logs it.
\* Nothing is logged of a private window.  The handler keeps nothing between two captures,
\* so what is done after the first is as well done before it, and nothing is.
Done(w, commands) ==
    /\ Len(past) <= MaxSteps /\ snapshot = None
    /\ calm' = (calm /\ stage # "tabs")
    /\ log' = IF kind = "chromium" /\ w \notin Private THEN log \o commands ELSE log
    /\ past' = Append(past, [live |-> live', frame |-> frame', focus |-> focus',
                             length |-> Len(log')])
    /\ UNCHANGED <<kind, saved, handler>>

\* The user has done something to the tabs.
TabsBecome(tabs, w, commands) ==
    /\ live' = tabs /\ UNCHANGED <<frame, focus>>
    /\ Done(w, commands)

\* What Chromium writes of a tab it has had for a while.
SessionOf(t, tab) ==
    <<Command("SetTabWindow", tab.win, t, 0, None)>>
    \o [i \in DOMAIN tab.pages |-> Command("UpdateTabNavigation", 0, t, i - 1, tab.pages[i])]
    \o <<Command("SetSelectedNavigationIndex", 0, t, tab.at - 1, None)>>

NewTab(w, page) == [win |-> w, pages |-> <<page>>, at |-> 1]

Open(t, w, page) ==
    /\ t \notin DOMAIN live
    /\ TabsBecome(Update(live, t, NewTab(w, page)), w, SessionOf(t, NewTab(w, page)))

\* A new page takes the place of those that were ahead.
Navigate(t, page) ==
    /\ Shown(live[t]) # page
    /\ LET at == live[t].at
       IN  TabsBecome([live EXCEPT ![t].pages = Append(SubSeq(@, 1, at), page), ![t].at = at + 1],
                      live[t].win, <<Command("SetSelectedNavigationIndex", 0, t, at, None),
                                     Command("UpdateTabNavigation", 0, t, at, page)>>)

Back(t) ==
    /\ live[t].at > 1
    /\ TabsBecome([live EXCEPT ![t].at = @ - 1], live[t].win,
                  <<Command("SetSelectedNavigationIndex", 0, t, live[t].at - 2, None)>>)

MoveTab(t, w) ==
    /\ live[t].win # w /\ (live[t].win \in Private <=> w \in Private)
    /\ TabsBecome([live EXCEPT ![t].win = w], w, <<Command("SetTabWindow", w, t, 0, None)>>)

Close(t) == TabsBecome([u \in DOMAIN live \ {t} |-> live[u]], live[t].win,
                       <<Command("TabClosed", 0, t, 0, None)>>)

MoveWindow(w, f) ==
    /\ frame[w] # f
    /\ frame' = [frame EXCEPT ![w] = f] /\ UNCHANGED <<live, focus>>
    /\ Done(w, <<>>)

Focus(w) ==
    /\ focus # w
    /\ focus' = w /\ UNCHANGED <<live, frame>>
    /\ Done(w, <<Command("SetActiveWindow", w, 0, 0, None)>>)

\* The log on the disk grows; a recovery file is replaced by that of the present state.
Save ==
    /\ saved' \in IF kind = "chromium" THEN saved + 1..Len(log) ELSE {Len(past)} \ {saved}
    /\ snapshot = None
    /\ UNCHANGED <<kind, live, frame, focus, log, handler, history>>

Lives ==
    \/ \E t \in Tab, w \in Window, page \in Page : Open(t, w, page)
    \/ \E t \in DOMAIN live : \/ \E page \in Page : Navigate(t, page)
                              \/ \E w \in Window : MoveTab(t, w)
                              \/ Back(t)
                              \/ Close(t)
    \/ \E w \in Window : Focus(w) \/ \E f \in Frame : MoveWindow(w, f)
    \/ Save

\* What Firefox writes of a state: its windows that are not private, in their order.
Recovery(state) ==
    LET open == Ascending({w \in Window \ Private : TabsIn(state.live, w) # <<>>})
        InFile(t) == [tab |-> t, entries |-> [i \in DOMAIN state.live[t].pages |->
                                                 state.live[t].pages[i]],
                      index |-> state.live[t].at]
        Tabs(w) == [i \in DOMAIN TabsIn(state.live, w) |-> InFile(TabsIn(state.live, w)[i])]
    IN  [i \in DOMAIN open |->
            [win |-> open[i], private |-> FALSE, frame |-> state.frame[open[i]],
             focused |-> open[i] = state.focus, selected |-> 1, tabs |-> Tabs(open[i])]]

\* capture_from_session_files: no window when there is no file, or nothing in it.
SessionWindows ==
    IF saved = 0 THEN <<>>
    ELSE IF kind = "chromium" THEN ReadChromium(SubSeq(log, 1, saved))
    ELSE ReadFirefox(Recovery(past[saved]))

\* collectTabs of the extension: the private windows when its own setting says so.
ExtensionWindows(shows) ==
    LET sent == Ascending({w \in Window : TabsIn(live, w) # <<>> /\ (shows \/ w \notin Private)})
        Tabs(w) == [i \in DOMAIN TabsIn(live, w) |->
                       LET t == TabsIn(live, w)[i]
                       IN  BrowserTab(t, i - 1, Shown(live[t]), i = 1, w \in Private, t, w)]
    IN  [i \in DOMAIN sent |->
            BrowserWindow(sent[i], kind, frame[sent[i]], sent[i] = focus, sent[i] \in Private,
                          Tabs(sent[i]))]

-----------------------------------------------------------------------------
(* The windows.                                                             *)

DesktopWindow(id, program, edge, focused, app, minimized) ==
    [id |-> id, browser |-> program, frame |-> edge, focused |-> focused, app |-> app,
     minimized |-> minimized, tabs |-> <<>>]

\* What the platform enumerates.
Desktop ==
    LET open == Ascending({w \in Window : TabsIn(live, w) # <<>>})
    IN  Apps \o [i \in DOMAIN open |->
            DesktopWindow(open[i], kind, frame[open[i]], open[i] = focus, BrowserApp,
                          open[i] \in Minimized)]

IsExcluded(window, o) ==
    \/ window.minimized /\ ~o.minimized
    \/ \E pattern \in o.apps : GlobMatch(pattern, window.app)

-----------------------------------------------------------------------------
(* attach_tabs_to_windows.                                                  *)

\* geometry_proximity, in thousandths and for rectangles of one height: six tenths are the
\* share of the union that is common, four the nearness of the centres.
Proximity(a, b) ==
    IF NoFrame \in {a, b} THEN 0
    ELSE LET apart == IF a < b THEN b - a ELSE a - b
         IN  IF apart >= Width THEN 0
             ELSE (600 * (Width - apart)) \div (Width + apart) + (400 * (Width - apart)) \div Width

\* The score of a browser window for a desktop window, in four thousandths.
Score(window, found) ==
    3 * Proximity(window.frame, found.frame) + IF found.focused /\ window.focused THEN 1000 ELSE 0

Threshold == 2200

\* consumed are the places of the browser windows that have been given away.
Free(found, consumed, window) ==
    {i \in DOMAIN found : i \notin consumed /\ found[i].browser = window.browser}

\* A browser window is given away again and again.
MutGive(state, w, found, i) ==
    [windows |-> [state.windows EXCEPT ![w].tabs = found[i].tabs], consumed |-> state.consumed]

Give(state, w, found, i) ==
    [windows |-> [state.windows EXCEPT ![w].tabs = found[i].tabs],
     consumed |-> state.consumed \cup {i}]

\* Pass 1: the first of the free ones with the best score above the threshold.
ByGeometry(found, state, w) ==
    LET window  == state.windows[w]
        rivals  == {i \in Free(found, state.consumed, window) : Score(window, found[i]) > Threshold}
        best    == {i \in rivals : \A j \in rivals : Score(window, found[i]) >= Score(window, found[j])}
    IN  IF best = {} THEN state ELSE Give(state, w, found, Min(best))

\* Pass 2: the first of the free ones for a window that has no tabs yet.
ByOrder(found, state, w) ==
    LET free == Free(found, state.consumed, state.windows[w])
    IN  IF state.windows[w].tabs # <<>> \/ free = {} THEN state
        ELSE Give(state, w, found, Min(free))

\* What the passes have given away after each of the windows.
FirstPass(found, wins) ==
    LET after[w \in 0..Len(wins)] ==
            IF w = 0 THEN [windows |-> wins, consumed |-> {}] ELSE ByGeometry(found, after[w - 1], w)
    IN  after

SecondPass(found, wins) ==
    LET after[w \in 0..Len(wins)] ==
            IF w = 0 THEN FirstPass(found, wins)[Len(wins)] ELSE ByOrder(found, after[w - 1], w)
    IN  after

AttachTabsToWindows(found, wins) == SecondPass(found, wins)[Len(wins)].windows

\* attach_browser_tabs: what is in a private window is taken from what the bridge returned.
AttachBrowserTabs(found, wins, o) ==
    AttachTabsToWindows(
        [i \in DOMAIN found |->
            IF found[i].incognito /\ ~o.incognito THEN [found[i] EXCEPT !.tabs = <<>>] ELSE found[i]],
        wins)

-----------------------------------------------------------------------------
(* The handler.                                                             *)

\* The text of a URL that a pattern is matched with.
Text(url) == <<url.scheme, url.host, url.path>> \o [i \in DOMAIN url.query |-> url.query[i].key]

\* excluded_url_patterns are tried on what the sanitizer has left, and the tabs that stay
\* keep their places.
Unlisted(tabs, o) ==
    AtPlaces(tabs, {i \in DOMAIN tabs :
                        ~\E pattern \in o.urls : GlobMatch(pattern, Text(tabs[i].url))})

Sanitize(wins, o) ==
    IF ~o.sanitize THEN wins
    ELSE LET clean == SanitizeSnapshot(wins)
         IN  [w \in DOMAIN clean |-> [clean[w] EXCEPT !.tabs = Unlisted(@, o)]]

\* The primary key of the table of tabs.
Storable(wins) ==
    \A w \in DOMAIN wins : \A i, j \in DOMAIN wins[w].tabs :
        wins[w].tabs[i].id = wins[w].tabs[j].id => i = j

\* The windows of one capture are still there in the next.
MutIdle == stage' = "idle" /\ options' = None /\ UNCHANGED <<windows, browser, history>>

Idle == stage' = "idle" /\ windows' = <<>> /\ options' = None /\ UNCHANGED <<browser, history>>

\* Everything after the tabs were read touches only the handler's own variables.
Stores(found, source) ==
    /\ stage = "tabs"
    /\ LET stored == Sanitize(IF found = <<>> THEN windows
                              ELSE AttachBrowserTabs(found, windows, options), options)
       IN  snapshot' = [stored |-> Storable(stored), windows |-> stored, source |-> source,
                        found |-> found, options |-> options, calm |-> calm]
    /\ Idle

HasBrowserWindow == \E w \in DOMAIN windows : windows[w].browser # "none"
AsksBridge == stage = "tabs" /\ options.tabs /\ HasBrowserWindow

\* capture_windows, after the monitors were enumerated.
Enumerate(o) ==
    /\ stage = "idle"
    /\ options' = o
    /\ windows' = AtPlaces(Desktop, {i \in DOMAIN Desktop : ~IsExcluded(Desktop[i], o)})
    /\ stage' = "tabs"
    /\ calm' = TRUE
    /\ snapshot' = None
    /\ UNCHANGED <<browser, past>>

\* The platform cannot enumerate its monitors or its windows.
EnumerateFails(o) ==
    /\ stage = "idle"
    /\ snapshot' = None
    /\ UNCHANGED <<browser, stage, options, windows, history>>

StoreWithoutTabs == stage = "tabs" /\ ~AsksBridge /\ Stores(<<>>, "none")

StoreExtensionTabs(shows) ==
    /\ AsksBridge /\ ExtensionWindows(shows) # <<>>
    /\ Stores(ExtensionWindows(shows), "extension")

\* No host is connected, or the extension did not answer within the browser_timeout.
StoreSessionTabs == AsksBridge /\ Stores(SessionWindows, "session")

Captures ==
    \/ \E o \in Requests : Enumerate(o) \/ EnumerateFails(o)
    \/ StoreWithoutTabs
    \/ \E shows \in BOOLEAN : StoreExtensionTabs(shows)
    \/ StoreSessionTabs

\* What Chromium has logged of so many of the tabs that are open at first.
FirstLog ==
    LET after[t \in 0..Len(Opened)] ==
            IF t = 0 THEN <<>>
            ELSE IF Opened[t].win \in Private THEN after[t - 1]
            ELSE after[t - 1] \o SessionOf(t, Opened[t])
    IN  after

Init ==
    /\ kind \in Browsers
    /\ live = Opened
    /\ frame \in Frames
    /\ focus = Min(Window)
    /\ log = IF kind = "firefox" THEN <<>>
             ELSE FirstLog[Len(Opened)]
    /\ saved \in {0, IF kind = "firefox" THEN 1 ELSE Len(log)}
    /\ stage = "idle" /\ options = None /\ windows = <<>> /\ snapshot = None
    /\ calm = FALSE
    /\ past = <<[live |-> live, frame |-> frame, focus |-> focus, length |-> Len(log)]>>

Next == Lives \/ Captures

Spec == Init /\ [][Next]_vars

-----------------------------------------------------------------------------
(* The properties.                                                          *)

\* The variables have their types: the browser's tabs are in its windows, the file is no
\* longer than what was written, and every tab of a stored snapshot has a place of its own.
TypeOK ==
    /\ DOMAIN live \subseteq Tab
    /\ \A t \in DOMAIN live : live[t].win \in Window /\ live[t].at \in DOMAIN live[t].pages
    /\ frame \in [Window -> Frame] /\ focus \in Window
    /\ saved \in 0..IF kind = "chromium" THEN Len(log) ELSE Len(past)
    /\ stage \in {"idle", "tabs"} /\ calm \in BOOLEAN
    /\ options \in Requests \cup {None}
    /\ stage = "idle" => windows = <<>>
    /\ snapshot # None =>
        \A w \in DOMAIN snapshot.windows : \A i, j \in DOMAIN snapshot.windows[w].tabs :
            i < j => snapshot.windows[w].tabs[i].index < snapshot.windows[w].tabs[j].index

\* What a pattern means: * any text, ? any one character, and any other itself.  Beyond are
\* the places of the text that one more character of the pattern leads to, Reach those that so
\* many of them lead to.
Beyond(text, places, char) ==
    IF char = "*" THEN {b \in 0..Len(text) : \E a \in places : a <= b}
    ELSE {b \in 1..Len(text) : b - 1 \in places /\ char \in {"?", text[b]}}

Reach(pattern, text) ==
    LET after[i \in 0..Len(pattern)] ==
            IF i = 0 THEN {0} ELSE Beyond(text, after[i - 1], pattern[i])
    IN  after

Matches(pattern, text) == Len(text) \in Reach(pattern, text)[Len(pattern)]

Credentials == {"access_token", "code", "state", "sid", "sig", "pwd", "key"}
Trackers    == {"utm_source"}

\* What may be stored of a URL that was sanitized (README.md of the program, "Privacy").
Harmless(url) ==
    /\ ~url.user /\ ~url.frag
    /\ \A i \in DOMAIN url.query :
        url.query[i].key \notin Credentials \cup Trackers /\ url.query[i].value # "token"
    /\ url.path \notin {"/reset", "/verify"} /\ url.host # "www.bank.com"
    /\ url.scheme = "file" => url = Redacted

\* Whatever the browser did meanwhile and wherever the tabs were read from, a snapshot has no
\* window of an excluded program, no minimized one that was not asked for, no tab of a
\* private window unless those were asked for, and, when URLs are to be sanitized, none that
\* gives something away or that a pattern excludes.
StoredIsAllowed ==
    snapshot # None =>
        \A w \in DOMAIN snapshot.windows :
            LET o      == snapshot.options
                window == snapshot.windows[w]
            IN  /\ \A pattern \in o.apps : ~Matches(pattern, window.app)
                /\ window.minimized => o.minimized
                /\ \A i \in DOMAIN window.tabs :
                    LET tab == window.tabs[i]
                    IN  /\ o.tabs /\ (tab.from \in Private => o.incognito)
                        /\ o.sanitize => /\ Harmless(tab.url)
                                         /\ \A p \in o.urls : ~Matches(p, Text(tab.url))
                                         /\ tab.sanitized => tab.title # "telling"

\* The tabs of a window of the browser are stored together, in one window of that browser.
TabsTogether ==
    snapshot # None =>
        \A v, w \in DOMAIN snapshot.windows :
            \A i \in DOMAIN snapshot.windows[v].tabs, j \in DOMAIN snapshot.windows[w].tabs :
                (snapshot.windows[v].tabs[i].from = snapshot.windows[w].tabs[j].from) <=> v = w

\* The extension has answered for the windows of the browser that were enumerated and for no
\* other, nothing was done between the two, and no two windows are at the same place.
Correlated ==
    /\ snapshot # None /\ snapshot.source = "extension" /\ snapshot.calm
    /\ \A i, j \in DOMAIN snapshot.found :
        i # j => snapshot.found[i].frame # snapshot.found[j].frame
    /\ {snapshot.found[i].from : i \in DOMAIN snapshot.found} =
       {snapshot.windows[w].id :
            w \in {v \in DOMAIN snapshot.windows : snapshot.windows[v].browser # "none"}}

\* The tabs of one window are never stored in two, nor those of two in one; and when the
\* extension answered for the windows that were enumerated, each has its own, whatever the
\* windows that lie near it and have the focus.
TabsAreTheirs ==
    /\ TabsTogether
    /\ Correlated => \A w \in DOMAIN snapshot.windows : \A i \in DOMAIN snapshot.windows[w].tabs :
            snapshot.windows[w].tabs[i].from = snapshot.windows[w].id

\* At any time what is read from the session file is what the browser showed at the last
\* moment all of which is on the disk, as far as the tabs go that were open then and whose
\* page is one the reader takes: each at the page it showed and in its own window.  The tab
\* whose commands are cut off may be read at another page.
SessionIsAPast ==
    saved > 0 =>
        LET whole   == IF kind = "firefox" THEN {saved}
                       ELSE {k \in DOMAIN past : past[k].length <= saved}
            moment  == past[Max(whole)]
            cut     == IF whole # {} /\ kind = "chromium" /\ moment.length < saved
                       THEN log[saved].tab ELSE 0
            read    == SessionWindows
        IN  whole # {} =>
            \A t \in DOMAIN moment.live \ {cut} :
                (moment.live[t].win \notin Private /\ Savable(Shown(moment.live[t]))) =>
                    \E w \in DOMAIN read : \E i \in DOMAIN read[w].tabs :
                        LET tab == read[w].tabs[i]
                        IN  /\ tab.of = t /\ read[w].from = moment.live[t].win
                            /\ tab.url = Shown(moment.live[t]).url
=============================================================================
