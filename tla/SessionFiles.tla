---------------------------- MODULE SessionFiles ----------------------------
(***************************************************************************)
(* What the daemon reads from a browser's session files when no extension  *)
(* answers: the command log of a Chromium profile                          *)
(* (src/browser/session_chromium.cpp) and the recovery file of a Firefox   *)
(* one (src/browser/session_firefox.cpp).                                  *)
(*                                                                         *)
(* A page is a record [url, title].  A command of the log is a record      *)
(* [id, win, tab, index, page]; the log a reader finds may end anywhere,   *)
(* and parse_snss gives its whole commands.  A tab that is read carries    *)
(* the browser's tab and window it came from in of and from, which no code *)
(* uses.                                                                   *)
(***************************************************************************)
EXTENDS Integers, FiniteSetsExt, Ordered

CONSTANTS
    NoFrame,     \* an empty rectangle
    CharSize     \* the values of the char that a tab id is cut to: std::string = int64

ASSUME SessionAssumption == CharSize \in Nat \ {0}

\* The tab and the window of a browser, as Bridge has them.
BrowserTab(id, index, page, active, incognito, of, from) ==
    [id |-> id, index |-> index, url |-> page.url, title |-> page.title, active |-> active,
     incognito |-> incognito, sanitized |-> FALSE, of |-> of, from |-> from]

BrowserWindow(from, browser, frame, focused, incognito, tabs) ==
    [from |-> from, browser |-> browser, frame |-> frame, focused |-> focused,
     incognito |-> incognito, tabs |-> tabs]

\* tab.id = <an integer>: the integer becomes the one char of the string.
TabId(n) == n % CharSize

-----------------------------------------------------------------------------
(* Chromium.                                                                *)

Command(id, win, tab, index, page) ==
    [id |-> id, win |-> win, tab |-> tab, index |-> index, page |-> page]

\* The schemes of the pages that are read from the log: others are skipped.
Savable(page) == page.url.scheme \in {"http", "https", "file", "chrome"}

\* What is known of a tab that is first heard of: window 0, entry 0, no entry.
Unheard == [win |-> 0, selected |-> 0, entries |-> <<>>]

Heard(tabs, t) == IF t \in DOMAIN tabs THEN tabs[t] ELSE Unheard

Update(f, x, v) == [y \in DOMAIN f \cup {x} |-> IF y = x THEN v ELSE f[y]]

\* One command: tab closed, window closed, path pruned and the others are not looked at.
Learn(known, c) ==
    LET t == Heard(known.tabs, c.tab)
        Set(state) == [known EXCEPT !.tabs = Update(@, c.tab, state)]
    IN  CASE c.id = "UpdateTabNavigation" /\ Savable(c.page) ->
                Set([t EXCEPT !.entries = Update(@, c.index, c.page)])
          [] c.id = "SetSelectedNavigationIndex" -> Set([t EXCEPT !.selected = c.index])
          [] c.id = "SetTabWindow" -> Set([t EXCEPT !.win = c.win])
          [] c.id = "SetActiveWindow" -> [known EXCEPT !.active = c.win]
          [] OTHER -> known

\* What is known before the first command, then after each of them in turn.
LearnedBy(commands) ==
    LET after[n \in 0..Len(commands)] ==
            IF n = 0 THEN [tabs |-> <<>>, active |-> 0] ELSE Learn(after[n - 1], commands[n])
    IN  after

Learned(commands) == LearnedBy(commands)[Len(commands)]

\* The newest entry, whichever is selected.
MutPageOf(state) == state.entries[Max(DOMAIN state.entries)]

\* The selected entry, else the newest.
PageOf(state) ==
    LET places == DOMAIN state.entries
    IN  state.entries[IF state.selected \in places THEN state.selected ELSE Max(places)]

\* The windows in the order of their ids, with their tabs in the order of theirs, the first
\* of which is taken for the active one.
ReadChromium(commands) ==
    LET known   == Learned(commands)
        heard   == {t \in DOMAIN known.tabs : known.tabs[t].entries # <<>>}
        ordered == Ascending({known.tabs[t].win : t \in heard})
        TabsOf(w) == Ascending({t \in heard : known.tabs[t].win = w})
        Read(w) == [i \in DOMAIN TabsOf(w) |->
            BrowserTab(TabId(TabsOf(w)[i]), i - 1, PageOf(known.tabs[TabsOf(w)[i]]), i = 1, FALSE,
                       TabsOf(w)[i], w)]
    IN  [i \in DOMAIN ordered |->
            BrowserWindow(ordered[i], "chromium", NoFrame, ordered[i] = known.active, FALSE,
                          Read(ordered[i]))]

-----------------------------------------------------------------------------
(* Firefox: a file is a sequence of [win, private, frame, focused, selected, tabs], a tab   *)
(* of it [tab, entries, index]; selected and index count from 1.                            *)

\* append_tabs: the visible entry of a tab, the last when the index is no place of it.
Visible(tab) ==
    tab.entries[IF tab.index \in DOMAIN tab.entries THEN tab.index ELSE Len(tab.entries)]

\* A tab without entries is skipped, and so is one without a URL, which has its index.
AppendTabs(file) ==
    LET loaded  == AtPlaces(file.tabs, {i \in DOMAIN file.tabs : file.tabs[i].entries # <<>>})
        numbered == [i \in DOMAIN loaded |->
            BrowserTab(TabId(i - 1), i - 1, Visible(loaded[i]), FALSE, FALSE, loaded[i].tab, file.win)]
    IN  AtPlaces(numbered, {i \in DOMAIN numbered : numbered[i].url.form # "empty"})

\* The tab at the place of the selected one is active, among those that are left.
ReadFirefoxWindow(file) ==
    LET tabs == AppendTabs(file)
    IN  BrowserWindow(file.win, "firefox", file.frame, file.focused, file.private,
            [i \in DOMAIN tabs |-> [tabs[i] EXCEPT !.active = i = file.selected]])

ReadFirefox(file) ==
    LET read == [i \in DOMAIN file |-> ReadFirefoxWindow(file[i])]
    IN  AtPlaces(read, {i \in DOMAIN read : read[i].tabs # <<>>})
=============================================================================
