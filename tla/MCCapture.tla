----------------------------- MODULE MCCapture ------------------------------
(* An instance of Capture for TLC: a browser with two windows and a private *)
(* one, and an editor whose app id two patterns of three characters try.    *)
EXTENDS Capture, TLC

\* The texts of the instance, none of which has a wildcard in it.
Words == {"", "a", "b", "c", "x", "q", "pwd", "short", "token", "plain", "telling", "https", "file",
          "edge", "docs", "zoom.us", "www.bank.com", "settings", "/", "/a", "/b", "/reset"}

Url(scheme, host, path, query) ==
    [form |-> "url", scheme |-> scheme, user |-> FALSE, host |-> host, path |-> path,
     query |-> query, frag |-> FALSE]
Param(key, value) == [key |-> key, value |-> value]
PageAt(url, title) == [url |-> url, title |-> title]

Docs    == PageAt(Url("https", "docs", "/b", <<Param("q", "short")>>), "plain")
Signed  == PageAt([Url("https", "zoom.us", "/a", <<Param("pwd", "short"), Param("x", "token")>>)
                      EXCEPT !.user = TRUE, !.frag = TRUE], "telling")
Reset   == PageAt(Url("https", "docs", "/reset", <<Param("q", "token")>>), "plain")
Bank    == PageAt(Url("https", "www.bank.com", "/", <<>>), "plain")
File    == PageAt(Url("file", "", "/a", <<>>), "plain")
Setting == PageAt([Url("edge", "", "settings", <<>>) EXCEPT !.form = "opaque"], "plain")

Pages == {Reset, Setting}

\* Tab 4 is not open yet.
ThreeOpen ==
    <<[win |-> 1, pages |-> <<Docs>>, at |-> 1], [win |-> 2, pages |-> <<Signed, Docs>>, at |-> 2],
      [win |-> 3, pages |-> <<Bank>>, at |-> 1]>>

\* Two windows that nearly cover each other, and the private one apart from both.
SomeFrames == {<<0, 1, 6>>}

Editor == <<DesktopWindow(9, "none", 0, FALSE, <<"a", "a", "b">>, FALSE)>>
Chrome == <<"c">>

Asked(tabs, incognito, sanitize, minimized, apps, urls) ==
    [tabs |-> tabs, incognito |-> incognito, sanitize |-> sanitize, minimized |-> minimized,
     apps |-> apps, urls |-> urls]

Options == {
    Asked(TRUE, FALSE, TRUE, TRUE, {<<"*", "a", "b">>}, {<<"https", "*", "/b", "*">>}),
    Asked(TRUE, TRUE, FALSE, FALSE, {<<"?", "b">>, <<"*", "b">>}, {<<"*">>}),
    Asked(FALSE, TRUE, TRUE, TRUE, {<<"?", "*", "b">>}, {}) }
=============================================================================
