----------------------------- MODULE Sanitizer ------------------------------
(***************************************************************************)
(* What a URL may be when it is stored (src/privacy/sanitizer.cpp): the    *)
(* glob matcher, the rules and the Sanitizer that applies them to a URL    *)
(* and to the tabs of a snapshot.                                          *)
(*                                                                         *)
(* A URL is what parse_url makes of it, a record                           *)
(*   [form, scheme, user, host, path, query, frag]                         *)
(* whose form is "empty", "bad" (no scheme), "opaque" (about:blank) or     *)
(* "url"; query is a sequence of [key, value] where the value "token" is   *)
(* a long one of high entropy, and user and frag say whether there is one. *)
(* Keys are in lower case.  A port is part of the host.                    *)
(***************************************************************************)
EXTENDS Naturals, Sequences, Ordered

CONSTANTS
    Word,        \* the texts that a part of a URL, a title and an element of an app id may be
    StripAll, StripFragments, StripUserinfo, DetectEntropy, \* SanitizerOptions
    Sensitive,   \* extra_sensitive_params
    Denied,      \* the hosts the patterns of domain_denylist match
    Allowlist,   \* whether there is a domain_allowlist
    Allowed      \* the hosts its patterns match

ASSUME SanitizerAssumption ==
    {StripAll, StripFragments, StripUserinfo, DetectEntropy, Allowlist} \subseteq BOOLEAN

Urls == [form: {"empty", "bad", "opaque", "url"}, scheme: Word, user: BOOLEAN, host: Word,
         path: Word, query: Seq([key: Word, value: Word]), frag: BOOLEAN]

\* Those parse_url gives: of a text without a scheme nothing is known but whether it has a
\* query, and an empty one has none.
Parsed == {u \in Urls :
    /\ u.form \in {"empty", "bad"} =>
            <<u.scheme, u.host, u.path, u.user, u.frag>> = <<"", "", "", FALSE, FALSE>>
    /\ u.form = "empty" => u.query = <<>>}

-----------------------------------------------------------------------------
\* glob_match: the iterative matcher.  p and t are the next places of the pattern and of
\* the text, star the last `*` met (0 when none was) and mark the place of the text that
\* it has been tried up to.
AtStart == [p |-> 1, t |-> 1, star |-> 0, mark |-> 0]

\* A round of the loop, if there is one: a character is compared before it is taken for a
\* wildcard.  Without a star to go back to the text is not matched: at stays.
Round(pattern, text, at) ==
    LET there == at.p <= Len(pattern)
    IN  IF at.t > Len(text) THEN at
        ELSE IF there /\ pattern[at.p] \in {"?", text[at.t]}
             THEN [at EXCEPT !.p = @ + 1, !.t = @ + 1]
        ELSE IF there /\ pattern[at.p] = "*"
             THEN [p |-> at.p + 1, t |-> at.t, star |-> at.p, mark |-> at.t]
        ELSE IF at.star # 0
             THEN [at EXCEPT !.p = at.star + 1, !.t = at.mark + 1, !.mark = @ + 1]
        ELSE at

\* No loop has more rounds: each is further in the text, or in the pattern at the same mark.
MostRounds(pattern, text) == (Len(pattern) + 2) * (Len(text) + 2)

\* Where so many rounds lead to.
Rounds(pattern, text) ==
    LET after[k \in 0..MostRounds(pattern, text)] ==
            IF k = 0 THEN AtStart ELSE Round(pattern, text, after[k - 1])
    IN  after

GlobMatch(pattern, text) ==
    LET end == Rounds(pattern, text)[MostRounds(pattern, text)]
    IN  end.t > Len(text) /\ \A i \in end.p..Len(pattern) : pattern[i] = "*"

-----------------------------------------------------------------------------
\* A rule: the parameters it removes or masks, and the hosts and paths its patterns match,
\* none when it has no pattern.
Rule(id, action, params, hosts, paths) ==
    [id |-> id, action |-> action, params |-> params, hosts |-> hosts, paths |-> paths]

\* default_rules: a parameter, a host or a path stands for its kind.
DefaultRules == <<
    Rule("oauth", "RemoveParameter", {"access_token", "code", "state"}, {}, {}),
    Rule("session", "RemoveParameter", {"sid", "sig", "pwd", "key"}, {}, {}),
    Rule("presigned-storage", "RemoveParameter", {"sig", "x-amz-signature"}, {"s3.amazonaws.com"}, {}),
    Rule("reset-links", "TruncatePath", {}, {}, {"/reset", "/verify"}),
    Rule("meeting-passcodes", "RemoveParameter", {"pwd", "tk"}, {"zoom.us"}, {}),
    Rule("trackers", "RemoveParameter", {"utm_source"}, {}, {}),
    Rule("local-files", "DropUrl", {}, {""}, {}),
    Rule("private-browsing", "ExcludeTab", {}, {"www.bank.com"}, {}) >>

IsHostBlocked(host) == IF Allowlist THEN host \notin Allowed ELSE host \in Denied

LooksLikeSecret(p) == p.key \in Sensitive \/ (DetectEntropy /\ p.value = "token")

Concerns(rule, u) ==
    /\ rule.id # "local-files"
    /\ rule.hosts = {} \/ u.host \in rule.hosts
    /\ rule.paths = {} \/ u.path \in rule.paths

Names(rule, p) == p.key \in rule.params

\* Whether a rule that concerns a URL is applied to it, and what it makes of it.
Applied(rule, u) ==
    CASE rule.action = "DropUrl" -> TRUE
      [] rule.action = "TruncatePath" -> u.path \notin {"", "/"}
      [] OTHER -> \E i \in DOMAIN u.query : Names(rule, u.query[i])

Apply(rule, u) ==
    CASE rule.action = "DropUrl" -> [u EXCEPT !.path = "", !.query = <<>>, !.frag = FALSE]
      [] rule.action = "TruncatePath" -> [u EXCEPT !.path = "/", !.query = <<>>]
      [] rule.action = "RemoveParameter" ->
            [u EXCEPT !.query = AtPlaces(@, {i \in DOMAIN @ : ~Names(rule, @[i])})]
      [] rule.action = "MaskParameter" ->
            [u EXCEPT !.query = [i \in DOMAIN @ |->
                IF Names(rule, @[i]) THEN [@[i] EXCEPT !.value = "[redacted]"] ELSE @[i]]]

\* A sanitized URL, while the rules are applied: nothing more is done to an excluded one.
Result(u, modified, excluded) == [url |-> u, modified |-> modified, excluded |-> excluded]

ApplyRule(r, rule) ==
    IF r.excluded \/ ~Concerns(rule, r.url) THEN r
    ELSE IF rule.action = "ExcludeTab" THEN Result(r.url, TRUE, TRUE)
    ELSE IF Applied(rule, r.url) THEN Result(Apply(rule, r.url), TRUE, FALSE)
    ELSE r

\* userinfo, fragment and query, by the options.
Stripped(u) ==
    [u EXCEPT !.user = @ /\ ~StripUserinfo,
              !.frag = @ /\ ~StripFragments,
              !.query = IF StripAll THEN <<>> ELSE @]

WithoutSecrets(u) ==
    [u EXCEPT !.query = AtPlaces(@, {i \in DOMAIN @ : ~LooksLikeSecret(@[i])})]

\* ParsedUrl::to_string writes what follows the colon of an opaque URL after "://".  It is called for
\* a URL a rule has rewritten, whose path is then "" or "/".
Written(u) == IF u.form = "opaque" THEN [u EXCEPT !.form = "url"] ELSE u

Redacted == [form |-> "url", scheme |-> "file", user |-> FALSE, host |-> "",
             path |-> "/[redacted]", query |-> <<>>, frag |-> FALSE]

\* The result before the rules, then after each of them in turn.
RuledBy(start) ==
    LET after[k \in 0..Len(DefaultRules)] ==
            IF k = 0 THEN start ELSE ApplyRule(after[k - 1], DefaultRules[k])
    IN  after

Ruled(start) == RuledBy(start)[Len(DefaultRules)]

\* The rules see the URL before the userinfo and the fragment are taken from it, and the
\* entropy check is skipped when a rule has been applied.
MutSanitizeUrl(u) ==
    LET ruled == Ruled(Result(Stripped(u), Stripped(u) # u, FALSE))
    IN  IF u.scheme = "file" THEN Result(Redacted, TRUE, FALSE)
        ELSE IF ruled.excluded \/ ruled.modified THEN ruled
        ELSE Result(WithoutSecrets(u), WithoutSecrets(u) # u, FALSE)

SanitizeUrl(u) ==
    LET stripped == Stripped(u)
        ruled    == Ruled(Result(stripped, stripped # u, FALSE))
        clean    == WithoutSecrets(ruled.url)
    IN  CASE u.form = "empty"       -> Result(u, FALSE, FALSE)
          [] u.form = "bad"         -> Result(u, u.query # <<>>, u.query # <<>>)
          [] u.form \in {"url", "opaque"} /\ u.scheme = "file" -> Result(Redacted, TRUE, FALSE)
          [] u.form \in {"url", "opaque"} /\ u.scheme # "file" ->
                IF IsHostBlocked(u.host) THEN Result(u, TRUE, TRUE)
                ELSE IF ruled.excluded THEN Result(u, TRUE, TRUE)
                ELSE IF ruled.modified \/ clean # ruled.url THEN Result(Written(clean), TRUE, FALSE)
                ELSE Result(u, FALSE, FALSE)

-----------------------------------------------------------------------------
Reindexed(tabs) == [i \in DOMAIN tabs |-> [tabs[i] EXCEPT !.index = i - 1]]

\* A rewritten tab loses a title that may repeat what was taken from its URL.
SanitizeTab(tab) ==
    LET r == SanitizeUrl(tab.url)
    IN  IF ~r.modified THEN tab
        ELSE [tab EXCEPT !.url = r.url, !.sanitized = TRUE,
                         !.title = IF @ = "telling" THEN "[redacted]" ELSE @]

SanitizeTabs(tabs) ==
    LET kept == AtPlaces(tabs, {i \in DOMAIN tabs : ~SanitizeUrl(tabs[i].url).excluded})
    IN  Reindexed([i \in DOMAIN kept |-> SanitizeTab(kept[i])])

SanitizeSnapshot(windows) ==
    [w \in DOMAIN windows |-> [windows[w] EXCEPT !.tabs = SanitizeTabs(@)]]
=============================================================================
