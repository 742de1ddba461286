------------------------------- MODULE Robots -------------------------------
(***************************************************************************)
(* policies.py: the robots rules as data, the text served from them, the   *)
(* parser of such a text, and the judge.  A path is a sequence of atoms    *)
(* (a slash, a name, a token), a pattern may also hold Star and End.  The  *)
(* length of a pattern, which decides between rules, counts atoms: of two  *)
(* patterns without wildcards that match one path, one is a prefix of the  *)
(* other.  A user agent is the set of product tokens that stand alone in   *)
(* it, in any case of letters.                                             *)
(***************************************************************************)
EXTENDS Naturals, Sequences, SequencesExt

Slash == <<"/">>
Star == <<"*">>
End == <<"$">>

(* "/a/b/" is Under(<<"a", "b">>).                                         *)
Under(dirs) == [i \in 1..(2 * Len(dirs) + 1) |-> IF i % 2 = 1 THEN Slash ELSE <<dirs[i \div 2]>>]
File(dirs, name) == Append(Under(dirs), <<name>>)

RobotsTxt == File(<<>>, "robots.txt")
StableDisallowUnlinked == File(<<"internal", "exports">>, "quarterly.html")
StableDisallowLinked == File(<<"docs", "restricted">>, "index.html")
StableAllowUnlinked == File(<<"public", "allowed">>, "index.html")

(* STANDARD_KIND, without the reserved code that is never minted.          *)
Prohibitions == {"robots", "robots_wellknown", "llms", "llms_full", "ai", "ai_wellknown",
                 "tdm_wellknown", "tdm_root", "noai_file"}
Invitations == {"sitemap", "sitemap_index", "security", "security_root", "humans",
                "ai_plugin", "dnt_policy", "gpc", "ads"}
Capabilities == {"meta_noai", "nofollow", "hidden_link", "js_beacon", "css_beacon"}
Controls == {"control_allow"}
Standards == Prohibitions \union Invitations \union Capabilities \union Controls

(* TRAP_TEMPLATES: the directory a trap path begins with.                  *)
TrapDir(s) ==
  CASE s \in {"robots", "robots_wellknown", "security", "security_root", "control_allow"}
         -> <<"internal">>
    [] s \in {"llms", "llms_full", "ai", "ai_wellknown", "noai_file", "ai_plugin",
              "dnt_policy", "gpc", "ads"} -> <<"private">>
    [] s \in {"tdm_wellknown", "tdm_root"} -> <<"reserved">>
    [] s \in {"meta_noai", "nofollow", "hidden_link"} -> <<"docs", "restricted">>
    [] s \in {"sitemap", "sitemap_index"} -> <<"archive">>
    [] s = "humans" -> <<"team">>
    [] s \in {"js_beacon", "css_beacon"} -> <<"assets">>

TrapPath(s, t) == Under(Append(TrapDir(s), s)) \o <<t>> \o <<Slash, <<"leaf">>>>

-----------------------------------------------------------------------------
(* ROBOTS_GROUPS.  A rule's trap is a standard, "self", or "" for none.    *)

Rule(allow, path) == [allow |-> allow, path |-> path, trap |-> ""]
TrapRule(allow, trap) == [allow |-> allow, path |-> <<>>, trap |-> trap]

Robots == {"robots", "robots_wellknown"}
NamedAgents == <<"GPTBot", "ClaudeBot", "CCBot", "Google-Extended", "Bytespider", "PerplexityBot">>

Everyone ==
  <<Rule(FALSE, Under(<<"internal">>)), Rule(FALSE, Under(<<"private">>)),
    Rule(FALSE, Under(<<"reserved">>)), Rule(FALSE, Under(<<"docs", "restricted">>)),
    TrapRule(FALSE, "self"), Rule(FALSE, StableDisallowUnlinked), Rule(FALSE, StableDisallowLinked),
    Rule(TRUE, Under(<<"public">>)), Rule(TRUE, StableAllowUnlinked), TrapRule(TRUE, "control_allow")>>

Groups ==
  <<[agents |-> <<"*">>, rules |-> Everyone]>>
  \o [i \in DOMAIN NamedAgents |->
        [agents |-> <<NamedAgents[i]>>, rules |-> <<Rule(FALSE, Under(<<>>))>>]]

\* Mutation: a trap of "self" is judged as robots.txt's own, and the control's token must be there.
LiteralPatterns(rule) ==
  IF rule.trap = "" THEN {rule.path}
  ELSE {TrapPath(s, <<"token">>) : s \in IF rule.trap = "self" THEN {"robots"} ELSE {rule.trap}}

(* The paths of a rule as the judge sees them: any token will do.          *)
Patterns(rule) ==
  IF rule.trap = "" THEN {rule.path}
  ELSE {TrapPath(s, Star) : s \in IF rule.trap = "self" THEN Robots ELSE {rule.trap}}

-----------------------------------------------------------------------------
(* The text: lines of a key and a value, comments and Crawl-delay among    *)
(* the lines with another key.                                             *)

Line(key, value) == [key |-> key, value |-> value]

(* _robots(): a trap rule without a trap is left out.                      *)
RuleLines(rule, traps) ==
  LET path == IF rule.trap = "" THEN rule.path ELSE traps[rule.trap] IN
  IF rule.trap # "" /\ path = <<>> THEN <<>>
  ELSE <<Line(IF rule.allow THEN "allow" ELSE "disallow", path)>>

(* The last line of a group is Crawl-delay or blank.                       *)
GroupLines(g, traps) ==
  [i \in DOMAIN g.agents |-> Line("user-agent", g.agents[i])]
  \o FlattenSeq([j \in DOMAIN g.rules |-> RuleLines(g.rules[j], traps)])
  \o <<Line("crawl-delay", <<>>)>>

Text(traps) ==
  <<Line("#", <<>>)>> \o FlattenSeq([i \in DOMAIN Groups |-> GroupLines(Groups[i], traps)])
  \o <<Line("sitemap", <<>>)>>

(* parse_robots().                                                         *)
Closed(p) == Append(p.groups, [agents |-> p.agents, rules |-> p.rules])

(* Consecutive user-agent lines open a group; a rule closes the list.      *)
ReadLine(p, line) ==
  CASE line.key = "user-agent" /\ p.inRules ->
         [groups |-> Closed(p), agents |-> <<line.value>>, rules |-> <<>>, inRules |-> FALSE]
    [] line.key = "user-agent" /\ ~p.inRules -> [p EXCEPT !.agents = Append(@, line.value)]
    [] line.key \in {"allow", "disallow"} /\ p.agents # <<>> ->
         [p EXCEPT !.inRules = TRUE,
                   !.rules = Append(@, Rule(line.key = "allow", line.value))]
    [] OTHER -> p

Unread == [groups |-> <<>>, agents |-> <<>>, rules |-> <<>>, inRules |-> FALSE]

ReadLines(p, lines) ==
  LET after[n \in 0..Len(lines)] == IF n = 0 THEN p ELSE ReadLine(after[n - 1], lines[n])
  IN  after[Len(lines)]

Parse(lines) ==
  LET p == ReadLines(Unread, lines) IN IF p.agents = <<>> THEN p.groups ELSE Closed(p)

-----------------------------------------------------------------------------
(* The judge.                                                              *)

(* _pattern_regex().match(): how far into the path the first i atoms of    *)
(* the pattern can reach.  A Star stands for any atoms, a final End for    *)
(* the end of the path, and without it a prefix is enough.                 *)
Reached(pattern, path, i, before) ==
  CASE pattern[i] = Star -> {k \in 0..Len(path) : \E j \in before : j <= k}
    [] pattern[i] = End /\ i = Len(pattern) -> before \intersect {Len(path)}
    [] OTHER -> {j + 1 : j \in {j \in before : j < Len(path) /\ path[j + 1] = pattern[i]}}

Matches(pattern, path) ==
  LET reach[i \in 0..Len(pattern)] ==
        IF i = 0 THEN {0} ELSE Reached(pattern, path, i, reach[i - 1])
  IN  reach[Len(pattern)] # {}

(* evaluate(): TRUE when the path is disallowed.  All groups that name the *)
(* agent count; only if none does, the groups of "*".                      *)
Chosen(groups, ua) ==
  LET specific == {g \in ToSet(groups) : (ToSet(g.agents) \ {"*"}) \intersect ua # {}} IN
  IF specific # {} THEN specific ELSE {g \in ToSet(groups) : "*" \in ToSet(g.agents)}

(* The patterns that match of the rules that allow, or disallow.           *)
Matching(groups, allow, path) ==
  {q \in UNION {Patterns(r) : r \in {r \in UNION {ToSet(g.rules) : g \in groups} : r.allow = allow}} :
     q # <<>> /\ Matches(q, path)}

(* The longest pattern wins, and an allow wins a tie.                      *)
Evaluate(groups, path, ua) ==
  LET chosen == Chosen(groups, ua) IN
  /\ path # RobotsTxt
  /\ \E d \in Matching(chosen, FALSE, path) :
       \A a \in Matching(chosen, TRUE, path) : Len(a) < Len(d)

(* disallowed(): by the rules as data.                                     *)
Disallowed(path, ua) == Evaluate(Groups, path, ua)

=============================================================================
