----------------------------- MODULE MCAnalysis -----------------------------
(* Three clients: two behind one address, and one without TLS at another.  *)
EXTENDS Analysis

Alice == [ip |-> "ip1", ja4 |-> "ja4a", order |-> "o1"]
Bob   == [ip |-> "ip1", ja4 |-> "ja4b", order |-> "o1"]
Carol == [ip |-> "ip2", ja4 |-> "none", order |-> "o1"]

At(depth, w) == [what |-> w, depth |-> depth]

Ask(c) ==
  [client |-> c, query |-> {}, basic |-> {}, apikey |-> {}, body |-> {},
   login |-> "none", tool |-> {}, probe |-> NoProbe, urls |-> {}]

Probe(attacks, stage, decoy) ==
  [family |-> "f", web_attacks |-> attacks, stage |-> stage, decoy_served |-> decoy]

Token(kind, key) == <<"token", kind, key>>
Password == At(0, <<"data", "password">>)
Exploit(depth) == At(depth, <<"attack">>)

Url(host, spelling) == <<"url", host, spelling>>
Blob(host) == At(0, <<"blob", {Url(host, "s1")}>>)

Asked == {
  \* a visitor with a password and an API key, and the same password elsewhere
  [Ask(Alice) EXCEPT !.basic = {Password}, !.apikey = {At(0, <<"data", "apikey">>)}],
  [Ask(Carol) EXCEPT !.body = {Password}, !.login = "body", !.tool = {"curl"}],
  [Ask(Bob) EXCEPT !.query = {Password}, !.login = "query"],
  \* an exploit in a body, sent by two
  [Ask(Bob) EXCEPT !.body = {Exploit(1), At(0, Url("h1", "s1"))}, !.tool = {"curl"}],
  [Ask(Carol) EXCEPT !.body = {Exploit(1), At(0, Url("h1", "s1"))}],
  \* the same host in another spelling, a callback to it, a host that is none
  [Ask(Alice) EXCEPT !.query = {At(2, Url("h1", "s2")), At(0, Url(NoHost, "s1"))}],
  [Ask(Carol) EXCEPT !.query = {At(0, <<"oast", "h1">>)}, !.probe = Probe({}, FALSE, FALSE)],
  \* more URLs than are taken, one of them the sensor's, and more blobs
  [Ask(Carol) EXCEPT !.query = {At(0, Url(h, "s1")) : h \in {"h1", "h2", OwnHost}}],
  \* tokens: a key id with its secret, and with it in another field, an
  \* encoded one, one of another key, and one that no decoding shows
  [Ask(Alice) EXCEPT !.body = {At(0, Token("aws_key_id", Key)), At(0, <<"secret", Key>>), Exploit(0)},
                     !.basic = {At(0, <<"secret", Key>>)}],
  [Ask(Bob) EXCEPT !.query = {At(1, Token("aws_key_id", Key))}, !.basic = {At(0, Token("password", "other"))}],
  [Ask(Carol) EXCEPT !.query = {At(0, Token("beacon", Key)), At(3, Token("beacon", Key))}, !.probe = Probe({}, TRUE, TRUE)],
  \* probes
  [Ask(Bob) EXCEPT !.probe = Probe({}, FALSE, TRUE)],
  [Ask(Bob) EXCEPT !.probe = Probe({}, FALSE, TRUE), !.basic = {Blob("h1"), Blob("h2")}],
  [Ask(Bob) EXCEPT !.probe = Probe({"recon"}, FALSE, FALSE), !.body = {At(0, <<"data", "body">>)}],
  [Ask(Carol) EXCEPT !.probe = Probe({"rce"}, FALSE, FALSE), !.body = {At(0, <<"data", "body">>)}] }

MCRequests == UNION {{[q EXCEPT !.urls = found] : found \in Findings(q)} : q \in Asked}
=============================================================================
