-------------------------------- MODULE MCBoot --------------------------------
(* a runs behind a proxy and has two persona ports.  b is a second start of *)
(* the same sensor, or a sensor on the same port of the other family that   *)
(* shares its socket files and has a key of its own from the environment,   *)
(* or one with a configuration that start_sites() refuses.                  *)
EXTENDS Boot, TLC

CONSTANTS a, b, env

Sock(f, role) == [net |-> "unix", at |-> f, port |-> 0, role |-> role]
Plain(port) == [given |-> NoOne, host |-> "0.0.0.0", port |-> port,
                proxy |-> <<>>, trust |-> FALSE, personas |-> <<>>,
                sockets |-> <<Sock("front.sock", "front"), Sock("admin.sock", "admin")>>]
Main == [Plain(80) EXCEPT !.proxy = <<Tcp("lo", 81, "proxy")>>, !.trust = TRUE,
                          !.personas = <<[name |-> "ollama", port |-> 0],
                                         [name |-> "php", port |-> 82]>>]

MCProcs == {a, b}
MCConfigs == (a :> {Main} @@
              b :> {Main, [Plain(80) EXCEPT !.host = "::", !.given = env],
                    [Plain(90) EXCEPT !.trust = TRUE],
                    [Plain(90) EXCEPT !.sockets = <<Sock("file", "front")>>],
                    [Plain(90) EXCEPT !.personas = <<[name |-> "php", port |-> 0]>>]})
MCDefaultPorts == [ollama |-> 11434, php |-> 0]
MCSources == [google |-> {1, 2}]

(* These configurations keep to the comment in _sock_key().                *)
ASSUME DistinctOK == \A p \in Procs : \A c \in Configs[p] : Distinct(c)
==============================================================================
