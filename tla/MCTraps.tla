------------------------------- MODULE MCTraps -------------------------------
(* Two addresses with one user agent; a file with an extra and one that    *)
(* only invites; a decoy that is filled and a probe without one.           *)
EXTENDS Traps

CONSTANTS ip1, ip2

MCClients == {[ip |-> ip1, ua |-> {"Mozilla"}], [ip |-> ip2, ua |-> {"Mozilla"}]}
MCProbes ==
  << [prefix |-> File(<<>>, ".env"), family |-> "dotenv", decoy |-> {"aws_access_key", "aws_secret"}],
     [prefix |-> File(<<"api">>, "jobs"), family |-> "ray", decoy |-> NoDecoy] >>
MCPersonas == {[families |-> {"ray"}, stages |-> {File(<<"api">>, "jobs")}, default |-> TRUE,
                asked |-> {File(<<"api">>, "jobs"), File(<<>>, "healthz")}]}
MCShapes == {{"dotdot", "credential_file"}}
MCUnrouted == {StableDisallowUnlinked, File(<<>>, ".env"), File(<<>>, "healthz")}
MCSymmetry == Permutations({ip1, ip2})
=============================================================================
