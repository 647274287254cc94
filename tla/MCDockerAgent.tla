--------------------------- MODULE MCDockerAgent ---------------------------
(* An instance of DockerAgent for TLC: two jobs, one of them retried under  *)
(* its name, with and without a timeout of their own.                       *)
EXTENDS DockerAgent

AskedTimeouts == {0, 2}

=============================================================================
