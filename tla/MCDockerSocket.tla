--------------------------- MODULE MCDockerSocket ---------------------------
(* Instance of DockerSocket for TLC: two labels, two writers. *)
EXTENDS DockerSocket

Two == {"docker-socket-published", "other"}
=============================================================================
