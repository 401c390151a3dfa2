----------------------------- MODULE MCDockerCall -----------------------------
(* DockerCall for TLC: the configurations to check.                          *)
EXTENDS DockerCall

\* A global command with stdin, in a container of its own that is removed.
GlobalCommand ==
  [global |-> TRUE, retain |-> FALSE, remove |-> TRUE, pull |-> TRUE, name |-> "",
   openStdin |-> FALSE, input |-> TRUE, overlap |-> FALSE, existing |-> FALSE,
   removeFails |-> FALSE, closeFails |-> FALSE, cancels |-> FALSE]

\* A sidecar without a name and without stdin, for one call.
Sidecar == [GlobalCommand EXCEPT !.global = FALSE, !.input = FALSE]

\* A global command, also with removals that fail, and with connections that
\* cannot be closed; a sidecar, also of calls that overlap; one that has a name,
\* as the documentation writes it and with the "/" the daemon lists it by, also
\* with one of that name there and removals that fail; a retained one.
AllKinds ==
  {GlobalCommand, [GlobalCommand EXCEPT !.removeFails = TRUE, !.openStdin = TRUE],
   [GlobalCommand EXCEPT !.closeFails = TRUE, !.input = FALSE],
   Sidecar, [Sidecar EXCEPT !.overlap = TRUE],
   [Sidecar EXCEPT !.name = "name", !.input = TRUE], [Sidecar EXCEPT !.name = "/name"],
   [Sidecar EXCEPT !.name = "/name", !.existing = TRUE, !.removeFails = TRUE, !.cancels = TRUE],
   [Sidecar EXCEPT !.retain = TRUE], [Sidecar EXCEPT !.retain = TRUE, !.name = "name"]}

StdinNotOpened == {GlobalCommand}

==============================================================================
