---------------------------- MODULE MCDockerStream ----------------------------
(* DockerStream for TLC: the circumstances to check.                         *)
EXTENDS DockerStream

\* An image that is pulled, without a name.
Plain == [overlap |-> FALSE, named |-> FALSE, pull |-> TRUE, removeFails |-> FALSE]

\* Every request may fail; with a name; with an owner that closes at any time.
AllKinds ==
  {Plain, [Plain EXCEPT !.removeFails = TRUE],
   [Plain EXCEPT !.named = TRUE, !.removeFails = TRUE],
   [Plain EXCEPT !.overlap = TRUE, !.pull = FALSE, !.removeFails = TRUE]}

==============================================================================
