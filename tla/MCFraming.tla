------------------------------ MODULE MCFraming ------------------------------
(* Framing for TLC: the kinds of child to check.                            *)
EXTENDS Framing

Kind(format_, lengths_, headerWhole_, mayDie_) ==
  [format |-> format_, lengths |-> lengths_, requests |-> {2}, early |-> FALSE,
   headerWhole |-> headerWhole_, mayDie |-> mayDie_]

\* Lines that fit in the buffer and payloads that need not, from children that
\* live and children that may die.
WellBehaved ==
  {Kind("line", {0, 1, 2, 3}, FALSE, die) : die \in BOOLEAN}
    \cup {Kind("binary", {0, 1, 3, 6}, TRUE, die) : die \in BOOLEAN}

\* Requests and answers on both sides of the capacity of a pipe, from a child
\* that reads first and a child that answers early, and a length of two bytes.
Long(early_, requests_, lengths_) ==
  [Kind("binary", lengths_, TRUE, FALSE) EXCEPT !.early = early_, !.requests = requests_]

Exchanges ==
  WellBehaved \cup
    {Long(FALSE, {1, 8}, {6}), Long(TRUE, {1, 5}, {6}), Long(TRUE, {1, 8}, {0, 1}),
     Long(TRUE, {8}, {1, 6}), Long(FALSE, {1}, {260})}

==============================================================================
