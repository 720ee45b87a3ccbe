------------------------------- MODULE Queues -------------------------------
(* What the code's queues do to their elements (VecDeque, Vec), by a function *)
(* recursive on the length so that it can be proved about.                  *)
EXTENDS Naturals, Sequences

\* filter: the elements of s at the positions in P, in their order.
Picked(s, P) ==
    LET picked[n \in 0 .. Len(s)] ==
            IF n = 0 THEN <<>>
            ELSE IF n \in P THEN Append(picked[n - 1], s[n]) ELSE picked[n - 1]
    IN picked[Len(s)]

\* retain: s without the elements of S, those that stay in their order.
Without(s, S) == Picked(s, {i \in DOMAIN s : s[i] \notin S})
=============================================================================
