----------------------------- MODULE MCWebPages -----------------------------
(* Instances of WebPages for TLC. *)
EXTENDS WebPages

Key(offset, id) == [offset |-> offset, id |-> id]

\* Before the start, at it, and three at one offset, as in a busy chat,
\* between which a page ends, and which the durations put at and behind the end.
MCMessages == {Key(-4, 1), Key(0, 2), Key(6, 1), Key(6, 2), Key(6, 3)}
MCHits == MCMessages \ {Key(6, 2)}
=============================================================================
