--------------------------- MODULE MCStreamCatalog --------------------------
(* An instance of StreamCatalog for TLC. *)
EXTENDS StreamCatalog, TLC

MCLinks ==
  {[scheme |-> "https", authority |-> "host", host |-> h, path |-> p,
    video |-> v, escapes |-> n] :
     h \in {"youtu.be", "youtube.com"}, p \in {"segment", "watch"},
     v \in Videos \union {NULL}, n \in {0, 2}}

Symmetry == Permutations(Monitors)
=============================================================================
