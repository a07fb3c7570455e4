--------------------------- MODULE MCMetricsTiers ----------------------------
(***************************************************************************)
(* Instances of MetricsTiers for TLC.  Times are minutes after some        *)
(* midnight.  The moments are chosen so that samples share a five-minute   *)
(* bucket, share only an hour, or share nothing; that retention periods    *)
(* end inside a bucket and on its edge; and that both downsamplings and    *)
(* the expiry happen.                                                      *)
(***************************************************************************)
EXTENDS MetricsTiers, TLC

MCInstants == {243, 247, 249, 258, 310, 365, 430}

\* Samples are interchangeable up to the instant and the server they carry.
Symmetry == Permutations(Servers) \union Permutations(Workers)
=============================================================================
