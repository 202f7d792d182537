---------------------------- MODULE MCLegacyStart ----------------------------
(* Three users in up to two categories: two can share one that came early   *)
(* while the third has a row that is written over.                          *)
EXTENDS LegacyStart

==============================================================================
