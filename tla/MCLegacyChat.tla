---------------------------- MODULE MCLegacyChat ----------------------------
(* Two users and a group, and three messages: enough for a message that is  *)
(* queued behind another one of its sender, or of the other sender.         *)
EXTENDS LegacyChat

CONSTANTS u1, u2, g1

MCUsers == {u1, u2}
MCGroups == {g1}
MCMaxMsg == 3
=============================================================================
