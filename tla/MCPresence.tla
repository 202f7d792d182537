----------------------------- MODULE MCPresence -----------------------------
(* Two legacy hosts of different users that restart, on a reliable and on a *)
(* faulty network; and three hosts that do not, of which two are of one     *)
(* user and one runs ifc.                                                   *)
EXTENDS Presence, TLC

CONSTANTS h1, h2, h3

MCHosts == {h1, h2, h3}
MCLegacy == {h1, h2}
MCUserName == h1 :> "ann" @@ h2 :> "bob" @@ h3 :> "bob"

Boots(hosts, n) == [h \in MCHosts |-> IF h \in hosts THEN n ELSE 0]

MCNetworks ==
  {[faulty |-> FALSE, boots |-> Boots({h1, h2}, 2)],
   [faulty |-> TRUE, boots |-> [Boots({h1, h2}, 1) EXCEPT ![h1] = 2]],
   [faulty |-> FALSE, boots |-> Boots(MCHosts, 1)]}
=============================================================================
