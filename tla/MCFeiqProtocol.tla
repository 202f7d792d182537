---------------------------- MODULE MCFeiqProtocol ---------------------------
(* A legacy host that changes its settings between its runs, with another   *)
(* one or with a host that runs ifc, and two hosts that run ifc.  There are *)
(* names of both sides of the room of a msg_t, a category that is longer    *)
(* than the rest of its entry, and texts that just have room, that do not   *)
(* when they are enciphered, that have none, and that no datagram of the    *)
(* legacy listener takes whole.                                             *)
EXTENDS FeiqProtocol, TLC

CONSTANTS h1, h2, h3, h4

Profile(username, hostname, nickname, category, mac) ==
  [username |-> username, hostname |-> hostname, nickname |-> nickname,
   category |-> category, mac |-> mac]

MCSigns == {":", "#", "NUL", "packet", "QUNMSGMARK"} \cup DOMAIN CommandOf
  \cup {"ann", "bob", "eve", "a", "b", "n", "pc", "an", "bo", "na", "the", "dev", "team"}
  \cup {"m1", "m2", "m3", "m4", "m5", "p", "c", "o", "g1", "g2", "1"}
MCHosts == {h1, h2, h3, h4}
MCNetworks == {{h1, h2}, {h1, h3}, {h3, h4}}
MCLegacy == {h1, h2}
MCProfilesOf ==
  h1 :> {Profile(<<"a", "n", "n">>, <<"p", "c", "1", "1">>, <<"an">>, <<"the", "dev", "team">>, "m1"),
         Profile(<<"a", "n", "n">>, <<"pc">>, << >>, << >>, "m2"),
         Profile(<<"a", ":", "b">>, <<"pc">>, <<"an">>, <<"dev">>, "m1")}
  @@ h2 :> {Profile(<<"bob">>, <<"pc">>, <<"bo">>, <<"dev">>, "m3")}
  @@ h3 :> {Profile(<<"eve">>, <<"pc">>, << >>, <<"the", "a", "b", "dev", "team">>, "m4")}
  @@ h4 :> {Profile(<<"b", "o", "b">>, <<"p", "c", "1">>, << >>, <<"dev">>, "m5")}
MCGroupsOf == h1 :> {"g1", "g2"} @@ h2 :> {"g1"} @@ h3 :> {} @@ h4 :> {}
MCMaxBoots == h1 :> 2 @@ h2 :> 1 @@ h3 :> 1 @@ h4 :> 1
MCNicknames == {<<"an", ":", "na">>}
Ones(n) == [i \in 1 .. n |-> "1"]
MCTexts == {<<"#", "1", ":", "#">> \o Ones(TextRoom - 9), Ones(BodyRoom)}
==============================================================================
