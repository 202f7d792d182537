------------------------------ MODULE MCSettings -----------------------------
(* A file as the program comes with, one whose groups lack fields and that  *)
(* has no nickname, one with two nicknames, and one with a long user name.  *)
(* What is typed: a nickname that fits, one with an '&' and one that is too *)
(* long.                                                                    *)
EXTENDS Settings

Network(section) == Element(section, "network", "mac", "m1")

Group(section) == Element(section, "group", "group", "")

MCFiles ==
  { << Network(1),
       Element(2, "user", "nickname", "asd"), Element(2, "user", "username", "adm"),
       Group(3), Element(3, "group", "name", "n1"), Element(3, "group", "id", "i1"),
       Element(3, "group", "info", "t1"),
       Group(4), Element(4, "group", "name", "n2"), Element(4, "group", "id", "i2") >>,
    << Element(1, "user", "username", "adm"),
       Group(2), Element(2, "group", "id", "i1"), Group(3), Element(3, "group", "name", "n2"),
       Network(4) >>,
    << Element(1, "user", "nickname", "asd"), Network(2),
       Element(3, "user", "nickname", "ann"), Element(3, "user", "username", "adm") >>,
    << Element(1, "user", "username", "long"), Element(1, "user", "nickname", "asd"), Network(2) >> }

MCNicknames == {"ann", "a&b", "long"}

MCReadBack == [n \in MCNicknames |-> IF n = "a&b" THEN "a" ELSE n]

MCTooLong == {<<"nickname", "long">>, <<"username", "long">>}
==============================================================================
