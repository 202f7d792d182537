----------------------------- MODULE FeiqProtocol ----------------------------
(***************************************************************************)
(* What the two programs write into their datagrams and what they make of  *)
(* those of each other.  A datagram is a line of fields that ':' ends,     *)
(*     version:packet:username:hostname:command:data                       *)
(* whose version has fields that '#' ends (among them the MAC address) and *)
(* whose data runs to the end: feiq.c of ifc; broadcast.c, pchatbox.c,     *)
(* gchatbox.c and process_msg.c of the legacy program.                     *)
(*                                                                         *)
(* A string is a sequence of tokens, of which ":", "#" and "NUL" matter,   *)
(* and each of which has the width of one.  Nothing tests the lengths: the *)
(* ifc program copies the fields into the arrays of a msg_t.               *)
(*                                                                         *)
(* Datagrams are lost, duplicated and reordered: one that was sent can     *)
(* arrive at any time, any number of times.  All strings are UTF-8, so     *)
(* that string_validate of encoding.c converts none.                       *)
(***************************************************************************)
EXTENDS Integers, SequencesExt

CONSTANTS
  Signs,        \* what a string is written with
  Hosts,
  Networks,     \* the sets of hosts that may be there together
  Legacy,       \* the hosts that run the legacy program, the others run ifc
  ProfilesOf,   \* what the settings of a host may be when it starts
  GroupsOf,     \* the groups in the settings of a legacy host
  Nicknames,    \* what a user may change the nickname to
  Texts,
  Nothing,
  NameRoom,     \* of username and hostname of the msg_t of ifc
  TextRoom,     \* of its data, and of plain and cipher of gchatbox.c
  BodyRoom,     \* what the legacy listener takes of a datagram behind its version
  Prefix,       \* the length of an entry of ifc up to the names and without them
  Block,        \* the width of an enciphered block
  MaxPosts,     \* bound: texts and changes of nickname
  MaxBoots      \* bound: starts of each host

ASSUME NetworkAssumption == Networks \subseteq SUBSET Hosts

Strings == Seq(Signs)

Profiles == [username : Strings, hostname : Strings, nickname : Strings, category : Strings, mac : Signs]

ASSUME ProfileAssumption == \A h \in Hosts : ProfilesOf[h] \subseteq Profiles

\* The signs that stand for themselves in a datagram; NUL ends a string of C.
ASSUME TextAssumption ==
  /\ Texts \subseteq Strings /\ Nicknames \subseteq Strings
  /\ \A s \in Texts \cup Nicknames : ~Contains(s, "NUL")
  /\ \A h \in Hosts : \A p \in ProfilesOf[h] :
       ~Contains(p.nickname, "NUL") /\ ~Contains(p.category, "NUL")

\* The settings have arrays of twice the room of a msg_t, and what they hold is
\* far shorter than a datagram may be: 32, 1024, 8160, 49 and 8.
ASSUME RoomAssumption ==
  /\ NameRoom \in Nat \ {0} /\ TextRoom \in Nat /\ BodyRoom \in Nat /\ Prefix \in Nat /\ Block \in Nat \ {0}
  /\ Prefix + 8 * NameRoom + Block + 4 <= TextRoom /\ TextRoom + 5 * NameRoom + 6 <= BodyRoom
  /\ \A n \in Nicknames : Len(n) < 2 * NameRoom
  /\ \A h \in Hosts : \A p \in ProfilesOf[h] :
       \A s \in {p.username, p.hostname, p.nickname, p.category} : Len(s) < 2 * NameRoom

ASSUME GroupAssumption == \A h \in Hosts : GroupsOf[h] \subseteq Signs \ {Nothing}

VARIABLES
  present,    \* the hosts that are there, one of Networks
  profile,    \* the settings of a host
  boot,       \* how often it was started
  net,        \* every datagram that was sent
  known,      \* known[h][p]: what the user list of h says of the address p
  heard,      \* the datagram that known[h][p] was taken from
  got,        \* the texts that were queued for the user of a host
  fault,      \* what went wrong, after which nothing is known of the program
  posts

protocolVars == <<present, profile, boot, net, known, heard, got, fault, posts>>

\* The commands, by the digits that stand for them in a datagram.
CommandOf == [BR_PROBE |-> 0, BR_ENTRY |-> 257, BR_EXIT |-> 2, ANSENTRY |-> 259,
              SENDMSG |-> 288, RECVMSG |-> 33, GPMSG |-> 4194339, GPINFO |-> 2097353]

ASSUME SignAssumption == {":", "#", "NUL", "packet", "QUNMSGMARK"} \cup DOMAIN CommandOf \subseteq Signs

\* The names of a host have no ':', or nothing in them is the number of a command.
ASSUME NameAssumption ==
  \A h \in Hosts : \A p \in ProfilesOf[h] : \A n \in {p.username, p.hostname} :
    \/ ~Contains(p.username, ":") /\ ~Contains(p.hostname, ":")
    \/ \A token \in DOMAIN CommandOf : ~Contains(n, token)

\* atoi: what does not start with digits is 0.
atoi(s) == IF Len(s) > 0 /\ s[1] \in DOMAIN CommandOf THEN CommandOf[s[1]] ELSE 0

\* Where the k-th c is, what ends there, and what is behind it.
Nth(s, c, k) ==
  IF k = 0 THEN 0
  ELSE CHOOSE i \in DOMAIN s : s[i] = c /\ Cardinality({j \in 1 .. i : s[j] = c}) = k

Field(s, c, k) == SubSeq(s, Nth(s, c, k - 1) + 1, Nth(s, c, k) - 1)

Behind(s, c, k) == SubSeq(s, Nth(s, c, k) + 1, Len(s))

CString(s) == IF Contains(s, "NUL") THEN Field(s, "NUL", 1) ELSE s

CutTo(s, n) == SubSeq(s, 1, IF Len(s) < n THEN Len(s) ELSE n)

\* A name in a msg_t, of which the field behind is written later: what does not
\* fit is written over, and with it the NUL.
Held(h, name, behind) ==
  IF h \in Legacy \/ Len(name) < NameRoom THEN name ELSE CutTo(name, NameRoom) \o behind

NoGroup == <<"no", "group">>

Garbage == <<"garbage">>

-----------------------------------------------------------------------------
\* A datagram of h: key is the MAC address that its data is enciphered with, or
\* Nothing; kind, by and run only say what was meant.
Signed(h, to, kind, username, hostname, data, key) ==
  [from |-> h, to |-> to, mac |-> profile[h].mac, key |-> key,
   body |-> <<"packet", ":">> \o username \o <<":">> \o hostname \o <<":", kind, ":">> \o data,
   kind |-> kind, by |-> profile[h], run |-> boot[h]]

Datagram(h, to, kind, data) ==
  Signed(h, to, kind, profile[h].username, profile[h].hostname, data, Nothing)

\* The line that a group text is deciphered to.
Marked(group, text) == <<"QUNMSGMARK", "#", group, "#">> \o text

\* Mutant: with the key of somebody else.
EncipheredUnkeyed(h, kind, plain) ==
  Signed(h, Hosts, kind, profile[h].username, profile[h].hostname, plain, "other")

Enciphered(h, kind, plain) ==
  Signed(h, Hosts, kind, profile[h].username, profile[h].hostname, plain, profile[h].mac)

\* The length of an entry up to its nickname.
Header(p) == Prefix + Len(p.username) + Len(p.hostname) + Len(p.nickname)

\* What feiq_entry_broadcast_pkt sends of the category: as many bytes again as
\* the header has, of a buffer of zeros.
Region(p) == [i \in 1 .. Header(p) + 1 |-> IF i <= Len(p.category) THEN p.category[i] ELSE "NUL"]

EntryData(h) ==
  profile[h].nickname \o <<"NUL">> \o
  (IF h \in Legacy THEN profile[h].category \o <<"NUL">> ELSE Region(profile[h]))

\* online_broadcast.  The legacy program also sends a probe and, to the
\* multicast address, a line for each group; nobody handles those.
Announcement(h) ==
  {Datagram(h, Hosts, "BR_ENTRY", EntryData(h))} \cup
  (IF h \in Legacy
   THEN {Datagram(h, Hosts, "BR_PROBE", <<"NUL">>)} \cup
        {Enciphered(h, "GPINFO", Marked(g, << >>)) : g \in GroupsOf[h]}
   ELSE {})

\* parse_message and feiq_parse_packet: the packet number, two names and the
\* command end at a ':' each, the version was cut off before.  The buffer of the
\* legacy listener was filled with zeros and takes no more than it has room for.
Parsed(h, d) ==
  LET body == IF h \in Legacy THEN CutTo(d.body, BodyRoom) ELSE d.body IN
  [mac |-> d.mac,
   username |-> Field(body, ":", 2),
   hostname |-> Field(body, ":", 3),
   command |-> atoi(Field(body, ":", 4)),
   data |-> Behind(body, ":", 4)]

\* on_buddy_entry and feiq_on_entry: an empty nickname is the user name, which
\* in ifc may already run on into the host name.
NicknameIn(h, msg) ==
  IF CString(msg.data) = << >> THEN Held(h, msg.username, msg.hostname) ELSE CString(msg.data)

\* The names as ifc reads them when feiq_on_entry has written the nickname.
HostnameIn(h, msg) == Held(h, msg.hostname, NicknameIn(h, msg))

UsernameIn(h, msg) == Held(h, msg.username, HostnameIn(h, msg))

\* Mutant: the first string is taken again.
CategoriesInFirst(h, msg) == {CString(msg.data)}

\* The category is the second string of the data.  An answer has no NUL: ifc
\* reads zeros there, the legacy program whatever is behind the allocation.
CategoriesIn(h, msg) ==
  IF Contains(msg.data, "NUL")
  THEN LET category == CString(Behind(msg.data, "NUL", 1))
       IN  {IF category = << >> THEN NoGroup ELSE category}
  ELSE {NoGroup} \cup (IF h \in Legacy THEN {Garbage} ELSE {})

-----------------------------------------------------------------------------
ProtocolInit ==
  /\ present \in Networks
  /\ profile \in [Hosts -> UNION {ProfilesOf[h] : h \in Hosts}]
  /\ \A h \in Hosts : profile[h] \in ProfilesOf[h]
  /\ boot = [h \in Hosts |-> 1]
  /\ net = UNION {Announcement(h) : h \in present}
  /\ known = [h \in Hosts |-> [p \in Hosts |-> Nothing]]
  /\ heard = [h \in Hosts |-> [p \in Hosts |-> Nothing]]
  /\ got = [h \in Hosts |-> {}]
  /\ fault = Nothing
  /\ posts = 0

Post(datagrams) ==
  /\ posts < MaxPosts
  /\ posts' = posts + 1
  /\ net' = net \cup datagrams

\* The program ends, with offline_broadcast if it is the legacy one; it is
\* started with other settings and announces itself.
Restart(h) ==
  /\ boot[h] < MaxBoots[h]
  /\ boot' = [boot EXCEPT ![h] = @ + 1]
  /\ \E p \in ProfilesOf[h] : profile' = [profile EXCEPT ![h] = p]
  /\ known' = [known EXCEPT ![h] = [p \in Hosts |-> Nothing]]
  /\ heard' = [heard EXCEPT ![h] = [p \in Hosts |-> Nothing]]
  /\ net' = net \cup Announcement(h)'
       \cup (IF h \in Legacy THEN {Datagram(h, Hosts, "BR_EXIT", EntryData(h))} ELSE {})
  /\ UNCHANGED <<present, got, fault, posts>>

\* The nickname handlers of window.c, of which that of the legacy program
\* calls online_broadcast.
Rename(h) ==
  /\ \E n \in Nicknames : profile' = [profile EXCEPT ![h].nickname = n]
  /\ UNCHANGED <<present, boot, known, heard, got, fault>>
  /\ Post(IF h \in Legacy THEN Announcement(h)' ELSE {})

Fault(what, h, d, before) == [what |-> what, at |-> h, by |-> d, before |-> before]

\* on_send_message of pchatbox.c, whose text has no NUL.
SendTextLegacy(h, p, text) ==
  /\ h \in Legacy
  /\ Post({Datagram(h, {p}, "SENDMSG", text)})
  /\ UNCHANGED fault

\* on_pcaht_send_callback and feiq_build_packet, with a msg_t that the names and
\* the text are copied into.
SendTextIfc(h, p, text) ==
  /\ h \notin Legacy
  /\ IF Len(text) < TextRoom
     THEN /\ Post({Signed(h, {p}, "SENDMSG", Held(h, profile[h].username, profile[h].hostname),
                         profile[h].hostname, Append(text, "NUL"), Nothing)})
          /\ UNCHANGED fault
     ELSE /\ Post({})
          /\ fault' = Fault("typed", h, text, Nothing)

SendText(h, p, text) ==
  /\ known[h][p] # Nothing
  /\ SendTextLegacy(h, p, text) \/ SendTextIfc(h, p, text)
  /\ UNCHANGED <<present, profile, boot, known, heard, got>>

\* on_send_gpmessage of gchatbox.c, whose line is printed into plain.
SendGroupText(h, group, text) ==
  /\ h \in Legacy
  /\ group \in GroupsOf[h]
  /\ IF Len(Marked(group, text)) < TextRoom
     THEN /\ Post({Enciphered(h, "GPMSG", Marked(group, text))})
          /\ UNCHANGED fault
     ELSE /\ Post({})
          /\ fault' = Fault("typed", h, text, Nothing)
  /\ UNCHANGED <<present, profile, boot, known, heard, got>>

-----------------------------------------------------------------------------
\* A user as new_user and new_user_entry store it.
User(h, msg, category, room) ==
  [username |-> UsernameIn(h, msg), hostname |-> HostnameIn(h, msg), mac |-> msg.mac,
   nickname |-> NicknameIn(h, msg), category |-> category, room |-> room]

\* Mutant: no room for the NUL.
LengthsShort(user) == [f \in {"username", "hostname", "nickname", "category"} |-> Len(user[f]) - 1]

\* The strings of a user lie in one allocation, with the room that the first
\* ones need.
Lengths(user) == [f \in {"username", "hostname", "nickname", "category"} |-> Len(user[f])]

Fits(user, room) == \A f \in DOMAIN room : Len(user[f]) <= room[f]

\* on_buddy_entry, a known user: the strings are copied over the old ones.  On
\* on_entry_callback, of a user entry: nothing of it is changed.
EntryOfKnown(h, d, msg) ==
  /\ known[h][d.from] # Nothing
  /\ IF h \in Legacy
     THEN LET old == known[h][d.from] IN
          \E category \in CategoriesIn(h, msg) :
            LET user == User(h, msg, category, old.room) IN
            /\ known' = [known EXCEPT ![h][d.from] = user]
            /\ heard' = [heard EXCEPT ![h][d.from] = d]
            /\ fault' = IF Fits(user, old.room) THEN Nothing
                        ELSE Fault("overrun", h, d, heard[h][d.from])
     ELSE UNCHANGED <<known, heard, fault>>
  /\ UNCHANGED net

\* on_buddy_entry and on_entry_callback, a new user; the legacy program
\* answers, without its category, one of another user name.
EntryOfNew(h, d, msg) ==
  /\ known[h][d.from] = Nothing
  /\ \E category \in CategoriesIn(h, msg) :
       LET user == User(h, msg, category, Nothing)
       IN  known' = [known EXCEPT ![h][d.from] = [user EXCEPT !.room = Lengths(user)]]
  /\ heard' = [heard EXCEPT ![h][d.from] = d]
  /\ net' = net \cup
       (IF h \in Legacy /\ msg.command % 2 = 1 /\ msg.username # profile[h].username
        THEN {Datagram(h, {d.from}, "ANSENTRY", profile[h].nickname)} ELSE {})
  /\ UNCHANGED fault

ReceiveEntry(h, d, msg) ==
  /\ msg.command % 256 \in {1, 3}
  /\ EntryOfKnown(h, d, msg) \/ EntryOfNew(h, d, msg)
  /\ UNCHANGED got

\* Mutant: gpid stays 0.
QueueUngrouped(h, d, group, text) ==
  got' = [got EXCEPT ![h] = @ \cup {[from |-> d.from, group |-> Nothing, text |-> text]}]

Queue(h, d, group, text) ==
  got' = [got EXCEPT ![h] = @ \cup {[from |-> d.from, group |-> group, text |-> text]}]

\* on_buddy_sendmsg takes the text of an unknown user too, if any is known, and
\* acknowledges it in the name of its sender; on_pchat_callback does not.
ReceiveText(h, d, msg) ==
  /\ msg.command % 256 = 32
  /\ IF h \in Legacy THEN \E p \in Hosts : known[h][p] # Nothing ELSE known[h][d.from] # Nothing
  /\ Queue(h, d, Nothing, CString(msg.data))
  /\ net' = net \cup
       (IF h \in Legacy /\ (msg.command \div 256) % 2 = 1
        THEN {Signed(h, {d.from}, "RECVMSG", msg.username, msg.hostname, <<"packet">>, Nothing)} ELSE {})
  /\ UNCHANGED <<known, heard, fault>>

Decrypt(d, msg, mac) == IF d.key = mac THEN msg.data ELSE Garbage

\* on_buddy_sendgpmsg, with the MAC address that is stored for the sender.
ReceiveGroupText(h, d, msg) ==
  /\ h \in Legacy
  /\ msg.command % 256 = 35
  /\ msg.username # profile[h].username
  /\ known[h][d.from] # Nothing
  /\ \E plain \in {Decrypt(d, msg, known[h][d.from].mac)} :
       IF plain = Garbage
       THEN /\ fault' = Fault("garbled", h, d, heard[h][d.from])
            /\ UNCHANGED got
       ELSE \E group \in GroupsOf[h] :
            /\ Field(plain, "#", 2) = <<group>>
            /\ Queue(h, d, group, CString(Behind(plain, "#", 2)))
            /\ UNCHANGED fault
  /\ UNCHANGED <<net, known, heard>>

\* The bytes of the data: BlowFish_Encrypt adds up to a block, and its length is
\* sent with one more.
Size(d, data) ==
  IF d.key = Nothing THEN Len(data) ELSE (Len(data) + Block + 1) - (Len(data) % Block)

\* feiq_parse_packet copies what is longer than the room of a msg_t, and a text
\* that fills the room is read on behind it.
Overlong(h, d, msg) ==
  /\ h \notin Legacy
  /\ \/ Size(d, msg.data) > TextRoom
     \/ Len(msg.data) = TextRoom /\ ~Contains(msg.data, "NUL") /\ msg.command % 256 = 32

\* The nickname is copied from a user name that runs on into the nickname.
Overlaps(h, msg) ==
  /\ h \notin Legacy
  /\ msg.command % 256 \in {1, 3}
  /\ CString(msg.data) = << >>
  /\ Len(msg.username) >= NameRoom /\ Len(msg.hostname) >= NameRoom

ReceiveFaulty(h, d, msg) ==
  /\ \/ Overlong(h, d, msg) /\ fault' = Fault("overlong", h, d, Nothing)
     \/ Overlaps(h, msg) /\ fault' = Fault("overlaps", h, d, Nothing)
  /\ UNCHANGED <<net, known, heard, got>>

ReceiveWhole(h, d, msg) ==
  /\ ~Overlong(h, d, msg) /\ ~Overlaps(h, msg)
  /\ ReceiveEntry(h, d, msg) \/ ReceiveText(h, d, msg) \/ ReceiveGroupText(h, d, msg)

\* process_message, and feiq_handle_msg with the callbacks; everything that is
\* no case of these is dropped.
Receive(h, d) ==
  /\ h \in d.to
  /\ \E msg \in {Parsed(h, d)} : ReceiveFaulty(h, d, msg) \/ ReceiveWhole(h, d, msg)
  /\ UNCHANGED <<present, profile, boot, posts>>

ProtocolNext ==
  /\ fault = Nothing
  /\ \/ \E h \in present :
          \/ Restart(h) \/ Rename(h)
          \/ \E p \in Hosts, text \in Texts : SendText(h, p, text)
          \/ \E group \in GroupsOf[h], text \in Texts : SendGroupText(h, group, text)
     \/ \E d \in net, h \in present : Receive(h, d)

ProtocolSpec == ProtocolInit /\ [][ProtocolNext]_protocolVars

-----------------------------------------------------------------------------
\* The user list says of a host what that host said of itself, whichever of the
\* programs wrote and read the datagram: an empty nickname is the user name, an
\* empty category and that of an answer are "no group", and only after an
\* answer the legacy program shows something else.  There are two exceptions, both
\* of ifc: what it reads of a user or host name that has no room in a msg_t is
\* the beginning and all that the next field holds, and what it sends of a
\* category is as much as the rest of its entry is long.  A ':' in a user name or
\* a host name moves the fields behind it and the command with them, so that
\* nobody ever hears of such a user.
KnownAsAnnounced ==
  \A h, p \in Hosts :
    (fault = Nothing /\ known[h][p] # Nothing) =>
      LET said == heard[h][p].by  user == known[h][p] IN
      /\ user.mac = said.mac
      /\ user.username = Held(h, said.username, user.hostname)
      /\ user.hostname = Held(h, said.hostname, user.nickname)
      /\ user.nickname = IF said.nickname = << >> THEN user.username ELSE said.nickname
      /\ IF heard[h][p].kind = "ANSENTRY" THEN user.category = NoGroup \/ h \in Legacy
         ELSE user.category = IF said.category = << >> THEN NoGroup
                              ELSE IF p \in Legacy THEN said.category
                              ELSE CutTo(said.category, Header(said) + 1)

\* A text that is queued for a user was sent by the host it is shown for, to
\* this user or to the group it is shown in, and has lost nothing, though it
\* may contain the signs that end the fields: the legacy program shows of a
\* private text what a datagram of BodyRoom takes, and no text reaches the user
\* of ifc that has no room in a msg_t.
TextAsSent ==
  \A h \in Hosts : \A t \in got[h] :
    \E d \in net :
      /\ d.from = t.from /\ h \in d.to
      /\ IF t.group = Nothing
         THEN LET line == <<"packet", ":">> \o Held(d.from, d.by.username, d.by.hostname) \o <<":">>
                          \o d.by.hostname \o <<":", "SENDMSG", ":">>
              IN  /\ d.kind = "SENDMSG"
                  /\ \E s \in Texts :
                       /\ d.body \in {line \o u : u \in {s, Append(s, "NUL")}}
                       /\ t.text = IF h \in Legacy THEN CutTo(s, BodyRoom - Len(line)) ELSE s
                       /\ h \notin Legacy => Len(s) < TextRoom
         ELSE /\ d.kind = "GPMSG" /\ t.group \in GroupsOf[h] /\ t.text \in Texts
              /\ IsSuffix(Marked(t.group, t.text), d.body)

\* A group text is enciphered with the MAC address of its sender.  A host that
\* cannot decipher it knows the sender from another run, in which it had other
\* settings.
GarbledOnlyAcrossRestart ==
  fault # Nothing /\ fault.what = "garbled" =>
    fault.by.run # fault.before.run /\ fault.by.by.mac # fault.before.by.mac

\* The strings of a known user are copied over the first ones.  They need more
\* room only if the user has sent something else before: from other settings, or
\* an answer, since what stands for the category that it does not name is as
\* long as it is.
RewriteExplained ==
  fault # Nothing /\ fault.what = "overrun" =>
    \E d \in net :
      /\ d.from = fault.by.from /\ fault.at \in d.to
      /\ d.by # fault.by.by \/ d.kind = "ANSENTRY"

\* Only the texts of a legacy host are too long for the data of a msg_t, and what
\* a ':' in a name has moved there.
OverlongExplained ==
  fault # Nothing /\ fault.what = "overlong" =>
    /\ fault.at \notin Legacy /\ fault.by \in net
    /\ \/ fault.by.from \in Legacy /\ fault.by.kind \in {"SENDMSG", "GPMSG"}
       \/ Contains(fault.by.by.username, ":") \/ Contains(fault.by.by.hostname, ":")

\* Only a host without a nickname whose names have both no room in a msg_t stops
\* ifc by announcing itself.
OverlapExplained ==
  fault # Nothing /\ fault.what = "overlaps" =>
    LET said == fault.by.by IN
    /\ fault.at \notin Legacy /\ fault.by.kind \in {"BR_ENTRY", "ANSENTRY"}
    /\ said.nickname = << >> /\ Len(said.username) >= NameRoom /\ Len(said.hostname) >= NameRoom

\* No string is copied over what is behind it but in the cases that are named.
OverrunExplained == RewriteExplained /\ OverlongExplained /\ OverlapExplained
==============================================================================
