------------------------------ MODULE Settings -------------------------------
(***************************************************************************)
(* The settings file of both programs: read_cfg at the start, update_cfg   *)
(* and the nickname handler of window.c while the program runs, and what   *)
(* the file is like when a program ends while it writes.                   *)
(*                                                                         *)
(* A file is the sequence of its elements, each with the section it is in; *)
(* the tag of a group, for which new_group is called, is one too.  Both    *)
(* functions read it with XML_PARSE_RECOVER: of a file that breaks off,    *)
(* what is there is taken.                                                 *)
(***************************************************************************)
EXTENDS Integers, SequencesExt

CONSTANTS
  Files,      \* what the user may have written
  Nicknames,  \* what the user may type
  ReadBack,   \* what a typed nickname is in the file: see Updated
  TooLong,    \* the <<name, value>> where the array of the name has no room for the value
  Part,       \* the beginning of a value that broke off
  Unset,      \* memory that was not written
  NoDocument, \* a file without a root element
  MaxStarts,  \* bound: starts of the program
  MaxRenames  \* bound: changes of the nickname in a run

Element(section, kind, name, value) ==
  [section |-> section, kind |-> kind, name |-> name, value |-> value]

(* What read_cfg looks for in the sections of each kind; other elements are *)
(* read by nobody.                                                          *)
Looked == [user |-> {"nickname", "username"}, network |-> {"mac"}, group |-> {"group", "name", "id", "info"}]

Values == Nicknames \cup {ReadBack[n] : n \in Nicknames} \cup {Part}
            \cup UNION {{f[i].value : i \in DOMAIN f} : f \in Files}

Elements ==
  [section : Nat, kind : DOMAIN Looked, name : UNION {Looked[k] : k \in DOMAIN Looked}, value : Values]

(* Sections are numbered as they come; a group names each of its fields once. *)
Document(f) ==
  /\ f \in Seq(Elements)
  /\ \A i \in DOMAIN f : f[i].name \in Looked[f[i].kind] /\ f[i].section \in 1 .. i
  /\ \A i, j \in DOMAIN f : i <= j => f[i].section <= f[j].section
  /\ \A i, j \in DOMAIN f :
       f[i].kind = "group" /\ f[j].kind = "group" /\ f[i].section = f[j].section /\ f[i].name = f[j].name
         => i = j

(* A too long beginning of a value is as good as the value, and Part fits.  *)
ASSUME FilesAssumption ==
  /\ NoDocument \notin Seq(Elements)
  /\ \A f \in Files : Document(f)
  /\ Unset \notin Values
  /\ \A k \in DOMAIN Looked : \A name \in Looked[k] : <<name, Part>> \notin TooLong

VARIABLES
  program,   \* "legacy" or "ifc"
  file,
  state,     \* "off", "idle", "saving", "freeing", and "undefined" after a fault
  settings,  \* the fields of ifreechat_t
  groups,    \* what new_group was called with
  pair,      \* the argument of the nickname handler: "live" or "freed"
  pending,   \* the file that is being written
  typed,     \* the last nickname that was typed, in this run or before
  overrun,   \* whether in this run an array was written over its end
  damaged,   \* whether writing has ended early, or failed
  starts, renames

settingsVars ==
  <<program, file, state, settings, groups, pair, pending, typed, overrun, damaged, starts, renames>>

Fields == {"nickname", "username", "mac"}

GroupFields == {"name", "id", "info"}

\* The value of the last element of one of these kinds and of this name, up to
\* a section: each one is copied over those before.
LastOf(elements, kinds, name, section) ==
  LET at == SelectLastInSeq(elements, LAMBDA e :
              e.kind \in kinds /\ e.name = name /\ e.section <= section)
  IN  IF at = 0 THEN Unset ELSE elements[at].value

Sections(elements, kind) == {e.section : e \in {x \in ToSet(elements) : x.kind = kind}}

\* new_group with the locals of read_cfg, which keep what the groups before
\* have left in them.
GroupIn(elements, section) ==
  [section |-> section, of |-> [f \in GroupFields |-> LastOf(elements, {"group"}, f, section)]]

GroupsIn(elements) == {GroupIn(elements, s) : s \in Sections(elements, "group")}

SettingsIn(elements) ==
  [f \in Fields |-> LastOf(elements, {"user", "network"}, f, Len(elements))]

\* The strings that are used without having been written: settings, which the
\* window and the broadcasts take, and those that new_group copies.
ReadsUnset(elements) ==
  \/ \E f \in Fields : SettingsIn(elements)[f] = Unset
  \/ \E g \in GroupsIn(elements) : g.of["name"] = Unset \/ g.of["info"] = Unset

\* The strcpy's of read_cfg have no bound.
Overruns(elements) == \E e \in ToSet(elements) : <<e.name, e.value>> \in TooLong

\* Mutant: everything behind the element is left out.
UpdatedShort(elements, kind, name, value) ==
  LET at == SelectInSeq(elements, LAMBDA e : e.kind = kind /\ e.name = name)
  IN  IF at = 0 THEN elements ELSE Append(SubSeq(elements, 1, at - 1), [elements[at] EXCEPT !.value = ReadBack[value]])

\* Mutant: the content is not set.
UpdatedNot(elements, kind, name, value) == elements

\* update_cfg changes the first element of the name.  Without one it changes
\* nothing, and reports success.  xmlNodeSetContent takes the value for XML
\* text: what follows an '&' is a reference, which is replaced or lost.
Updated(elements, kind, name, value) ==
  LET at == SelectInSeq(elements, LAMBDA e : e.kind = kind /\ e.name = name)
  IN  IF at = 0 THEN elements ELSE [elements EXCEPT ![at].value = ReadBack[value]]

SettingsInit ==
  /\ program \in {"legacy", "ifc"}
  /\ file \in Files
  /\ state = "off"
  /\ settings = [f \in Fields |-> Unset]
  /\ groups = {}
  /\ pair = "live"
  /\ pending = << >>
  /\ typed = Unset
  /\ overrun = FALSE
  /\ damaged = FALSE
  /\ starts = 0 /\ renames = 0

\* Mutant: both programs go on.
StartGoesOn ==
  /\ state = "off" /\ starts < MaxStarts
  /\ starts' = starts + 1
  /\ renames' = 0
  /\ pair' = "live"
  /\ IF file = NoDocument
     THEN /\ state' = "undefined"
          /\ settings' = [f \in Fields |-> Unset]
          /\ groups' = {}
          /\ overrun' = FALSE
     ELSE /\ state' \in {"idle"} \cup IF ReadsUnset(file) \/ Overruns(file) THEN {"undefined"} ELSE {}
          /\ settings' = SettingsIn(file)
          /\ groups' = GroupsIn(file)
          /\ overrun' = Overruns(file)
  /\ UNCHANGED <<program, file, pending, typed, damaged>>

\* init_ifreechat and init_freechat allocate the settings and write none.
\* After a string that was not written, or had no room, the program may end in
\* a fault or go on with what is in memory.
Start ==
  /\ state = "off" /\ starts < MaxStarts
  /\ starts' = starts + 1
  /\ renames' = 0
  /\ pair' = "live"
  /\ IF file = NoDocument
     THEN \* no document: ifc returns, legacy stops a socket that it has not made
          /\ state' = IF program = "legacy" THEN "undefined" ELSE "off"
          /\ settings' = [f \in Fields |-> Unset]
          /\ groups' = {}
          /\ overrun' = FALSE
     ELSE /\ state' \in {"idle"} \cup IF ReadsUnset(file) \/ Overruns(file) THEN {"undefined"} ELSE {}
          /\ settings' = SettingsIn(file)
          /\ groups' = GroupsIn(file)
          /\ overrun' = Overruns(file)
  /\ UNCHANGED <<program, file, pending, typed, damaged>>

Stop ==
  /\ state = "idle"
  /\ state' = "off"
  /\ UNCHANGED <<program, file, settings, groups, pair, pending, typed, overrun, damaged, starts, renames>>

\* on_nickname_entry_activate up to xmlSaveFormatFile, which empties the file
\* first.  Of a pair that was freed the handler may read what it was, or end
\* in a fault.  Without a document nothing is written.
Rename(nickname) ==
  /\ state = "idle" /\ renames < MaxRenames
  /\ renames' = renames + 1
  /\ \/ /\ file # NoDocument
        /\ typed' = nickname
        /\ pending' = Updated(file, "user", "nickname", nickname)
        /\ file' = NoDocument
        /\ state' = "saving"
     \/ /\ file = NoDocument
        /\ typed' = nickname
        /\ state' = "freeing"
        /\ UNCHANGED <<file, pending>>
     \/ /\ pair = "freed"
        /\ state' = "undefined"
        /\ UNCHANGED <<file, pending, typed>>
  /\ UNCHANGED <<program, settings, groups, pair, overrun, damaged, starts>>

Saved ==
  /\ state = "saving"
  /\ file' = pending
  /\ state' = "freeing"
  /\ UNCHANGED <<program, settings, groups, pair, pending, typed, overrun, damaged, starts, renames>>

\* What is in a file whose writing breaks off: nothing, or its beginning, the
\* last value of which may itself have broken off.
BrokenOff(elements) ==
  {NoDocument} \cup {SubSeq(elements, 1, n) : n \in 0 .. Len(elements)}
    \cup {[SubSeq(elements, 1, n) EXCEPT ![n].value = Part] : n \in 1 .. Len(elements)}

\* The result of xmlSaveFormatFile is ignored: the disk may be full.
SavedPartly ==
  /\ state = "saving"
  /\ file' \in BrokenOff(pending)
  /\ state' = "freeing"
  /\ damaged' = TRUE
  /\ UNCHANGED <<program, settings, groups, pair, pending, typed, overrun, starts, renames>>

\* The rest of the handler: the nickname is copied by strcpy, and the argument
\* is freed and stays the argument.
Freed ==
  /\ state = "freeing"
  /\ settings' = [settings EXCEPT !.nickname = typed]
  /\ overrun' = (overrun \/ <<"nickname", typed>> \in TooLong)
  /\ state' \in (IF pair = "live" THEN {"idle"} ELSE {"undefined"})
                  \cup (IF <<"nickname", typed>> \in TooLong THEN {"undefined"} ELSE {})
  /\ pair' = "freed"
  /\ UNCHANGED <<program, file, groups, pending, typed, damaged, starts, renames>>

\* The program is killed, or ends after a fault.
Crash ==
  /\ state # "off"
  /\ state' = "off"
  /\ IF state = "saving"
     THEN /\ file' \in BrokenOff(pending)
          /\ damaged' = TRUE
     ELSE UNCHANGED <<file, damaged>>
  /\ UNCHANGED <<program, settings, groups, pair, pending, typed, overrun, starts, renames>>

SettingsNext ==
  \/ Start \/ Stop \/ Saved \/ SavedPartly \/ Freed \/ Crash
  \/ \E nickname \in Nicknames : Rename(nickname)

SettingsSpec == SettingsInit /\ [][SettingsNext]_settingsVars

-----------------------------------------------------------------------------
FirstNickname(f, i) == f[i].name = "nickname" /\ \A j \in 1 .. i - 1 : f[j].name # "nickname"

\* What the user's file f says at i, after nicknames were typed.
Said(f, i) == IF typed # Unset /\ FirstNickname(f, i) THEN ReadBack[typed] ELSE f[i].value

\* A document is what f has become: all of it, or its beginning once a write
\* has ended early, with the last value cut at most.
Became(f, doc) ==
  /\ Len(doc) <= Len(f) /\ (~damaged => Len(doc) = Len(f))
  /\ \A i \in 1 .. Len(doc) :
       \/ doc[i] = [f[i] EXCEPT !.value = Said(f, i)]
       \/ damaged /\ i = Len(doc) /\ doc[i] = [f[i] EXCEPT !.value = Part]

\* However often the nickname is changed, the program restarted, and killed
\* while it writes: the file is what the user wrote, with the nickname typed
\* last in its first place, as XML reads it back.  Once a write has ended early
\* it is a beginning of that, or nothing.
KeepsElements ==
  state # "saving" =>
    \/ damaged /\ file = NoDocument
    \/ \E f \in Files : Became(f, file)

OneNickname(doc) == \E i \in DOMAIN doc : \A j \in DOMAIN doc : doc[j].name = "nickname" <=> j = i

\* Between two calls of the handler the running program has the nickname that
\* its next start will read.  The exceptions come with a change of it: what XML
\* makes of an '&', a file without a nickname or with two of them, of which
\* read_cfg takes the last and update_cfg changes the first, and a write that
\* broke off.
NicknameAgrees ==
  state = "idle" /\ ~overrun /\ file # NoDocument =>
    LET next == SettingsIn(file).nickname IN
    \/ next = settings.nickname
    \/ /\ renames > 0
       /\ \/ next = ReadBack[settings.nickname]
          \/ ~OneNickname(file)
          \/ damaged /\ next = Part

\* A group has the fields of its own section, all of those that stand there
\* and were not cut since.
GroupsOwnFields ==
  state = "idle" /\ ~overrun /\ file # NoDocument =>
    \A g \in groups : \A e \in ToSet(file) :
      e.kind = "group" /\ e.section = g.section /\ e.name \in GroupFields
        => g.of[e.name] = e.value \/ (renames > 0 /\ damaged /\ e.value = Part)

\* The running program and the file say the same.
AgreesWithFile == NicknameAgrees /\ GroupsOwnFields

Missing(doc, kinds, name, section) ==
  \A i \in DOMAIN doc : ~(doc[i].kind \in kinds /\ doc[i].name = name /\ doc[i].section <= section)

\* A file lacks a setting, or a group lacks a string that no group before it
\* has either.
Lacks(doc) ==
  \/ \E f \in Fields : Missing(doc, {"user", "network"}, f, Len(doc))
  \/ \E i \in DOMAIN doc : \E f \in {"name", "info"} :
       doc[i].kind = "group" /\ Missing(doc, {"group"}, f, doc[i].section)

\* A too long value is in a file of the user or was typed last.
LongValue(doc) ==
  \E i \in DOMAIN doc :
    /\ <<doc[i].name, doc[i].value>> \in TooLong
    /\ \/ \E f \in Files : i \in DOMAIN f /\ doc[i] = f[i]
       \/ doc[i].name = "nickname" /\ typed # Unset /\ doc[i].value = ReadBack[typed]

\* Faults happen at a start of the legacy program without a document, which is
\* after a write that ended early; at a start with a file that lacks strings,
\* which without such a write the user's own file does, or with a value that is
\* too long; with a nickname too long for its array; and in the second change
\* of the nickname in a run.
UndefinedExplained ==
  state = "undefined" =>
    \/ renames = 0 /\ file = NoDocument /\ program = "legacy" /\ damaged
    \/ renames = 0 /\ file # NoDocument /\ Lacks(file) /\ (damaged \/ \E f \in Files : Lacks(f))
    \/ renames = 0 /\ file # NoDocument /\ LongValue(file)
    \/ renames = 1 /\ <<"nickname", typed>> \in TooLong
    \/ renames >= 2
==============================================================================
