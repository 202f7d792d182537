------------------------------ MODULE Contacts ------------------------------
(***************************************************************************)
(* The contact list of the ifc program: the user list, the category list   *)
(* and the rows of the contact tree, as on_entry_callback of               *)
(* src/ifc/src/handle_message.c changes them.  Only the message loop       *)
(* thread does, one entry at a time.                                       *)
(*                                                                         *)
(* Users and categories are found through a hash table of                  *)
(* src/ifc/lib/hash/hash.c.  hash_insert stores the new entry over the one *)
(* that its bucket held, so that of two keys with the same bucket only the *)
(* one inserted last is found.                                             *)
(***************************************************************************)
EXTENDS Integers, Sequences, FiniteSets

CONSTANTS
  Ips,             \* the addresses that announce themselves
  Categories,      \* the names of the groups they announce
  UserBucket,      \* hash_index on the table of the user list
  CategoryBucket,  \* hash_index on the table of the category list
  None,            \* the NULL of an empty bucket
  MaxEntries       \* bound: entry messages that are handled

ASSUME BucketAssumption ==
  /\ DOMAIN UserBucket = Ips
  /\ DOMAIN CategoryBucket = Categories
ASSUME BoundAssumption == MaxEntries \in Nat
ASSUME NoneAssumption == None \notin Nat

VARIABLES
  ulist,      \* the user entries, oldest first; never deleted
  utable,     \* bucket -> index of ulist
  clist,      \* the category entries, oldest first; never deleted
  ctable,     \* bucket -> index of clist
  rows,       \* the user rows of the contact tree, oldest first
  announced   \* per address: the category in the last entry it sent

vars == <<ulist, utable, clist, ctable, rows, announced>>

UserBuckets == {UserBucket[ip] : ip \in Ips}
CategoryBuckets == {CategoryBucket[c] : c \in Categories}

\* user_find_entry and category_find_entry: an index, or None.
FindUser(ip) ==
  LET u == utable[UserBucket[ip]]
  IN  IF u # None /\ ulist[u].ip = ip THEN u ELSE None

\* Mutant: the key in the bucket is not compared.
FindCategoryByBucket(name) == ctable[CategoryBucket[name]]

FindCategory(name) ==
  LET c == ctable[CategoryBucket[name]]
  IN  IF c # None /\ clist[c].name = name THEN c ELSE None

Init ==
  /\ ulist = <<>>
  /\ utable = [b \in UserBuckets |-> None]
  /\ clist = <<>>
  /\ ctable = [b \in CategoryBuckets |-> None]
  /\ rows = <<>>
  /\ announced = [ip \in Ips |-> None]

-----------------------------------------------------------------------------
(* on_entry_callback.  The category is looked up first, and made with no    *)
(* member and a bare title when it is not found.                            *)

NewCategory(name) == [name |-> name, count |-> 0, title |-> 0]

CategoriesWith(name) ==
  IF FindCategory(name) = None THEN Append(clist, NewCategory(name)) ELSE clist

CategoryOf(name) ==
  IF FindCategory(name) = None THEN Len(clist) + 1 ELSE FindCategory(name)

InsertCategory(name) ==
  ctable' = [ctable EXCEPT ![CategoryBucket[name]] = CategoryOf(name)]

\* Mutants: the row goes under the first category; the title is not refreshed.
AddRowUnderFirst(cats, user, category) ==
  /\ rows' = Append(rows, [user |-> user, under |-> 1])
  /\ clist' = [cats EXCEPT ![category].title = cats[category].count]
AddRowOldTitle(cats, user, category) ==
  /\ rows' = Append(rows, [user |-> user, under |-> category])
  /\ clist' = cats

\* add_user_to_treeview: a row under the user's category, whose title gets
\* the number of its members.
AddRow(cats, user, category) ==
  /\ rows' = Append(rows, [user |-> user, under |-> category])
  /\ clist' = [cats EXCEPT ![category].title = cats[category].count]

\* Mutant: the new user is not put into the hash table.
EntryOfNewUserNotHashed(ip, name) ==
  LET c == CategoryOf(name)
      u == Len(ulist) + 1
  IN  /\ FindUser(ip) = None
      /\ ulist' = Append(ulist, [ip |-> ip, category |-> name, entry |-> c, row |-> Len(rows) + 1])
      /\ AddRow([CategoriesWith(name) EXCEPT ![c].count = @ + 1], u, c)
      /\ UNCHANGED utable

EntryOfNewUser(ip, name) ==
  LET c == CategoryOf(name)
      u == Len(ulist) + 1
  IN  /\ FindUser(ip) = None
      /\ ulist' = Append(ulist, [ip |-> ip, category |-> name, entry |-> c, row |-> Len(rows) + 1])
      /\ utable' = [utable EXCEPT ![UserBucket[ip]] = u]
      /\ AddRow([CategoriesWith(name) EXCEPT ![c].count = @ + 1], u, c)

\* The category string of the user entry keeps its first value.
EntryOfKnownUser(ip, name) ==
  LET c == CategoryOf(name)
      u == FindUser(ip)
      old == ulist[u].entry
      cats == CategoriesWith(name)
  IN  /\ u # None
      /\ IF name # ulist[u].category
         THEN /\ ulist' = [ulist EXCEPT ![u].entry = c, ![u].row = Len(rows) + 1]
              /\ AddRow([[cats EXCEPT ![old].count = @ - 1] EXCEPT ![c].count = @ + 1], u, c)
         ELSE /\ ulist' = [ulist EXCEPT ![u].row = Len(rows) + 1]
              /\ AddRow(cats, u, old)
      /\ UNCHANGED utable

OnEntry(ip, name) ==
  /\ Len(rows) < MaxEntries
  /\ InsertCategory(name)
  /\ EntryOfNewUser(ip, name) \/ EntryOfKnownUser(ip, name)
  /\ announced' = [announced EXCEPT ![ip] = name]

Next == \E ip \in Ips, name \in Categories : OnEntry(ip, name)

Spec == Init /\ [][Next]_vars

-----------------------------------------------------------------------------
Members(c) == {u \in DOMAIN ulist : ulist[u].entry = c}

\* The number kept with each category entry is the number of user entries
\* that point to it, whatever way the users move between categories.
CountsMembers == \A c \in DOMAIN clist : clist[c].count = Cardinality(Members(c))

\* A title never shows fewer members than the category has: it is out of
\* date only after a user moved away.
TitleNotTooSmall == \A c \in DOMAIN clist : clist[c].title >= clist[c].count

\* The numbers of a category agree with its members.
CountsAgree == CountsMembers /\ TitleNotTooSmall

\* Two user entries stand for one address only after a third one, of another
\* address with the same bucket, hid the first from user_find_entry.
DuplicateUserByCollision ==
  \A u, v \in DOMAIN ulist :
    u < v /\ ulist[u].ip = ulist[v].ip =>
      \E w \in u + 1 .. v - 1 :
        /\ ulist[w].ip # ulist[u].ip
        /\ UserBucket[ulist[w].ip] = UserBucket[ulist[u].ip]

\* The same for the category entries of one name.
DuplicateCategoryByCollision ==
  \A c, d \in DOMAIN clist :
    c < d /\ clist[c].name = clist[d].name =>
      \E e \in c + 1 .. d - 1 :
        /\ clist[e].name # clist[c].name
        /\ CategoryBucket[clist[e].name] = CategoryBucket[clist[c].name]

\* An address or a name has two entries for one reason only.
DuplicatesByCollision == DuplicateUserByCollision /\ DuplicateCategoryByCollision

\* The row that a user entry remembers (user_entry_t.pos) is a row of that
\* user under the category the entry points to.
RowUnderCategory ==
  \A u \in DOMAIN ulist : rows[ulist[u].row] = [user |-> u, under |-> ulist[u].entry]

\* A user whose last entry names another category than its first one is
\* counted in the category of its last entry.
MovedToAnnounced ==
  \A ip \in Ips :
    LET u == FindUser(ip)
    IN  u # None /\ announced[ip] # ulist[u].category
          => clist[ulist[u].entry].name = announced[ip]

\* "delete user from old category ui container" (handle_message.c:99): every
\* row of a user is under the category the user is counted in.
NoRowLeftBehind == \A r \in DOMAIN rows : rows[r].under = ulist[rows[r].user].entry
=============================================================================
