--------------------------- MODULE ContactsProofs ---------------------------
(***************************************************************************)
(* The theorems about Contacts, for any addresses, group names and hash    *)
(* functions, and any number of entry messages; and those about the hash   *)
(* table that the lists are found through, for every index function, every *)
(* number of buckets and every sequence of calls.  Then the theorems about *)
(* FeiqProtocol, which says where the entry messages come from and what    *)
(* becomes of them on the way, for any signs, settings, texts and groups.  *)
(***************************************************************************)
EXTENDS Contacts, FeiqProtocol, FiniteSetTheorems, WellFoundedInduction, TLAPS

CONSTANTS Keys, Values, Null, Buckets, Index, MaxInserts

VARIABLES pooled, table, made, heap, locked, phase, latest, overwrote

Table == INSTANCE HashTable WITH None <- Null

UserEntry == [ip : Ips, category : Categories, entry : Nat, row : Nat]
CategoryEntry == [name : Categories, count : Int, title : Int]
Row == [user : Nat, under : Nat]

TypeOK ==
  /\ ulist \in Seq(UserEntry)
  /\ utable \in [UserBuckets -> Nat \cup {None}]
  /\ clist \in Seq(CategoryEntry)
  /\ ctable \in [CategoryBuckets -> Nat \cup {None}]
  /\ rows \in Seq(Row)
  /\ announced \in [Ips -> Categories \cup {None}]

(* What a user entry points to exists.                                      *)
PointersInv ==
  \A u \in DOMAIN ulist : ulist[u].entry \in DOMAIN clist /\ ulist[u].row \in DOMAIN rows

(* A bucket holds the last of the entries that were hashed to it.           *)
UserTableInv ==
  /\ \A u \in DOMAIN ulist : utable[UserBucket[ulist[u].ip]] # None
  /\ \A b \in UserBuckets : utable[b] # None =>
       /\ utable[b] \in DOMAIN ulist
       /\ UserBucket[ulist[utable[b]].ip] = b
       /\ \A u \in DOMAIN ulist : UserBucket[ulist[u].ip] = b => u <= utable[b]

CategoryTableInv ==
  /\ \A c \in DOMAIN clist : ctable[CategoryBucket[clist[c].name]] # None
  /\ \A b \in CategoryBuckets : ctable[b] # None =>
       /\ ctable[b] \in DOMAIN clist
       /\ CategoryBucket[clist[ctable[b]].name] = b
       /\ \A c \in DOMAIN clist : CategoryBucket[clist[c].name] = b => c <= ctable[b]

IInv == TypeOK /\ PointersInv /\ UserTableInv /\ CategoryTableInv

-----------------------------------------------------------------------------
(* The lookups find what they look for.                                     *)
LEMMA Found ==
  ASSUME TypeOK, UserTableInv, CategoryTableInv, NEW ip \in Ips, NEW name \in Categories
  PROVE  /\ FindUser(ip) # None =>
              /\ FindUser(ip) \in DOMAIN ulist /\ ulist[FindUser(ip)].ip = ip
              /\ utable[UserBucket[ip]] = FindUser(ip)
         /\ FindCategory(name) # None =>
              /\ FindCategory(name) \in DOMAIN clist /\ clist[FindCategory(name)].name = name
              /\ ctable[CategoryBucket[name]] = FindCategory(name)
<1>1. UserBucket[ip] \in UserBuckets /\ CategoryBucket[name] \in CategoryBuckets
  BY DEF UserBuckets, CategoryBuckets
<1> QED  BY <1>1 DEF FindUser, FindCategory, UserTableInv, CategoryTableInv

(* The list in which on_entry_callback finds or has made the category.      *)
LEMMA CategoriesWithLemma ==
  ASSUME TypeOK, UserTableInv, CategoryTableInv, NEW name \in Categories
  PROVE  /\ CategoriesWith(name) \in Seq(CategoryEntry)
         /\ Len(CategoriesWith(name)) \in Nat
         /\ DOMAIN CategoriesWith(name) = 1 .. Len(CategoriesWith(name))
         /\ DOMAIN clist = 1 .. Len(clist) /\ Len(clist) \in Nat
         /\ CategoryOf(name) \in DOMAIN CategoriesWith(name)
         /\ CategoriesWith(name)[CategoryOf(name)].name = name
         /\ \A d \in DOMAIN clist :
              d \in DOMAIN CategoriesWith(name) /\ CategoriesWith(name)[d] = clist[d]
         /\ \/ /\ FindCategory(name) = None
               /\ CategoryOf(name) = Len(clist) + 1
               /\ Len(CategoriesWith(name)) = Len(clist) + 1
               /\ CategoriesWith(name)[Len(clist) + 1] = NewCategory(name)
            \/ /\ CategoryOf(name) \in DOMAIN clist
               /\ Len(CategoriesWith(name)) = Len(clist)
               /\ ctable[CategoryBucket[name]] = CategoryOf(name)
<1>1. clist \in Seq(CategoryEntry) /\ DOMAIN clist = 1 .. Len(clist) /\ Len(clist) \in Nat
  BY DEF TypeOK
<1>2. CASE FindCategory(name) = None
  <2>1. NewCategory(name) \in CategoryEntry /\ NewCategory(name).name = name
    BY DEF NewCategory, CategoryEntry
  <2>2. CategoriesWith(name) = Append(clist, NewCategory(name)) /\ CategoryOf(name) = Len(clist) + 1
    BY <1>2 DEF CategoriesWith, CategoryOf
  <2>3. /\ CategoriesWith(name) \in Seq(CategoryEntry)
        /\ Len(CategoriesWith(name)) = Len(clist) + 1
        /\ CategoriesWith(name)[Len(clist) + 1] = NewCategory(name)
        /\ \A d \in 1 .. Len(clist) : CategoriesWith(name)[d] = clist[d]
    BY <1>1, <2>1, <2>2
  <2>4. DOMAIN CategoriesWith(name) = 1 .. Len(clist) + 1
    BY <2>3
  <2> QED  BY <1>1, <1>2, <2>1, <2>2, <2>3, <2>4
<1>3. CASE FindCategory(name) # None
  <2>1. CategoriesWith(name) = clist /\ CategoryOf(name) = FindCategory(name)
    BY <1>3 DEF CategoriesWith, CategoryOf
  <2>2. /\ FindCategory(name) \in DOMAIN clist /\ clist[FindCategory(name)].name = name
        /\ ctable[CategoryBucket[name]] = FindCategory(name)
    <3>1. CategoryBucket[name] \in CategoryBuckets
      BY DEF CategoryBuckets
    <3> QED  BY <1>3, <3>1 DEF FindCategory, CategoryTableInv
  <2> QED  BY <1>1, <2>1, <2>2
<1> QED  BY <1>2, <1>3

(* Setting one number of one category entry.                                *)
LEMMA SetCount ==
  ASSUME NEW s \in Seq(CategoryEntry), NEW c \in DOMAIN s, NEW k \in Int
  PROVE  LET t == [s EXCEPT ![c].count = k]
         IN  /\ t \in Seq(CategoryEntry) /\ DOMAIN t = DOMAIN s /\ Len(t) = Len(s)
             /\ \A d \in DOMAIN s :
                  /\ t[d].name = s[d].name /\ t[d].title = s[d].title
                  /\ t[d].count = IF d = c THEN k ELSE s[d].count
<1>1. \A d \in DOMAIN s : s[d] \in CategoryEntry
  OBVIOUS
<1>2. [s[c] EXCEPT !.count = k] \in CategoryEntry
  BY <1>1 DEF CategoryEntry
<1> QED  BY <1>1, <1>2 DEF CategoryEntry

LEMMA SetTitle ==
  ASSUME NEW s \in Seq(CategoryEntry), NEW c \in DOMAIN s, NEW k \in Int
  PROVE  LET t == [s EXCEPT ![c].title = k]
         IN  /\ t \in Seq(CategoryEntry) /\ DOMAIN t = DOMAIN s /\ Len(t) = Len(s)
             /\ \A d \in DOMAIN s :
                  /\ t[d].name = s[d].name /\ t[d].count = s[d].count
                  /\ t[d].title = IF d = c THEN k ELSE s[d].title
<1>1. \A d \in DOMAIN s : s[d] \in CategoryEntry
  OBVIOUS
<1>2. [s[c] EXCEPT !.title = k] \in CategoryEntry
  BY <1>1 DEF CategoryEntry
<1> QED  BY <1>1, <1>2 DEF CategoryEntry

-----------------------------------------------------------------------------
(* What one entry message does to each list.                                *)

Renamed(cats) ==
  /\ clist' \in Seq(CategoryEntry) /\ DOMAIN clist' = DOMAIN cats
  /\ \A d \in DOMAIN cats : clist'[d].name = cats[d].name

RowAdded(user, category) ==
  /\ rows' \in Seq(Row)
  /\ DOMAIN rows' = 1 .. Len(rows) + 1
  /\ rows'[Len(rows) + 1] = [user |-> user, under |-> category]
  /\ \A r \in DOMAIN rows : r \in DOMAIN rows' /\ rows'[r] = rows[r]

LEMMA AddRowLemma ==
  ASSUME rows \in Seq(Row), NEW cats \in Seq(CategoryEntry), NEW c \in DOMAIN cats, NEW u \in Nat,
         AddRow(cats, u, c)
  PROVE  /\ RowAdded(u, c) /\ Renamed(cats)
         /\ \A d \in DOMAIN cats :
              /\ clist'[d].count = cats[d].count
              /\ clist'[d].title = IF d = c THEN cats[d].count ELSE cats[d].title
<1>1. [user |-> u, under |-> c] \in Row
  BY DEF Row
<1>2. RowAdded(u, c)
  <2>1. rows' = Append(rows, [user |-> u, under |-> c]) /\ Len(rows) \in Nat
    BY DEF AddRow
  <2>2. /\ rows' \in Seq(Row) /\ Len(rows') = Len(rows) + 1
        /\ rows'[Len(rows) + 1] = [user |-> u, under |-> c]
        /\ \A r \in 1 .. Len(rows) : rows'[r] = rows[r]
    BY <1>1, <2>1
  <2> QED  BY <2>1, <2>2 DEF RowAdded
<1>3. cats[c].count \in Int
  <2>1. cats[c] \in CategoryEntry
    OBVIOUS
  <2> QED  BY <2>1 DEF CategoryEntry
<1>4. clist' = [cats EXCEPT ![c].title = cats[c].count]
  BY DEF AddRow
<1> QED  BY <1>2, <1>3, <1>4, SetTitle DEF Renamed

UserAdded(ip, name) ==
  /\ ulist' \in Seq(UserEntry)
  /\ DOMAIN ulist' = 1 .. Len(ulist) + 1
  /\ ulist'[Len(ulist) + 1] =
       [ip |-> ip, category |-> name, entry |-> CategoryOf(name), row |-> Len(rows) + 1]
  /\ \A u \in DOMAIN ulist : u \in DOMAIN ulist' /\ ulist'[u] = ulist[u]
  /\ utable' = [utable EXCEPT ![UserBucket[ip]] = Len(ulist) + 1]

LEMMA NewUser ==
  ASSUME IInv, NEW ip \in Ips, NEW name \in Categories, EntryOfNewUser(ip, name)
  PROVE  LET cats == CategoriesWith(name)
             c == CategoryOf(name)
         IN  /\ UserAdded(ip, name) /\ RowAdded(Len(ulist) + 1, c) /\ Renamed(cats)
             /\ \A d \in DOMAIN cats :
                  /\ clist'[d].count = IF d = c THEN cats[d].count + 1 ELSE cats[d].count
                  /\ clist'[d].title = IF d = c THEN cats[d].count + 1 ELSE cats[d].title
<1> DEFINE cats == CategoriesWith(name)
           c == CategoryOf(name)
           counted == [cats EXCEPT ![c].count = cats[c].count + 1]
           user == [ip |-> ip, category |-> name, entry |-> c, row |-> Len(rows) + 1]
<1>1. cats \in Seq(CategoryEntry) /\ c \in DOMAIN cats /\ c \in Nat
  BY CategoriesWithLemma DEF IInv
<1>2. rows \in Seq(Row) /\ ulist \in Seq(UserEntry) /\ Len(rows) \in Nat /\ Len(ulist) \in Nat
  BY DEF IInv, TypeOK
<1>3. \A d \in DOMAIN cats : cats[d].count \in Int
  <2>1. \A d \in DOMAIN cats : cats[d] \in CategoryEntry
    BY <1>1
  <2> QED  BY <2>1 DEF CategoryEntry
<1>4. ulist' = Append(ulist, user) /\ utable' = [utable EXCEPT ![UserBucket[ip]] = Len(ulist) + 1]
      /\ AddRow(counted, Len(ulist) + 1, c)
  BY DEF EntryOfNewUser
<1>5. UserAdded(ip, name)
  <2>1. user \in UserEntry
    BY <1>1, <1>2 DEF UserEntry
  <2> HIDE DEF user
  <2>2. /\ ulist' \in Seq(UserEntry) /\ Len(ulist') = Len(ulist) + 1
        /\ ulist'[Len(ulist) + 1] = user
        /\ \A u \in 1 .. Len(ulist) : ulist'[u] = ulist[u]
    BY <1>2, <1>4, <2>1
  <2> QED  BY <1>2, <1>4, <2>2 DEF UserAdded, user
<1> HIDE DEF cats, c
<1>6. /\ counted \in Seq(CategoryEntry) /\ DOMAIN counted = DOMAIN cats
      /\ \A d \in DOMAIN cats :
           /\ counted[d].name = cats[d].name /\ counted[d].title = cats[d].title
           /\ counted[d].count = IF d = c THEN cats[c].count + 1 ELSE cats[d].count
  <2>1. cats[c].count + 1 \in Int
    BY <1>1, <1>3
  <2> HIDE DEF counted
  <2> QED  BY <1>1, <2>1, SetCount DEF counted
<1> HIDE DEF counted
<1>7. /\ RowAdded(Len(ulist) + 1, c) /\ Renamed(counted)
      /\ \A d \in DOMAIN counted :
           /\ clist'[d].count = counted[d].count
           /\ clist'[d].title = IF d = c THEN counted[d].count ELSE counted[d].title
  BY <1>1, <1>2, <1>4, <1>6, AddRowLemma
<1>8. Renamed(cats) /\ \A d \in DOMAIN cats :
           /\ clist'[d].count = IF d = c THEN cats[d].count + 1 ELSE cats[d].count
           /\ clist'[d].title = IF d = c THEN cats[d].count + 1 ELSE cats[d].title
  BY <1>6, <1>7 DEF Renamed
<1> QED  BY <1>5, <1>7, <1>8 DEF cats, c

UserKept(u, category) ==
  /\ ulist' \in Seq(UserEntry)
  /\ DOMAIN ulist' = DOMAIN ulist
  /\ ulist'[u] = [ulist[u] EXCEPT !.entry = category, !.row = Len(rows) + 1]
  /\ \A v \in DOMAIN ulist \ {u} : ulist'[v] = ulist[v]
  /\ utable' = utable

LEMMA Kept ==
  ASSUME ulist \in Seq(UserEntry), NEW u \in DOMAIN ulist, NEW c, UserKept(u, c)
  PROVE  \A v \in DOMAIN ulist :
           /\ ulist'[v].ip = ulist[v].ip /\ ulist'[v].category = ulist[v].category
           /\ ulist'[v].entry = IF v = u THEN c ELSE ulist[v].entry
           /\ ulist'[v].row = IF v = u THEN Len(rows) + 1 ELSE ulist[v].row
<1>1. ulist[u] \in UserEntry
  OBVIOUS
<1>2. ulist'[u] = [ulist[u] EXCEPT !.entry = c, !.row = Len(rows) + 1]
  BY DEF UserKept
<1>3. /\ ulist'[u].ip = ulist[u].ip /\ ulist'[u].category = ulist[u].category
      /\ ulist'[u].entry = c /\ ulist'[u].row = Len(rows) + 1
  BY <1>1, <1>2 DEF UserEntry
<1> QED  BY <1>3 DEF UserKept

(* Only a user that announces another category than its first one moves.    *)
LEMMA KnownUser ==
  ASSUME IInv, NEW ip \in Ips, NEW name \in Categories, EntryOfKnownUser(ip, name)
  PROVE  LET cats == CategoriesWith(name)
             u == FindUser(ip)
             old == ulist[u].entry
             c == IF name # ulist[u].category THEN CategoryOf(name) ELSE old
         IN  /\ u \in DOMAIN ulist /\ old \in DOMAIN clist
             /\ UserKept(u, c) /\ RowAdded(u, c) /\ Renamed(cats)
             /\ \A d \in DOMAIN cats :
                  /\ clist'[d].count = cats[d].count + (IF d = c THEN 1 ELSE 0) - (IF d = old THEN 1 ELSE 0)
                  /\ clist'[d].title = IF d = c THEN clist'[d].count ELSE cats[d].title
<1> DEFINE cats == CategoriesWith(name)
           u == FindUser(ip)
           old == ulist[u].entry
           c == IF name # ulist[u].category THEN CategoryOf(name) ELSE old
<1>1. /\ cats \in Seq(CategoryEntry) /\ CategoryOf(name) \in DOMAIN cats
      /\ \A d \in DOMAIN clist : d \in DOMAIN cats
      /\ DOMAIN cats = 1 .. Len(cats) /\ Len(cats) \in Nat
  BY CategoriesWithLemma DEF IInv
<1>2. rows \in Seq(Row) /\ ulist \in Seq(UserEntry) /\ Len(rows) \in Nat /\ Len(ulist) \in Nat
  BY DEF IInv, TypeOK
<1>3. u \in DOMAIN ulist /\ u \in Nat /\ old \in DOMAIN clist
  BY <1>2, Found DEF EntryOfKnownUser, IInv, PointersInv
<1>4. c \in DOMAIN cats /\ old \in DOMAIN cats /\ c \in Nat
  BY <1>1, <1>3
<1>5. \A d \in DOMAIN cats : cats[d].count \in Int
  <2>1. \A d \in DOMAIN cats : cats[d] \in CategoryEntry
    BY <1>1
  <2> QED  BY <2>1 DEF CategoryEntry
<1>6. UserKept(u, c)
  <2>1. \A v \in DOMAIN ulist : ulist[v] \in UserEntry
    BY <1>2
  <2>2. [ulist[u] EXCEPT !.entry = c, !.row = Len(rows) + 1] \in UserEntry
    <3>1. ulist[u] \in UserEntry
      BY <1>3, <2>1
    <3>2. \A e \in UserEntry, k \in Nat, r \in Nat : [e EXCEPT !.entry = k, !.row = r] \in UserEntry
      BY DEF UserEntry
    <3> HIDE DEF u, c
    <3>3. c \in Nat /\ Len(rows) + 1 \in Nat
      BY <1>2, <1>4
    <3> QED  BY <3>1, <3>2, <3>3, Zenon
  <2>3. CASE name # ulist[u].category
    <3>1. ulist' = [ulist EXCEPT ![u] = [ulist[u] EXCEPT !.entry = c, !.row = Len(rows) + 1]]
      BY <2>3, <1>2, <1>3, <2>1 DEF EntryOfKnownUser, UserEntry
    <3> QED  BY <1>2, <1>3, <2>2, <3>1 DEF UserKept, EntryOfKnownUser
  <2>4. CASE name = ulist[u].category
    <3>1. ulist' = [ulist EXCEPT ![u] = [ulist[u] EXCEPT !.entry = c, !.row = Len(rows) + 1]]
      BY <2>4, <1>2, <1>3, <2>1 DEF EntryOfKnownUser, UserEntry
    <3> QED  BY <1>2, <1>3, <2>2, <3>1 DEF UserKept, EntryOfKnownUser
  <2> QED  BY <2>3, <2>4
<1>7. CASE name = ulist[u].category
  <2>1. AddRow(cats, u, c) /\ c = old
    BY <1>7 DEF EntryOfKnownUser
  <2> HIDE DEF cats, u, old, c
  <2>2. /\ RowAdded(u, c) /\ Renamed(cats)
        /\ \A d \in DOMAIN cats :
             /\ clist'[d].count = cats[d].count
             /\ clist'[d].title = IF d = c THEN cats[d].count ELSE cats[d].title
    BY <1>1, <1>2, <1>3, <1>4, <2>1, AddRowLemma
  <2>3. \A d \in DOMAIN cats :
          /\ clist'[d].count = cats[d].count + (IF d = c THEN 1 ELSE 0) - (IF d = old THEN 1 ELSE 0)
          /\ clist'[d].title = IF d = c THEN clist'[d].count ELSE cats[d].title
    BY <1>5, <2>1, <2>2
  <2> QED  BY <1>3, <1>6, <2>2, <2>3 DEF cats, u, old, c
<1>8. CASE name # ulist[u].category
  <2> DEFINE left == [cats EXCEPT ![old].count = cats[old].count - 1]
             counted == [left EXCEPT ![c].count = left[c].count + 1]
  <2>1. AddRow(counted, u, c)
    BY <1>8 DEF EntryOfKnownUser
  <2> HIDE DEF cats, u, old, c
  <2>2. /\ left \in Seq(CategoryEntry) /\ DOMAIN left = DOMAIN cats
        /\ \A d \in DOMAIN cats :
             /\ left[d].name = cats[d].name /\ left[d].title = cats[d].title
             /\ left[d].count = IF d = old THEN cats[old].count - 1 ELSE cats[d].count
    <3>1. cats[old].count - 1 \in Int
      BY <1>4, <1>5
    <3> HIDE DEF left
    <3> QED  BY <1>1, <1>4, <3>1, SetCount DEF left
  <2> HIDE DEF left
  <2>3. /\ counted \in Seq(CategoryEntry) /\ DOMAIN counted = DOMAIN left
        /\ \A d \in DOMAIN left :
             /\ counted[d].name = left[d].name /\ counted[d].title = left[d].title
             /\ counted[d].count = IF d = c THEN left[c].count + 1 ELSE left[d].count
    <3>1. left[c].count + 1 \in Int
      BY <1>4, <1>5, <2>2
    <3> HIDE DEF counted
    <3> QED  BY <1>4, <2>2, <3>1, SetCount DEF counted
  <2> HIDE DEF counted
  <2>4. /\ RowAdded(u, c) /\ Renamed(counted)
        /\ \A d \in DOMAIN counted :
             /\ clist'[d].count = counted[d].count
             /\ clist'[d].title = IF d = c THEN counted[d].count ELSE counted[d].title
    BY <1>2, <1>3, <1>4, <2>1, <2>2, <2>3, AddRowLemma
  <2>5. Renamed(cats)
    BY <2>2, <2>3, <2>4 DEF Renamed
  <2>6. \A d \in DOMAIN cats :
          /\ clist'[d].count = cats[d].count + (IF d = c THEN 1 ELSE 0) - (IF d = old THEN 1 ELSE 0)
          /\ clist'[d].title = IF d = c THEN clist'[d].count ELSE cats[d].title
    <3> TAKE d \in DOMAIN cats
    <3>1. clist'[d].count = counted[d].count
      BY <2>2, <2>3, <2>4
    <3>2. clist'[d].title = IF d = c THEN clist'[d].count ELSE cats[d].title
      BY <2>2, <2>3, <2>4, <3>1
    <3>3. cats[d].count \in Int /\ cats[c].count \in Int
      BY <1>4, <1>5
    <3>4. CASE d = c
      <4>1. counted[d].count = left[c].count + 1
        BY <1>4, <2>2, <2>3, <3>4
      <4>2. left[c].count = cats[c].count - (IF c = old THEN 1 ELSE 0)
        BY <1>4, <2>2, <3>3
      <4> QED  BY <3>1, <3>2, <3>3, <3>4, <4>1, <4>2
    <3>5. CASE d # c
      BY <1>4, <2>2, <2>3, <3>1, <3>2, <3>3, <3>5
    <3> QED  BY <3>4, <3>5
  <2> QED  BY <1>3, <1>6, <2>4, <2>5, <2>6 DEF cats, u, old, c
<1> QED  BY <1>7, <1>8

-----------------------------------------------------------------------------
(* One entry message keeps the invariant.                                   *)

LEMMA Lists ==
  ASSUME IInv
  PROVE  /\ DOMAIN ulist = 1 .. Len(ulist) /\ Len(ulist) \in Nat
         /\ DOMAIN clist = 1 .. Len(clist) /\ Len(clist) \in Nat
         /\ DOMAIN rows = 1 .. Len(rows) /\ Len(rows) \in Nat
         /\ \A u \in DOMAIN ulist :
              /\ ulist[u].ip \in Ips /\ UserBucket[ulist[u].ip] \in UserBuckets
              /\ ulist[u].entry \in DOMAIN clist /\ ulist[u].row \in DOMAIN rows
         /\ \A c \in DOMAIN clist :
              /\ clist[c].name \in Categories /\ clist[c].count \in Int /\ clist[c].title \in Int
              /\ CategoryBucket[clist[c].name] \in CategoryBuckets
<1>1. ulist \in Seq(UserEntry) /\ clist \in Seq(CategoryEntry) /\ rows \in Seq(Row)
  BY DEF IInv, TypeOK
<1>2. /\ \A u \in DOMAIN ulist : ulist[u] \in UserEntry
      /\ \A c \in DOMAIN clist : clist[c] \in CategoryEntry
  BY <1>1
<1>3. /\ \A u \in DOMAIN ulist : ulist[u].ip \in Ips
      /\ \A c \in DOMAIN clist :
           clist[c].name \in Categories /\ clist[c].count \in Int /\ clist[c].title \in Int
  BY <1>2 DEF UserEntry, CategoryEntry
<1> QED  BY <1>1, <1>3 DEF IInv, PointersInv, UserBuckets, CategoryBuckets

(* The categories after the message: those before it and the one of the     *)
(* message, which its bucket then holds.                                    *)
CategoriesGrow(name) ==
  /\ clist' \in Seq(CategoryEntry)
  /\ DOMAIN clist' = 1 .. Len(CategoriesWith(name))
  /\ \A d \in DOMAIN clist : d \in DOMAIN clist' /\ clist'[d].name = clist[d].name
  /\ CategoryOf(name) \in DOMAIN clist' /\ clist'[CategoryOf(name)].name = name
  /\ \A d \in DOMAIN clist' : d \in DOMAIN clist \/ (d = Len(clist) + 1 /\ d = CategoryOf(name))

LEMMA Growth ==
  ASSUME IInv, NEW ip \in Ips, NEW name \in Categories, OnEntry(ip, name)
  PROVE  CategoriesGrow(name)
<1>1. Renamed(CategoriesWith(name))
  BY NewUser, KnownUser DEF OnEntry
<1>2. IInv => TypeOK /\ UserTableInv /\ CategoryTableInv
  BY DEF IInv
<1> QED  BY <1>1, <1>2, CategoriesWithLemma DEF Renamed, CategoriesGrow

LEMMA CategoryTableNext ==
  ASSUME IInv, NEW ip \in Ips, NEW name \in Categories, OnEntry(ip, name)
  PROVE  CategoryTableInv'
<1> DEFINE b0 == CategoryBucket[name]
           c0 == CategoryOf(name)
<1>1. /\ CategoriesGrow(name)
      /\ DOMAIN clist = 1 .. Len(clist) /\ Len(clist) \in Nat
      /\ \A c \in DOMAIN clist : CategoryBucket[clist[c].name] \in CategoryBuckets
  BY Growth, Lists
<1>2. b0 \in CategoryBuckets /\ ctable' = [ctable EXCEPT ![b0] = c0]
  BY DEF OnEntry, InsertCategory, CategoryBuckets
<1>3. ctable \in [CategoryBuckets -> Nat \cup {None}] /\ CategoryTableInv
  BY DEF IInv, TypeOK
<1>4. ctable'[b0] = c0 /\ \A b \in CategoryBuckets \ {b0} : ctable'[b] = ctable[b]
  BY <1>2, <1>3
<1>5. c0 = Len(clist) + 1 \/ (c0 \in DOMAIN clist /\ ctable[b0] = c0)
  BY CategoriesWithLemma DEF IInv
<1>6. c0 \in Nat /\ c0 # None
  BY <1>1, <1>5, NoneAssumption
<1>7. \A d \in DOMAIN clist' : ctable'[CategoryBucket[clist'[d].name]] # None
  BY <1>1, <1>3, <1>4, <1>6 DEF CategoriesGrow, CategoryTableInv
<1>8. ASSUME NEW b \in CategoryBuckets, ctable'[b] # None
      PROVE  /\ ctable'[b] \in DOMAIN clist' /\ CategoryBucket[clist'[ctable'[b]].name] = b
             /\ \A d \in DOMAIN clist' : CategoryBucket[clist'[d].name] = b => d <= ctable'[b]
  <2>1. CASE b # b0
    BY <1>1, <1>3, <1>4, <1>8, <2>1 DEF CategoriesGrow, CategoryTableInv
  <2>2. CASE b = b0
    <3>1. ctable'[b] \in DOMAIN clist' /\ CategoryBucket[clist'[ctable'[b]].name] = b
      BY <1>1, <1>4, <2>2 DEF CategoriesGrow
    <3>2. CASE c0 = Len(clist) + 1
      BY <1>1, <1>4, <2>2, <3>1, <3>2 DEF CategoriesGrow
    <3>3. CASE c0 \in DOMAIN clist /\ ctable[b0] = c0
      <4>1. ctable[b0] # None
        BY <1>6, <3>3
      <4>2. \A d \in DOMAIN clist' : d \in DOMAIN clist /\ clist'[d].name = clist[d].name
        BY <1>1, <3>3 DEF CategoriesGrow
      <4> QED  BY <1>2, <1>3, <1>4, <2>2, <3>1, <3>3, <4>1, <4>2 DEF CategoryTableInv
    <3> QED  BY <1>5, <3>2, <3>3
  <2> QED  BY <2>1, <2>2
<1> QED  BY <1>7, <1>8 DEF CategoryTableInv

LEMMA UserTableNext ==
  ASSUME IInv, NEW ip \in Ips, NEW name \in Categories, OnEntry(ip, name)
  PROVE  UserTableInv'
<1>1. /\ DOMAIN ulist = 1 .. Len(ulist) /\ Len(ulist) \in Nat
      /\ \A u \in DOMAIN ulist : UserBucket[ulist[u].ip] \in UserBuckets
      /\ UserBucket[ip] \in UserBuckets
  BY Lists DEF UserBuckets
<1>2. utable \in [UserBuckets -> Nat \cup {None}] /\ UserTableInv
  BY DEF IInv, TypeOK
<1>3. CASE EntryOfNewUser(ip, name)
  <2>1. UserAdded(ip, name)
    BY <1>3, NewUser
  <2>2. /\ utable'[UserBucket[ip]] = Len(ulist) + 1 /\ Len(ulist) + 1 # None
        /\ \A b \in UserBuckets \ {UserBucket[ip]} : utable'[b] = utable[b]
    BY <1>1, <1>2, <2>1, NoneAssumption DEF UserAdded
  <2>3. ulist'[Len(ulist) + 1].ip = ip
    BY <2>1 DEF UserAdded
  <2>4. \A u \in DOMAIN ulist' : utable'[UserBucket[ulist'[u].ip]] # None
    BY <1>1, <1>2, <2>1, <2>2, <2>3 DEF UserAdded, UserTableInv
  <2>5. ASSUME NEW b \in UserBuckets, utable'[b] # None
        PROVE  /\ utable'[b] \in DOMAIN ulist' /\ UserBucket[ulist'[utable'[b]].ip] = b
               /\ \A u \in DOMAIN ulist' : UserBucket[ulist'[u].ip] = b => u <= utable'[b]
    <3>1. CASE b = UserBucket[ip]
      BY <1>1, <2>1, <2>2, <2>3, <3>1 DEF UserAdded
    <3>2. CASE b # UserBucket[ip]
      BY <1>1, <1>2, <2>1, <2>2, <2>3, <2>5, <3>2 DEF UserAdded, UserTableInv
    <3> QED  BY <3>1, <3>2
  <2> QED  BY <2>4, <2>5 DEF UserTableInv
<1>4. CASE EntryOfKnownUser(ip, name)
  <2>1. DOMAIN ulist' = DOMAIN ulist /\ utable' = utable
    BY <1>4, KnownUser DEF UserKept
  <2>2. \A u \in DOMAIN ulist : ulist'[u].ip = ulist[u].ip
    <3>1. PICK c : FindUser(ip) \in DOMAIN ulist /\ UserKept(FindUser(ip), c)
      BY <1>4, KnownUser
    <3> QED  BY <3>1, Kept DEF IInv, TypeOK
  <2> QED  BY <1>2, <2>1, <2>2 DEF UserTableInv
<1> QED  BY <1>3, <1>4 DEF OnEntry

LEMMA TypeNext ==
  ASSUME IInv, NEW ip \in Ips, NEW name \in Categories, OnEntry(ip, name)
  PROVE  TypeOK' /\ PointersInv'
<1>1. /\ DOMAIN ulist = 1 .. Len(ulist) /\ Len(ulist) \in Nat
      /\ DOMAIN rows = 1 .. Len(rows) /\ Len(rows) \in Nat
      /\ \A u \in DOMAIN ulist : ulist[u].entry \in DOMAIN clist /\ ulist[u].row \in DOMAIN rows
      /\ CategoriesGrow(name)
  BY Lists, Growth
<1>2. CategoryOf(name) \in Nat
  BY CategoriesWithLemma DEF IInv
<1>3. /\ ctable' = [ctable EXCEPT ![CategoryBucket[name]] = CategoryOf(name)]
      /\ announced' = [announced EXCEPT ![ip] = name]
  BY DEF OnEntry, InsertCategory
<1>4. /\ ctable' \in [CategoryBuckets -> Nat \cup {None}]
      /\ announced' \in [Ips -> Categories \cup {None}]
      /\ clist' \in Seq(CategoryEntry)
  BY <1>1, <1>2, <1>3 DEF IInv, TypeOK, CategoriesGrow
<1>5. CASE EntryOfNewUser(ip, name)
  <2>1. UserAdded(ip, name) /\ RowAdded(Len(ulist) + 1, CategoryOf(name))
    BY <1>5, NewUser
  <2>2. utable' \in [UserBuckets -> Nat \cup {None}]
    <3>1. utable \in [UserBuckets -> Nat \cup {None}]
      BY DEF IInv, TypeOK
    <3>2. utable' = [utable EXCEPT ![UserBucket[ip]] = Len(ulist) + 1] /\ Len(ulist) + 1 \in Nat
      BY <1>1, <2>1 DEF UserAdded
    <3> QED  BY <3>1, <3>2
  <2>3. TypeOK'
    BY <1>4, <2>1, <2>2 DEF TypeOK, UserAdded, RowAdded
  <2>4. PointersInv'
    <3>1. /\ ulist'[Len(ulist) + 1].entry = CategoryOf(name)
          /\ ulist'[Len(ulist) + 1].row = Len(rows) + 1
      BY <2>1 DEF UserAdded
    <3>2. CategoryOf(name) \in DOMAIN clist' /\ Len(rows) + 1 \in DOMAIN rows'
      BY <1>1, <2>1 DEF CategoriesGrow, RowAdded
    <3>3. \A u \in DOMAIN ulist : /\ ulist'[u] = ulist[u]
                                 /\ ulist[u].entry \in DOMAIN clist' /\ ulist[u].row \in DOMAIN rows'
      BY <1>1, <2>1 DEF UserAdded, RowAdded, CategoriesGrow
    <3>4. \A u \in DOMAIN ulist' : u \in DOMAIN ulist \/ u = Len(ulist) + 1
      BY <1>1, <2>1 DEF UserAdded
    <3> QED  BY <3>1, <3>2, <3>3, <3>4 DEF PointersInv
  <2> QED  BY <2>3, <2>4
<1>6. CASE EntryOfKnownUser(ip, name)
  <2> DEFINE u == FindUser(ip)
             c == IF name # ulist[u].category THEN CategoryOf(name) ELSE ulist[u].entry
  <2>1. u \in DOMAIN ulist /\ UserKept(u, c) /\ RowAdded(u, c) /\ c \in DOMAIN clist'
    BY <1>1, <1>6, KnownUser DEF CategoriesGrow
  <2> HIDE DEF u, c
  <2>2. TypeOK'
    BY <1>4, <2>1 DEF IInv, TypeOK, UserKept, RowAdded
  <2>3. \A v \in DOMAIN ulist' : ulist'[v].entry \in DOMAIN clist' /\ ulist'[v].row \in DOMAIN rows'
    <3>1. DOMAIN ulist' = DOMAIN ulist
      BY <2>1 DEF UserKept
    <3>2. \A v \in DOMAIN ulist :
           /\ ulist'[v].entry = IF v = u THEN c ELSE ulist[v].entry
           /\ ulist'[v].row = IF v = u THEN Len(rows) + 1 ELSE ulist[v].row
      BY <2>1, Kept DEF IInv, TypeOK
    <3>3. Len(rows) + 1 \in DOMAIN rows'
      BY <1>1, <2>1 DEF RowAdded
    <3>4. \A v \in DOMAIN ulist : ulist[v].entry \in DOMAIN clist' /\ ulist[v].row \in DOMAIN rows'
      BY <1>1, <2>1 DEF CategoriesGrow, RowAdded
    <3> QED  BY <2>1, <3>1, <3>2, <3>3, <3>4
  <2> QED  BY <2>2, <2>3 DEF PointersInv
<1> QED  BY <1>5, <1>6 DEF OnEntry

LEMMA InvInit == Init => IInv
BY DEF Init, IInv, TypeOK, PointersInv, UserTableInv, CategoryTableInv, UserBuckets, CategoryBuckets

LEMMA InvNext == IInv /\ [Next]_vars => IInv'
<1>1. ASSUME IInv, NEW ip \in Ips, NEW name \in Categories, OnEntry(ip, name)
      PROVE  IInv'
  BY <1>1, TypeNext, UserTableNext, CategoryTableNext DEF IInv
<1>2. IInv /\ UNCHANGED vars => IInv'
  BY DEF vars, IInv, TypeOK, PointersInv, UserTableInv, CategoryTableInv
<1> QED  BY <1>1, <1>2 DEF Next

LEMMA Invariance == Spec => []IInv
<1>1. QED  BY InvInit, InvNext, PTL DEF Spec

-----------------------------------------------------------------------------
(* The row that on_entry_callback remembers for a user is a row of that     *)
(* user, under the category in which the user is counted.                   *)
THEOREM RowsKept == Spec => []RowUnderCategory
<1>1. Init => RowUnderCategory
  BY DEF Init, RowUnderCategory
<1>2. ASSUME IInv, RowUnderCategory, NEW ip \in Ips, NEW name \in Categories, OnEntry(ip, name)
      PROVE  RowUnderCategory'
  <2>1. /\ DOMAIN ulist = 1 .. Len(ulist) /\ Len(ulist) \in Nat
        /\ DOMAIN rows = 1 .. Len(rows) /\ Len(rows) \in Nat
        /\ \A v \in DOMAIN ulist : ulist[v].row \in DOMAIN rows
    BY <1>2, Lists
  <2>2. CASE EntryOfNewUser(ip, name)
    <3>1. UserAdded(ip, name) /\ RowAdded(Len(ulist) + 1, CategoryOf(name))
      BY <1>2, <2>2, NewUser
    <3>2. /\ ulist'[Len(ulist) + 1].entry = CategoryOf(name)
          /\ ulist'[Len(ulist) + 1].row = Len(rows) + 1
      BY <3>1 DEF UserAdded
    <3>3. \A v \in DOMAIN ulist' : v \in DOMAIN ulist \/ v = Len(ulist) + 1
      BY <2>1, <3>1 DEF UserAdded
    <3>4. \A v \in DOMAIN ulist : rows'[ulist'[v].row] = [user |-> v, under |-> ulist'[v].entry]
      BY <1>2, <2>1, <3>1 DEF UserAdded, RowAdded, RowUnderCategory
    <3> QED  BY <3>1, <3>2, <3>3, <3>4 DEF RowAdded, RowUnderCategory
  <2>3. CASE EntryOfKnownUser(ip, name)
    <3>1. PICK c : /\ FindUser(ip) \in DOMAIN ulist
                   /\ UserKept(FindUser(ip), c) /\ RowAdded(FindUser(ip), c)
      BY <1>2, <2>3, KnownUser
    <3>2. DOMAIN ulist' = DOMAIN ulist
      BY <3>1 DEF UserKept
    <3>3. \A v \in DOMAIN ulist :
           /\ ulist'[v].entry = IF v = FindUser(ip) THEN c ELSE ulist[v].entry
           /\ ulist'[v].row = IF v = FindUser(ip) THEN Len(rows) + 1 ELSE ulist[v].row
      BY <1>2, <3>1, Kept DEF IInv, TypeOK
    <3>4. \A v \in DOMAIN ulist : rows'[ulist'[v].row] = [user |-> v, under |-> ulist'[v].entry]
      BY <1>2, <2>1, <3>1, <3>3 DEF RowAdded, RowUnderCategory
    <3> QED  BY <3>2, <3>4 DEF RowUnderCategory
  <2> QED  BY <1>2, <2>2, <2>3 DEF OnEntry
<1>3. RowUnderCategory /\ UNCHANGED vars => RowUnderCategory'
  BY DEF vars, RowUnderCategory
<1>4. IInv /\ RowUnderCategory /\ [Next]_vars => RowUnderCategory'
  BY <1>2, <1>3 DEF Next
<1> QED  BY <1>1, <1>4, Invariance, PTL DEF Spec

(* A user that moved away from its first category is counted in the one     *)
(* that its last entry message named.                                       *)
THEOREM Moved == Spec => []MovedToAnnounced
<1>1. Init => MovedToAnnounced
  <2> SUFFICES ASSUME Init, NEW i \in Ips PROVE FindUser(i) = None
    BY DEF MovedToAnnounced
  <2>1. UserBucket[i] \in UserBuckets
    BY DEF UserBuckets
  <2> QED  BY <2>1 DEF Init, FindUser
<1>2. ASSUME IInv, MovedToAnnounced, NEW ip \in Ips, NEW name \in Categories, OnEntry(ip, name),
             NEW i \in Ips, FindUser(i)' # None, announced'[i] # ulist'[FindUser(i)'].category
      PROVE  clist'[ulist'[FindUser(i)'].entry].name = announced'[i]
  <2>1. /\ announced'[ip] = name /\ (i # ip => announced'[i] = announced[i])
        /\ CategoriesGrow(name)
        /\ UserBucket[ip] \in UserBuckets /\ UserBucket[i] \in UserBuckets
        /\ \A u \in DOMAIN ulist : ulist[u].entry \in DOMAIN clist
    BY <1>2, Growth, Lists DEF OnEntry, IInv, TypeOK, UserBuckets
  <2>2. /\ FindUser(i) # None => FindUser(i) \in DOMAIN ulist /\ ulist[FindUser(i)].ip = i
        /\ FindUser(i) # None /\ announced[i] # ulist[FindUser(i)].category =>
             clist[ulist[FindUser(i)].entry].name = announced[i]
    BY <1>2, Found DEF IInv, MovedToAnnounced
  <2>3. FindUser(i)' = utable'[UserBucket[i]] /\ ulist'[FindUser(i)'].ip = i
    BY <1>2 DEF FindUser
  <2>4. CASE EntryOfNewUser(ip, name)
    <3>1. /\ ulist'[Len(ulist) + 1].ip = ip /\ ulist'[Len(ulist) + 1].category = name
          /\ utable'[UserBucket[ip]] = Len(ulist) + 1
          /\ UserBucket[i] # UserBucket[ip] => utable'[UserBucket[i]] = utable[UserBucket[i]]
          /\ \A u \in DOMAIN ulist : ulist'[u] = ulist[u]
      <4>1. UserAdded(ip, name)
        BY <1>2, <2>4, NewUser
      <4>2. utable \in [UserBuckets -> Nat \cup {None}]
        BY <1>2 DEF IInv, TypeOK
      <4> QED  BY <2>1, <4>1, <4>2 DEF UserAdded
    <3>2. i # ip /\ UserBucket[i] # UserBucket[ip]
      BY <1>2, <2>1, <2>3, <3>1
    <3>3. utable[UserBucket[i]] \in DOMAIN ulist
      BY <1>2, <2>1, <2>3, <3>1, <3>2 DEF IInv, UserTableInv
    <3>4. FindUser(i) = FindUser(i)' /\ ulist'[FindUser(i)] = ulist[FindUser(i)]
      BY <1>2, <2>3, <3>1, <3>2, <3>3 DEF FindUser
    <3> QED  BY <1>2, <2>1, <2>2, <3>2, <3>4 DEF CategoriesGrow
  <2>5. CASE EntryOfKnownUser(ip, name)
    <3> DEFINE u == FindUser(ip)
               c == IF name # ulist[u].category THEN CategoryOf(name) ELSE ulist[u].entry
    <3>1. u \in DOMAIN ulist /\ UserKept(u, c) /\ ulist[u].ip = ip
      BY <1>2, <2>5, KnownUser, Found DEF IInv, EntryOfKnownUser
    <3>2. /\ \A v \in DOMAIN ulist :
               /\ ulist'[v].ip = ulist[v].ip /\ ulist'[v].category = ulist[v].category
               /\ ulist'[v].entry = IF v = u THEN c ELSE ulist[v].entry
          /\ utable' = utable
      <4> HIDE DEF u, c
      <4>1. ulist \in Seq(UserEntry) /\ utable' = utable
        BY <1>2, <3>1 DEF IInv, TypeOK, UserKept
      <4> QED  BY <3>1, <4>1, Kept
    <3>3. utable[UserBucket[i]] \in DOMAIN ulist
      BY <1>2, <2>1, <2>3, <3>2 DEF IInv, UserTableInv
    <3>4. FindUser(i) = FindUser(i)'
      BY <1>2, <2>3, <3>2, <3>3 DEF FindUser
    <3>5. CASE i = ip
      BY <1>2, <2>1, <3>1, <3>2, <3>4, <3>5 DEF CategoriesGrow
    <3>6. CASE i # ip
      <4>1. FindUser(i) # u /\ FindUser(i) \in DOMAIN ulist
        BY <1>2, <2>2, <3>1, <3>4, <3>6
      <4>2. ulist'[FindUser(i)].entry = ulist[FindUser(i)].entry
        BY <3>2, <4>1
      <4>3. ulist'[FindUser(i)].category = ulist[FindUser(i)].category
        BY <3>2, <4>1
      <4> QED  BY <1>2, <2>1, <2>2, <3>4, <3>6, <4>1, <4>2, <4>3 DEF CategoriesGrow
    <3> QED  BY <3>5, <3>6
  <2> QED  BY <1>2, <2>4, <2>5 DEF OnEntry
<1>3. IInv /\ MovedToAnnounced /\ [Next]_vars => MovedToAnnounced'
  <2>1. MovedToAnnounced /\ UNCHANGED vars => MovedToAnnounced'
    BY DEF vars, MovedToAnnounced, FindUser
  <2> QED  BY <1>2, <2>1 DEF Next, MovedToAnnounced
<1> QED  BY <1>1, <1>3, Invariance, PTL DEF Spec

(* An address or a group name gets a second entry only because hash_insert  *)
(* of another key overwrote the bucket of the first.                        *)
LEMMA UserDuplicates ==
  ASSUME IInv, DuplicateUserByCollision,
         NEW ip \in Ips, NEW name \in Categories, OnEntry(ip, name)
  PROVE  DuplicateUserByCollision'
<1>1. DOMAIN ulist = 1 .. Len(ulist) /\ Len(ulist) \in Nat
  BY Lists
<1>2. CASE EntryOfNewUser(ip, name)
  <2> DEFINE n == Len(ulist) + 1
             w == utable[UserBucket[ip]]
  <2>1. UserAdded(ip, name) /\ FindUser(ip) = None
    BY <1>2, NewUser DEF EntryOfNewUser
  <2>2. /\ DOMAIN ulist' = 1 .. n /\ ulist'[n].ip = ip
        /\ \A u \in DOMAIN ulist : ulist'[u] = ulist[u]
    BY <2>1 DEF UserAdded
  <2>3. ASSUME NEW u \in DOMAIN ulist, ulist[u].ip = ip
        PROVE  /\ w \in u + 1 .. n - 1 /\ ulist'[w].ip # ip
               /\ UserBucket[ulist'[w].ip] = UserBucket[ip]
    <3>1. UserBucket[ip] \in UserBuckets
      BY DEF UserBuckets
    <3>2. /\ w # None /\ w \in DOMAIN ulist /\ UserBucket[ulist[w].ip] = UserBucket[ip]
          /\ u <= w
      BY <2>3, <3>1 DEF IInv, UserTableInv
    <3>3. ulist[w].ip # ip
      BY <2>1, <3>2 DEF FindUser
    <3> QED  BY <1>1, <2>2, <2>3, <3>2, <3>3
  <2> HIDE DEF w
  <2>4. ASSUME NEW u \in DOMAIN ulist', NEW v \in DOMAIN ulist', u < v, ulist'[u].ip = ulist'[v].ip
        PROVE  \E x \in u + 1 .. v - 1 :
                 /\ ulist'[x].ip # ulist'[u].ip
                 /\ UserBucket[ulist'[x].ip] = UserBucket[ulist'[u].ip]
    <3>1. u \in DOMAIN ulist
      BY <1>1, <2>2, <2>4
    <3>2. CASE v = n
      BY <2>2, <2>3, <2>4, <3>1, <3>2
    <3>3. CASE v # n
      <4>1. v \in DOMAIN ulist /\ ulist[u].ip = ulist[v].ip
        BY <1>1, <2>2, <2>4, <3>1, <3>3
      <4>2. PICK x \in u + 1 .. v - 1 :
                   /\ ulist[x].ip # ulist[u].ip
                   /\ UserBucket[ulist[x].ip] = UserBucket[ulist[u].ip]
        BY <2>4, <3>1, <4>1 DEF DuplicateUserByCollision
      <4>3. x \in DOMAIN ulist
        BY <1>1, <3>1, <4>1, <4>2
      <4> QED  BY <2>2, <3>1, <4>2, <4>3
    <3> QED  BY <3>2, <3>3
  <2> QED  BY <2>4 DEF DuplicateUserByCollision
<1>3. CASE EntryOfKnownUser(ip, name)
  <2>1. PICK c : FindUser(ip) \in DOMAIN ulist /\ UserKept(FindUser(ip), c)
    BY <1>3, KnownUser
  <2>2. DOMAIN ulist' = DOMAIN ulist /\ \A u \in DOMAIN ulist : ulist'[u].ip = ulist[u].ip
    <3>1. ulist \in Seq(UserEntry)
      BY DEF IInv, TypeOK
    <3> QED  BY <2>1, <3>1, Kept DEF UserKept
  <2>3. \A u, v \in DOMAIN ulist, x \in Int : x \in u + 1 .. v - 1 => x \in DOMAIN ulist
    BY <1>1
  <2> QED  BY <2>2, <2>3 DEF DuplicateUserByCollision
<1> QED  BY <1>2, <1>3 DEF OnEntry

LEMMA CategoryDuplicates ==
  ASSUME IInv, DuplicateCategoryByCollision,
         NEW ip \in Ips, NEW name \in Categories, OnEntry(ip, name)
  PROVE  DuplicateCategoryByCollision'
<1>1. DOMAIN clist = 1 .. Len(clist) /\ Len(clist) \in Nat
  BY Lists
<1>2. CategoriesGrow(name)
  BY Growth
<1>3. ASSUME NEW c \in DOMAIN clist', NEW d \in DOMAIN clist', c < d, clist'[c].name = clist'[d].name
      PROVE  \E e \in c + 1 .. d - 1 :
               /\ clist'[e].name # clist'[c].name
               /\ CategoryBucket[clist'[e].name] = CategoryBucket[clist'[c].name]
  <2>1. CASE d \in DOMAIN clist
    <3>1. c \in DOMAIN clist
      BY <1>1, <1>2, <1>3, <2>1 DEF CategoriesGrow
    <3>2. PICK e \in c + 1 .. d - 1 :
                 /\ clist[e].name # clist[c].name
                 /\ CategoryBucket[clist[e].name] = CategoryBucket[clist[c].name]
      BY <1>2, <1>3, <2>1, <3>1 DEF CategoriesGrow, DuplicateCategoryByCollision
    <3>3. e \in DOMAIN clist
      BY <1>1, <2>1, <3>1, <3>2
    <3> QED  BY <1>2, <3>1, <3>2, <3>3 DEF CategoriesGrow
  <2>2. CASE d \notin DOMAIN clist
    <3> DEFINE e == ctable[CategoryBucket[name]]
    <3>1. d = Len(clist) + 1 /\ d = CategoryOf(name) /\ clist'[c].name = name
      BY <1>2, <1>3, <2>2 DEF CategoriesGrow
    <3>2. c \in DOMAIN clist /\ clist[c].name = name
      BY <1>1, <1>2, <1>3, <3>1 DEF CategoriesGrow
    <3>3. CategoryBucket[name] \in CategoryBuckets
      BY DEF CategoryBuckets
    <3>4. /\ e # None /\ e \in DOMAIN clist /\ c <= e
          /\ CategoryBucket[clist[e].name] = CategoryBucket[name]
      BY <3>2, <3>3 DEF IInv, CategoryTableInv
    <3>5. clist[e].name # name
      <4>1. FindCategory(name) = None \/ CategoryOf(name) \in DOMAIN clist
        BY CategoriesWithLemma DEF IInv
      <4> QED  BY <2>2, <3>1, <3>4, <4>1 DEF FindCategory
    <3> HIDE DEF e
    <3>6. e \in c + 1 .. d - 1
      BY <1>1, <3>1, <3>2, <3>4, <3>5
    <3> QED  BY <1>2, <3>1, <3>4, <3>5, <3>6 DEF CategoriesGrow
  <2> QED  BY <2>1, <2>2
<1> QED  BY <1>3 DEF DuplicateCategoryByCollision

(* An address or a category has a second entry only if one of the same bucket*)
(* was inserted between the two.                                            *)
THEOREM Duplicates == Spec => []DuplicatesByCollision
<1>1. Init => DuplicatesByCollision
  BY DEF Init, DuplicatesByCollision, DuplicateUserByCollision, DuplicateCategoryByCollision
<1>2. ASSUME IInv, DuplicatesByCollision, NEW ip \in Ips, NEW name \in Categories, OnEntry(ip, name)
      PROVE  DuplicatesByCollision'
  BY <1>2, UserDuplicates, CategoryDuplicates DEF DuplicatesByCollision
<1>3. DuplicatesByCollision /\ UNCHANGED vars => DuplicatesByCollision'
  BY DEF vars, DuplicatesByCollision, DuplicateUserByCollision, DuplicateCategoryByCollision
<1>4. IInv /\ DuplicatesByCollision /\ [Next]_vars => DuplicatesByCollision'
  BY <1>2, <1>3 DEF Next
<1> QED  BY <1>1, <1>4, Invariance, PTL DEF Spec

-----------------------------------------------------------------------------
(* The members of a category are finitely many, and those of a category     *)
(* that does not exist yet are none.                                        *)
LEMMA MembersLemma ==
  ASSUME IInv
  PROVE  /\ \A c : IsFiniteSet(Members(c))
         /\ \A c : c \notin DOMAIN clist => Members(c) = {}
         /\ \A c : Len(ulist) + 1 \notin Members(c)
<1>1. DOMAIN ulist = 1 .. Len(ulist) /\ Len(ulist) \in Nat
  BY Lists
<1>2. IsFiniteSet(DOMAIN ulist)
  BY <1>1, FS_Interval
<1>3. ASSUME NEW c PROVE IsFiniteSet(Members(c))
  <2>1. Members(c) \in SUBSET (DOMAIN ulist)
    BY DEF Members
  <2> QED  BY <1>2, <2>1, FS_Subset
<1>4. ASSUME NEW c, c \notin DOMAIN clist PROVE Members(c) = {}
  BY <1>4, Lists DEF Members
<1>5. \A c : Len(ulist) + 1 \notin Members(c)
  BY <1>1 DEF Members
<1> QED  BY <1>3, <1>4, <1>5

(* The category entries keep the number of the user entries that point to   *)
(* them, and no title shows fewer, however the users move.                  *)
THEOREM Counted == Spec => []CountsAgree
<1>1. Init => CountsAgree
  BY DEF Init, CountsAgree, CountsMembers, TitleNotTooSmall
<1>2. ASSUME IInv, CountsAgree, NEW ip \in Ips, NEW name \in Categories, OnEntry(ip, name),
             NEW d \in DOMAIN clist'
      PROVE  clist'[d].count = Cardinality(Members(d)') /\ clist'[d].title >= clist'[d].count
  <2> DEFINE cats == CategoriesWith(name)
  <2>1. /\ DOMAIN clist' = DOMAIN cats /\ CategoryOf(name) \in DOMAIN cats
        /\ \A e \in DOMAIN clist : e \in DOMAIN cats /\ cats[e] = clist[e]
        /\ DOMAIN ulist = 1 .. Len(ulist) /\ Len(ulist) \in Nat
    BY <1>2, Growth, CategoriesWithLemma, Lists DEF CategoriesGrow, IInv
  <2>2. cats[d].count = Cardinality(Members(d)) /\ cats[d].title >= cats[d].count
        /\ cats[d].count \in Int /\ cats[d].title \in Int
    <3>1. CASE d \in DOMAIN clist
      BY <1>2, <2>1, <3>1, Lists DEF CountsAgree, CountsMembers, TitleNotTooSmall
    <3>2. CASE d \notin DOMAIN clist
      <4>1. cats[d] = NewCategory(name)
        BY <1>2, <2>1, <3>2, CategoriesWithLemma DEF IInv
      <4>2. Members(d) = {} /\ Cardinality({}) = 0
        BY <1>2, <3>2, MembersLemma, FS_EmptySet
      <4> QED  BY <4>1, <4>2 DEF NewCategory
    <3> QED  BY <3>1, <3>2
  <2>3. IsFiniteSet(Members(d)) /\ Len(ulist) + 1 \notin Members(d)
    BY <1>2, MembersLemma
  <2> HIDE DEF cats
  <2>4. CASE EntryOfNewUser(ip, name)
    <3> DEFINE c == CategoryOf(name)
    <3>1. /\ UserAdded(ip, name)
          /\ clist'[d].count = IF d = c THEN cats[d].count + 1 ELSE cats[d].count
          /\ clist'[d].title = IF d = c THEN cats[d].count + 1 ELSE cats[d].title
      BY <1>2, <2>1, <2>4, NewUser DEF cats
    <3> HIDE DEF c
    <3>2. Members(d)' = IF d = c THEN Members(d) \cup {Len(ulist) + 1} ELSE Members(d)
      <4>1. /\ DOMAIN ulist' = DOMAIN ulist \cup {Len(ulist) + 1}
            /\ ulist'[Len(ulist) + 1].entry = c
            /\ \A v \in DOMAIN ulist : ulist'[v].entry = ulist[v].entry
        BY <2>1, <3>1 DEF UserAdded, c
      <4> QED  BY <4>1 DEF Members
    <3>3. Cardinality(Members(d) \cup {Len(ulist) + 1}) = Cardinality(Members(d)) + 1
      BY <2>3, FS_AddElement
    <3> QED  BY <2>2, <3>1, <3>2, <3>3
  <2>5. CASE EntryOfKnownUser(ip, name)
    <3> DEFINE u == FindUser(ip)
               old == ulist[u].entry
               c == IF name # ulist[u].category THEN CategoryOf(name) ELSE old
    <3>1. /\ u \in DOMAIN ulist /\ UserKept(u, c)
          /\ clist'[d].count = cats[d].count + (IF d = c THEN 1 ELSE 0) - (IF d = old THEN 1 ELSE 0)
          /\ clist'[d].title = IF d = c THEN clist'[d].count ELSE cats[d].title
      BY <1>2, <2>1, <2>5, KnownUser DEF cats
    <3>2. old = ulist[u].entry
      OBVIOUS
    <3> HIDE DEF u, old, c
    <3>3. /\ DOMAIN ulist' = DOMAIN ulist
          /\ \A v \in DOMAIN ulist : ulist'[v].entry = IF v = u THEN c ELSE ulist[v].entry
      <4>1. ulist \in Seq(UserEntry)
        BY <1>2 DEF IInv, TypeOK
      <4>2. \A v \in DOMAIN ulist : ulist'[v].entry = IF v = u THEN c ELSE ulist[v].entry
        BY <3>1, <4>1, Kept
      <4> QED  BY <3>1, <4>2 DEF UserKept
    <3>4. CASE c = old
      <4>1. Members(d)' = Members(d)
        BY <3>1, <3>2, <3>3, <3>4 DEF Members
      <4> QED  BY <2>2, <3>1, <3>4, <4>1
    <3>5. CASE c # old /\ d = c
      <4>1. Members(d)' = Members(d) \cup {u} /\ u \notin Members(d)
        BY <3>1, <3>2, <3>3, <3>5 DEF Members
      <4>2. Cardinality(Members(d) \cup {u}) = Cardinality(Members(d)) + 1
        BY <2>3, <4>1, FS_AddElement
      <4> QED  BY <2>2, <3>1, <3>5, <4>1, <4>2
    <3>6. CASE c # old /\ d = old
      <4>1. Members(d)' = Members(d) \ {u} /\ u \in Members(d)
        BY <3>1, <3>2, <3>3, <3>6 DEF Members
      <4>2. Cardinality(Members(d) \ {u}) = Cardinality(Members(d)) - 1
        BY <2>3, <4>1, FS_RemoveElement
      <4> QED  BY <2>2, <3>1, <3>6, <4>1, <4>2
    <3>7. CASE d # c /\ d # old
      <4>1. Members(d)' = Members(d)
        BY <3>1, <3>2, <3>3, <3>7 DEF Members
      <4> QED  BY <2>2, <3>1, <3>7, <4>1
    <3> QED  BY <3>4, <3>5, <3>6, <3>7
  <2> QED  BY <1>2, <2>4, <2>5 DEF OnEntry
<1>3. CountsAgree /\ UNCHANGED vars => CountsAgree'
  BY DEF vars, CountsAgree, CountsMembers, TitleNotTooSmall, Members
<1>4. IInv /\ CountsAgree /\ [Next]_vars => CountsAgree'
  BY <1>2, <1>3 DEF Next, CountsAgree, CountsMembers, TitleNotTooSmall
<1> QED  BY <1>1, <1>4, Invariance, PTL DEF Spec

-----------------------------------------------------------------------------
(* The hash table.  It finds nothing but what was inserted last, loses a    *)
(* key to collisions only, and implements the map of KeyMap.                *)

\* A bucket that holds anything holds one entry, in the right bucket, which
\* was inserted last for its key and is on the heap.
BucketOK(b) ==
  \/ table[b] = << >>
  \/ \E e \in Table!Entry :
       /\ table[b] = <<e>>
       /\ Index[e.key] = b
       /\ latest[e.key] = e.val
       /\ e.id \in heap

Shape == \A b \in Buckets : BucketOK(b)

Unique ==
  \A b, c \in Buckets :
    b # c /\ table[b] # << >> /\ table[c] # << >> => table[b][1].id # table[c][1].id

TableInv == Table!TypeOK /\ Shape /\ Unique /\ Table!LostOnlyByCollision

-----------------------------------------------------------------------------
\* What hash_find sees of a bucket with no entry, and of one with one.
LEMMA FindEmpty ==
  ASSUME NEW k \in Keys, Table!Bucket(k) = << >>
  PROVE  Table!Places(k) = {} /\ Table!Find(k) = Null
  BY DEF Table!Places, Table!Find

LEMMA FindOne ==
  ASSUME NEW k \in Keys, NEW e \in Table!Entry, Table!Bucket(k) = <<e>>
  PROVE  /\ e.key = k => Table!Places(k) = {1} /\ Table!FirstPlace(k) = 1 /\ Table!Find(k) = e.val
         /\ e.key # k => Table!Places(k) = {} /\ Table!Find(k) = Null
<1>1. Len(Table!Bucket(k)) = 1 /\ Table!Bucket(k)[1] = e
  OBVIOUS
<1>2. CASE e.key = k
  <2>1. Table!Places(k) = {1}
    BY <1>1, <1>2 DEF Table!Places
  <2>2. Table!FirstPlace(k) = 1
    BY <2>1 DEF Table!FirstPlace
  <2> QED  BY <1>1, <1>2, <2>1, <2>2 DEF Table!Find
<1>3. CASE e.key # k
  <2>1. Table!Places(k) = {}
    BY <1>1, <1>3 DEF Table!Places
  <2> QED  BY <1>3, <2>1 DEF Table!Find
<1> QED  BY <1>2, <1>3

\* A key that is found is that of the one entry of its bucket.
LEMMA PresentIsHead ==
  ASSUME Table!TableAssumption, Table!TypeOK, Shape, NEW k \in Keys, Table!Places(k) # {}
  PROVE  \E e \in Table!Entry :
           /\ Table!Bucket(k) = <<e>> /\ e.key = k /\ Table!FirstPlace(k) = 1
           /\ latest[k] = e.val /\ e.id \in heap /\ Table!Find(k) = e.val
           /\ Table!Without(k) = << >>
<1>1. Index[k] \in Buckets
  BY DEF Table!TableAssumption
<1>2. Table!Bucket(k) # << >>
  BY FindEmpty
<1>3. PICK e \in Table!Entry : Table!Bucket(k) = <<e>> /\ latest[e.key] = e.val /\ e.id \in heap
  BY <1>1, <1>2 DEF Shape, BucketOK, Table!Bucket
<1>4. e.key = k
  BY <1>3, FindOne
<1>5. Table!FirstPlace(k) = 1 /\ Table!Find(k) = e.val
  BY <1>3, <1>4, FindOne
<1>6. Table!Without(k) = << >>
  BY <1>5 DEF Table!Without
<1> QED  BY <1>3, <1>4, <1>5, <1>6

-----------------------------------------------------------------------------
LEMMA TableInvInit ==
  ASSUME Table!TableAssumption
  PROVE  Table!Init => TableInv
<1> SUFFICES ASSUME Table!Init PROVE TableInv
  OBVIOUS
<1> USE DEF Table!Init
<1>1. Table!TypeOK
  <2>1. << >> \in Seq(Table!Entry)
    OBVIOUS
  <2>2. table \in [Buckets -> Seq(Table!Entry)]
    BY <2>1
  <2>3. made \in 0 .. MaxInserts /\ heap \subseteq 1 .. made
    BY DEF Table!TableAssumption
  <2> QED  BY <2>2, <2>3 DEF Table!TypeOK
<1>2. Shape
  BY DEF Shape, BucketOK
<1>3. Unique
  BY DEF Unique
<1>4. Table!LostOnlyByCollision
  BY DEF Table!LostOnlyByCollision
<1> QED  BY <1>1, <1>2, <1>3, <1>4 DEF TableInv

LEMMA InsertKeeps ==
  ASSUME Table!TableAssumption, TableInv, NEW k \in Keys, NEW v \in Values, Table!Insert(k, v)
  PROVE  TableInv'
<1> DEFINE e == [key |-> k, val |-> v, id |-> made + 1]
           b == Index[k]
<1> USE DEF Table!TableAssumption
<1>1. b \in Buckets /\ made \in Nat /\ made + 1 \in 1 .. MaxInserts /\ e \in Table!Entry
  <2>1. b \in Buckets
    OBVIOUS
  <2>2. made \in Nat /\ made < MaxInserts
    BY DEF TableInv, Table!TypeOK, Table!Insert
  <2>3. made + 1 \in Nat /\ made + 1 \in 1 .. MaxInserts
    BY <2>2
  <2>4. e \in Table!Entry
    BY <2>3 DEF Table!Entry
  <2> QED  BY <2>1, <2>2, <2>3, <2>4
<1>2. table' = [table EXCEPT ![b] = <<e>>]
  BY DEF Table!Insert, Table!Chained
<1>3. Table!TypeOK'
  <2>1. heap' \subseteq 1 .. made'
    BY <1>1 DEF TableInv, Table!TypeOK, Table!Insert
  <2>2. table' \in [Buckets -> Seq(Table!Entry)]
    BY <1>1, <1>2 DEF TableInv, Table!TypeOK
  <2>3. latest' \in [Keys -> Values \cup {Null}]
    BY DEF TableInv, Table!TypeOK, Table!Insert
  <2>4. overwrote' \in [Keys -> SUBSET Keys]
    BY DEF TableInv, Table!TypeOK, Table!Insert
  <2>5. made' \in 0 .. MaxInserts
    BY <1>1 DEF Table!Insert
  <2>6. pooled' \in BOOLEAN /\ locked' \in BOOLEAN
        /\ phase' \in {"open", "destroyed", "aborted"}
    BY DEF TableInv, Table!TypeOK, Table!Insert
  <2> QED  BY <2>1, <2>2, <2>3, <2>4, <2>5, <2>6 DEF Table!TypeOK
<1>4. Shape'
  <2> SUFFICES ASSUME NEW c \in Buckets PROVE BucketOK(c)'
    BY DEF Shape
  <2>1. CASE c = b
    <3>1. table'[c] = <<e>> /\ latest'[k] = v /\ e.id \in heap'
      BY <2>1, <1>1, <1>2 DEF TableInv, Table!TypeOK, Table!Insert
    <3> QED  BY <3>1, <2>1, <1>1 DEF BucketOK
  <2>2. CASE c # b
    <3>1. table'[c] = table[c]
      BY <2>2, <1>2 DEF TableInv, Table!TypeOK
    <3>2. CASE table[c] = << >>
      BY <3>1, <3>2 DEF BucketOK
    <3>3. CASE table[c] # << >>
      <4>1. PICK d \in Table!Entry : /\ table[c] = <<d>> /\ Index[d.key] = c
                               /\ latest[d.key] = d.val /\ d.id \in heap
        BY <3>3 DEF TableInv, Shape, BucketOK
      <4>2. d.key # k /\ d.key \in Keys
        BY <4>1, <2>2 DEF Table!Entry
      <4>3. latest'[d.key] = d.val /\ d.id \in heap'
        BY <4>1, <4>2 DEF Table!Insert, TableInv, Table!TypeOK
      <4> QED  BY <3>1, <4>1, <4>3 DEF BucketOK
    <3> QED  BY <3>2, <3>3
  <2> QED  BY <2>1, <2>2
<1>5. Unique'
  <2>1. \A c \in Buckets : table[c] # << >> => table[c][1].id \in 1 .. made
    <3> SUFFICES ASSUME NEW c \in Buckets, table[c] # << >>
                 PROVE  table[c][1].id \in 1 .. made
      OBVIOUS
    <3>1. PICK d \in Table!Entry : table[c] = <<d>> /\ d.id \in heap
      BY DEF TableInv, Shape, BucketOK
    <3>2. d.id \in 1 .. made
      BY <3>1 DEF TableInv, Table!TypeOK
    <3>3. table[c][1] = d
      BY <3>1
    <3> QED  BY <3>2, <3>3
  <2>2. \A c \in Buckets : c # b => table'[c] = table[c]
    BY <1>2 DEF TableInv, Table!TypeOK
  <2>3. table'[b][1].id = made + 1
    BY <1>1, <1>2 DEF TableInv, Table!TypeOK
  <2> QED  BY <2>1, <2>2, <2>3, <1>1 DEF Unique, TableInv
<1>6. Table!LostOnlyByCollision'
  <2> SUFFICES ASSUME NEW j \in Keys, latest'[j] # Null, Table!Find(j)' = Null
               PROVE  \E i \in overwrote'[j] : i # j /\ Index[i] = Index[j]
    BY DEF Table!LostOnlyByCollision
  <2>1. CASE Index[j] = b
    <3>1. Table!Bucket(j)' = <<e>>
      BY <2>1, <1>1, <1>2 DEF Table!Bucket, TableInv, Table!TypeOK
    <3>2. j # k
      <4> SUFFICES ASSUME j = k PROVE FALSE
        OBVIOUS
      <4>1. Table!Places(j)' = {1}
        BY <3>1 DEF Table!Places
      <4>2. Table!FirstPlace(j)' = 1
        BY <4>1 DEF Table!FirstPlace
      <4>3. Table!Find(j)' = v
        BY <3>1, <4>1, <4>2 DEF Table!Find
      <4> QED  BY <4>3
    <3>3. k \in overwrote'[j]
      BY <3>2 DEF Table!Insert, TableInv, Table!TypeOK
    <3> QED  BY <3>2, <3>3, <2>1
  <2>2. CASE Index[j] # b
    <3>1. Table!Bucket(j)' = Table!Bucket(j) /\ j # k
      BY <2>2, <1>1, <1>2 DEF Table!Bucket, TableInv, Table!TypeOK
    <3>2. Table!Find(j)' = Table!Find(j)
      BY <3>1 DEF Table!Find, Table!FirstPlace, Table!Places
    <3>3. latest'[j] = latest[j] /\ overwrote[j] \subseteq overwrote'[j]
      BY <3>1 DEF Table!Insert, TableInv, Table!TypeOK
    <3> QED  BY <3>2, <3>3 DEF TableInv, Table!LostOnlyByCollision
  <2> QED  BY <2>1, <2>2
<1> QED  BY <1>3, <1>4, <1>5, <1>6 DEF TableInv

LEMMA DeleteKeeps ==
  ASSUME Table!TableAssumption, TableInv, NEW k \in Keys, Table!Delete(k)
  PROVE  TableInv'
<1> DEFINE b == Index[k]
<1> USE DEF Table!TableAssumption
<1>1. PICK e \in Table!Entry :
        /\ Table!Bucket(k) = <<e>> /\ e.key = k /\ Table!FirstPlace(k) = 1
        /\ e.id \in heap /\ Table!Without(k) = << >>
  BY PresentIsHead DEF Table!Delete, TableInv
<1>2. b \in Buckets /\ table' = [table EXCEPT ![b] = << >>] /\ table[b] = <<e>>
  BY <1>1 DEF Table!Delete, Table!Bucket
<1>3. heap' \subseteq heap /\ heap \ {e.id} \subseteq heap'
  BY <1>1 DEF Table!Delete, Table!FreeEntry
<1>4. Table!TypeOK'
  <2>1. table' \in [Buckets -> Seq(Table!Entry)]
    <3>1. << >> \in Seq(Table!Entry)
      OBVIOUS
    <3> QED  BY <3>1, <1>2 DEF TableInv, Table!TypeOK
  <2>2. made' = made /\ heap' \subseteq 1 .. made'
    BY <1>3 DEF TableInv, Table!TypeOK, Table!Delete
  <2>3. latest' \in [Keys -> Values \cup {Null}]
    BY DEF TableInv, Table!TypeOK, Table!Delete
  <2>4. locked' \in BOOLEAN
    BY DEF TableInv, Table!TypeOK, Table!Delete, Table!FreeEntry
  <2> QED  BY <2>1, <2>2, <2>3, <2>4 DEF TableInv, Table!TypeOK, Table!Delete
<1>5. Shape'
  <2> SUFFICES ASSUME NEW c \in Buckets, table'[c] # << >> PROVE BucketOK(c)'
    BY DEF Shape, BucketOK
  <2>1. c # b /\ table'[c] = table[c]
    BY <1>2 DEF TableInv, Table!TypeOK
  <2>2. PICK d \in Table!Entry : /\ table[c] = <<d>> /\ Index[d.key] = c
                           /\ latest[d.key] = d.val /\ d.id \in heap
    BY <2>1 DEF TableInv, Shape, BucketOK
  <2>3. d.key # k
    BY <2>1, <2>2
  <2>4. latest'[d.key] = d.val
    BY <2>2, <2>3 DEF Table!Delete, TableInv, Table!TypeOK
  <2>5. d.id # e.id
    <3>1. table[c][1].id # table[b][1].id
      BY <2>1, <2>2, <1>2 DEF TableInv, Unique
    <3> QED  BY <3>1, <2>2, <1>2
  <2>6. d.id \in heap'
    BY <2>2, <2>5, <1>3
  <2> QED  BY <2>1, <2>2, <2>4, <2>6 DEF BucketOK
<1>6. Unique'
  BY <1>2 DEF TableInv, Table!TypeOK, Unique
<1>7. Table!LostOnlyByCollision'
  <2> SUFFICES ASSUME NEW j \in Keys, latest'[j] # Null, Table!Find(j)' = Null
               PROVE  \E i \in overwrote'[j] : i # j /\ Index[i] = Index[j]
    BY DEF Table!LostOnlyByCollision
  <2>1. j # k /\ latest'[j] = latest[j] /\ overwrote' = overwrote
    BY DEF Table!Delete, TableInv, Table!TypeOK
  <2>2. Table!Find(j) = Null
    <3>1. CASE Index[j] = b
      BY <3>1, <1>1, <2>1, FindOne DEF Table!Bucket
    <3>2. CASE Index[j] # b
      <4>1. Table!Bucket(j)' = Table!Bucket(j)
        BY <3>2, <1>2 DEF Table!Bucket, TableInv, Table!TypeOK
      <4> QED  BY <4>1 DEF Table!Find, Table!FirstPlace, Table!Places
    <3> QED  BY <3>1, <3>2
  <2> QED  BY <2>1, <2>2 DEF TableInv, Table!LostOnlyByCollision
<1> QED  BY <1>4, <1>5, <1>6, <1>7 DEF TableInv

LEMMA OtherKeeps ==
  ASSUME TableInv, Table!Destroy \/ UNCHANGED Table!vars
  PROVE  TableInv'
<1>1. UNCHANGED <<pooled, table, made, heap, locked, latest, overwrote>>
  BY DEF Table!Destroy, Table!vars
<1>2. phase' \in {"open", "destroyed", "aborted"}
  BY DEF TableInv, Table!TypeOK, Table!Destroy, Table!vars
<1>3. Table!TypeOK'
  BY <1>1, <1>2 DEF TableInv, Table!TypeOK
<1>4. Shape' /\ Unique'
  BY <1>1 DEF TableInv, Shape, BucketOK, Unique
<1>5. Table!LostOnlyByCollision'
  <2>1. \A k : Table!Find(k)' = Table!Find(k)
    BY <1>1 DEF Table!Find, Table!FirstPlace, Table!Places, Table!Bucket
  <2> QED
    BY <1>1, <2>1 DEF TableInv, Table!LostOnlyByCollision
<1> QED  BY <1>3, <1>4, <1>5 DEF TableInv

\* The inductive invariant: a bucket holds at most one entry, that entry was
\* inserted last for its key, and it is on the heap.
THEOREM TableInvariance ==
  ASSUME Table!TableAssumption
  PROVE  Table!Spec => []TableInv
<1>1. TableInv /\ [Table!Next]_(Table!vars) => TableInv'
  BY InsertKeeps, DeleteKeeps, OtherKeeps DEF Table!Next
<1> QED  BY <1>1, TableInvInit, PTL DEF Table!Spec

\* hash_find gives what hash_insert was given last for the key, or nothing.
THEOREM FindsLatest ==
  ASSUME Table!TableAssumption
  PROVE  Table!Spec => []Table!FoundIsLatest
<1>1. TableInv => Table!FoundIsLatest
  <2> SUFFICES ASSUME TableInv, NEW k \in Keys, Table!Places(k) # {} PROVE Table!Find(k) = latest[k]
    BY DEF Table!FoundIsLatest, Table!Find
  <2> QED  BY PresentIsHead DEF TableInv
<1> QED  BY <1>1, TableInvariance, PTL

\* A key goes missing only when one of the same bucket is inserted after it.
THEOREM LosesToCollisionsOnly ==
  ASSUME Table!TableAssumption
  PROVE  Table!Spec => []Table!LostOnlyByCollision
<1>1. TableInv => Table!LostOnlyByCollision
  BY DEF TableInv
<1> QED  BY <1>1, TableInvariance, PTL

\* Nothing that was given back can be reached from the table.
THEOREM ReachesNoFreed ==
  ASSUME Table!TableAssumption
  PROVE  Table!Spec => []Table!NoFreedEntry
<1>1. TableInv => Table!NoFreedEntry
  <2> SUFFICES ASSUME TableInv, NEW b \in Buckets, NEW i \in 1 .. Len(table[b])
               PROVE  table[b][i].id \in heap
    BY DEF Table!NoFreedEntry, Table!Reachable
  <2>1. table[b] # << >>
    OBVIOUS
  <2>2. PICK e \in Table!Entry : table[b] = <<e>> /\ e.id \in heap
    BY <2>1 DEF TableInv, Shape, BucketOK
  <2>3. table[b][i] = e
    BY <2>2
  <2> QED  BY <2>2, <2>3
<1> QED  BY <1>1, TableInvariance, PTL

-----------------------------------------------------------------------------
\* Between them the buckets say what every key is found as.
LEMMA OthersAsBefore ==
  ASSUME Table!TableAssumption, NEW k \in Keys, NEW s, table \in [Buckets -> Seq(Table!Entry)],
         table' = [table EXCEPT ![Index[k]] = s],
         NEW j \in Keys, Index[j] # Index[k]
  PROVE  Table!Find(j)' = Table!Find(j)
<1>1. Table!Bucket(j)' = Table!Bucket(j)
  BY DEF Table!TableAssumption, Table!Bucket
<1> QED  BY <1>1 DEF Table!Find, Table!FirstPlace, Table!Places

\* For every index function the table implements the map in which a key may
\* displace those of its bucket; if that has no collisions, an exact map.
THEOREM ImplementsMap ==
  ASSUME Table!TableAssumption
  PROVE  Table!Spec => Table!ImplementsKeyMap
<1> DEFINE found == [k \in Keys |-> Table!Find(k)]
<1>1. Table!Init => Table!KM!Init
  <2> SUFFICES ASSUME Table!Init PROVE \A k \in Keys : Table!Find(k) = Null
    BY DEF Table!KM!Init
  <2>1. \A k \in Keys : Table!Bucket(k) = << >>
    BY DEF Table!TableAssumption, Table!Init, Table!Bucket
  <2> QED  BY <2>1, FindEmpty
<1>2. ASSUME TableInv, TableInv', NEW k \in Keys, NEW v \in Values, Table!Insert(k, v)
      PROVE  Table!KM!Insert(k, v)
  <2> DEFINE e == [key |-> k, val |-> v, id |-> made + 1]
             lost == {j \in Table!Displaces[k] : Table!Find(j)' = Null}
  <2>1. table' = [table EXCEPT ![Index[k]] = <<e>>] /\ Index[k] \in Buckets
    BY <1>2, Table!TableAssumption DEF Table!TableAssumption, Table!Insert, Table!Chained
  <2>2. \A j \in Keys : Index[j] = Index[k] => Table!Bucket(j)' = <<e>>
    BY <2>1, <1>2 DEF Table!Bucket, TableInv, Table!TypeOK
  <2>3. \A j \in Keys : Index[j] = Index[k] => Table!Find(j)' = IF j = k THEN v ELSE Null
    <3> SUFFICES ASSUME NEW j \in Keys, Index[j] = Index[k]
                 PROVE  Table!Find(j)' = IF j = k THEN v ELSE Null
      OBVIOUS
    <3>1. Table!Bucket(j)' = <<e>>
      BY <2>2
    <3>2. CASE j = k
      <4>1. Table!Places(j)' = {1}
        BY <3>1, <3>2 DEF Table!Places
      <4>2. Table!FirstPlace(j)' = 1
        BY <4>1 DEF Table!FirstPlace
      <4> QED  BY <3>1, <3>2, <4>1, <4>2 DEF Table!Find
    <3>3. CASE j # k
      <4>1. Table!Places(j)' = {}
        BY <3>1, <3>3 DEF Table!Places
      <4> QED  BY <3>3, <4>1 DEF Table!Find
    <3> QED  BY <3>2, <3>3
  <2>4. \A j \in Keys : Index[j] # Index[k] => Table!Find(j)' = Table!Find(j)
    BY <2>1, <1>2, OthersAsBefore DEF TableInv, Table!TypeOK
  <2>5. found' = [j \in Keys |-> IF j = k THEN v ELSE IF j \in Table!Displaces[k] THEN Null ELSE found[j]]
    BY <2>3, <2>4 DEF Table!Displaces
  <2>6. Table!Displaces[k] \in SUBSET Table!Displaces[k]
    OBVIOUS
  <2> QED  BY <2>5, <2>6 DEF Table!KM!Insert
<1>3. ASSUME TableInv, NEW k \in Keys, Table!Delete(k)
      PROVE  Table!KM!Delete(k)
  <2>1. PICK e \in Table!Entry : /\ Table!Bucket(k) = <<e>> /\ e.key = k
                           /\ Table!Find(k) = e.val /\ Table!Without(k) = << >>
    BY <1>3, PresentIsHead DEF Table!Delete, TableInv
  <2>2. table' = [table EXCEPT ![Index[k]] = << >>] /\ Index[k] \in Buckets
    BY <2>1, <1>3, Table!TableAssumption DEF Table!TableAssumption, Table!Delete
  <2>3. \A j \in Keys : Index[j] = Index[k] => Table!Find(j)' = Null /\ (j # k => Table!Find(j) = Null)
    <3> SUFFICES ASSUME NEW j \in Keys, Index[j] = Index[k]
                 PROVE  Table!Find(j)' = Null /\ (j # k => Table!Find(j) = Null)
      OBVIOUS
    <3>1. Table!Bucket(j)' = << >>
      BY <2>2, <1>3 DEF Table!Bucket, TableInv, Table!TypeOK
    <3>2. Table!Find(j)' = Null
      BY <3>1 DEF Table!Find, Table!Places
    <3>3. Table!Bucket(j) = <<e>>
      BY <2>1 DEF Table!Bucket
    <3>4. j # k => Table!Find(j) = Null
      BY <3>3, <2>1, FindOne
    <3> QED  BY <3>2, <3>4
  <2>4. \A j \in Keys : Index[j] # Index[k] => Table!Find(j)' = Table!Find(j)
    BY <2>2, <1>3, OthersAsBefore DEF TableInv, Table!TypeOK
  <2>5. found' = [found EXCEPT ![k] = Null]
    BY <2>3, <2>4
  <2>6. found[k] # Null
    BY <2>1, Table!TableAssumption DEF Table!TableAssumption, Table!Entry
  <2> QED  BY <2>5, <2>6 DEF Table!KM!Delete
<1>4. ASSUME Table!Destroy \/ UNCHANGED Table!vars
      PROVE  UNCHANGED found
  <2>1. table' = table
    BY <1>4 DEF Table!Destroy, Table!vars
  <2>2. \A k \in Keys : Table!Find(k)' = Table!Find(k)
    BY <2>1 DEF Table!Find, Table!FirstPlace, Table!Places, Table!Bucket
  <2> QED  BY <2>2
<1>5. TableInv /\ TableInv' /\ [Table!Next]_(Table!vars) => [Table!KM!Next]_found
  BY <1>2, <1>3, <1>4 DEF Table!Next, Table!KM!Next
<1> QED  BY <1>1, <1>5, TableInvariance, PTL DEF Table!Spec, Table!ImplementsKeyMap, Table!KM!Spec

-----------------------------------------------------------------------------
(* Signs in a sequence.                                                     *)

Count(w, c, i) == Cardinality({j \in 1 .. i : w[j] = c})

\* The k-th c of w is at i, the beginning counts as the place before the first.
At(w, c, k, i) == i \in 0 .. Len(w) /\ Nth(w, c, k) = i /\ Count(w, c, i) = k

(* A set of numbers that is not empty has a least element.                  *)
LEMMA LeastOf ==
  ASSUME NEW S \in SUBSET Nat, S # {}
  PROVE  \E n \in S : \A k \in S : n <= k
<1>1. PICK n \in S : \A k \in S : <<k, n>> \notin OpToRel(<, Nat)
  BY WFMin, NatLessThanWellFounded
<1>2. \A k \in S : ~(k < n)
  BY <1>1, Zenon DEF OpToRel
<1> QED
  BY <1>2

(* Counting on from one place to another one.                               *)
LEMMA CountOn ==
  ASSUME NEW w, NEW c, NEW i \in Nat, NEW m \in Nat, i < m, w[m] = c,
         \A j \in i + 1 .. m - 1 : w[j] # c
  PROVE  Count(w, c, m) = Count(w, c, i) + 1
<1> DEFINE S == {j \in 1 .. i : w[j] = c}
<1>1. {j \in 1 .. m : w[j] = c} = S \cup {m}
  <2>1. \A j \in 1 .. m : j \in 1 .. i \/ j \in i + 1 .. m - 1 \/ j = m
    OBVIOUS
  <2>2. m \in 1 .. m /\ \A j \in 1 .. i : j \in 1 .. m
    OBVIOUS
  <2> QED
    BY <2>1, <2>2
<1>2. IsFiniteSet(S) /\ m \notin S
  <2>1. IsFiniteSet(1 .. i)
    BY FS_Interval
  <2>2. S \subseteq 1 .. i /\ m \notin 1 .. i
    OBVIOUS
  <2> QED
    BY <2>1, <2>2, FS_Subset
<1> HIDE DEF S
<1>3. Cardinality(S \cup {m}) = Cardinality(S) + 1
  BY <1>2, FS_AddElement
<1> QED
  BY <1>1, <1>3 DEF Count, S

(* Two places with one number are one place.                                *)
LEMMA NthIs ==
  ASSUME NEW w \in Strings, NEW c, NEW k \in Nat \ {0}, NEW i \in 1 .. Len(w), w[i] = c, Count(w, c, i) = k
  PROVE  Nth(w, c, k) = i
<1> DEFINE Is(j) == j \in DOMAIN w /\ w[j] = c /\ Count(w, c, j) = k
           n == CHOOSE j \in DOMAIN w : w[j] = c /\ Cardinality({x \in 1 .. j : w[x] = c}) = k
<1>1. DOMAIN w = 1 .. Len(w) /\ Len(w) \in Nat
  BY DEF Strings
<1>2. Nth(w, c, k) = n
  BY DEF Nth
<1>3. Is(i)
  BY <1>1
<1>4. Is(n)
  BY <1>3 DEF Count
<1> HIDE DEF n
<1>5. ASSUME NEW x \in 1 .. Len(w), NEW y \in 1 .. Len(w), Is(x), Is(y), x < y PROVE FALSE
  <2> DEFINE X == {j \in 1 .. x : w[j] = c}
             Y == {j \in 1 .. y : w[j] = c}
  <2>1. Cardinality(X) = k /\ Cardinality(Y) = k
    BY <1>5 DEF Count
  <2>2. X \subseteq Y /\ y \in Y /\ y \notin X
    BY <1>5
  <2>3. IsFiniteSet(Y)
    <3>1. IsFiniteSet(1 .. y)
      BY FS_Interval
    <3> QED
      BY <3>1, FS_Subset
  <2> HIDE DEF X, Y
  <2> QED
    BY <2>1, <2>2, <2>3, FS_Subset
<1>6. i \in 1 .. Len(w) /\ n \in 1 .. Len(w)
  BY <1>1, <1>4
<1>7. ~(i < n) /\ ~(n < i)
  BY <1>3, <1>4, <1>5, <1>6
<1> QED
  BY <1>1, <1>2, <1>6, <1>7

(* Before a sequence no sign was counted.                                   *)
LEMMA AtBegin == ASSUME NEW w \in Strings, NEW c PROVE At(w, c, 0, 0)
<1>1. {j \in 1 .. 0 : w[j] = c} = {} /\ Len(w) \in Nat
  BY DEF Strings
<1> QED
  BY <1>1, FS_EmptySet DEF At, Nth, Count

(* What lies between a place and the next c of a sequence has no c.         *)
LEMMA AtOn ==
  ASSUME NEW w \in Strings, NEW c, NEW k \in Nat, NEW i, At(w, c, k, i),
         NEW m \in Nat, i < m, m <= Len(w), w[m] = c, \A j \in i + 1 .. m - 1 : w[j] # c
  PROVE  At(w, c, k + 1, m)
<1>1. i \in Nat /\ Len(w) \in Nat
  BY DEF At, Strings
<1>2. Count(w, c, m) = k + 1
  BY <1>1, CountOn DEF At
<1>3. k + 1 \in Nat \ {0} /\ m \in 1 .. Len(w)
  BY <1>1
<1>4. Nth(w, c, k + 1) = m
  BY <1>2, <1>3, NthIs
<1> QED
  BY <1>1, <1>2, <1>4 DEF At

(* If there is a c behind a place, there is a next one.                     *)
LEMMA AtNext ==
  ASSUME NEW w \in Strings, NEW c, NEW k \in Nat, NEW i, At(w, c, k, i),
         NEW n \in Nat, i < n, n <= Len(w), w[n] = c
  PROVE  \E m \in i + 1 .. n : w[m] = c /\ (\A j \in i + 1 .. m - 1 : w[j] # c) /\ At(w, c, k + 1, m)
<1> DEFINE S == {j \in i + 1 .. n : w[j] = c}
<1>1. i \in Nat /\ Len(w) \in Nat
  BY DEF At, Strings
<1>2. S \in SUBSET Nat /\ n \in S
  BY <1>1
<1>3. PICK m \in S : \A j \in S : m <= j
  <2>1. S # {}
    BY <1>2
  <2> HIDE DEF S
  <2> QED
    BY <1>2, <2>1, LeastOf
<1>4. m \in i + 1 .. n /\ w[m] = c
  BY <1>3
<1>5. \A j \in i + 1 .. m - 1 : w[j] # c
  BY <1>1, <1>3, <1>4
<1>6. m \in Nat /\ i < m /\ m <= Len(w)
  BY <1>1, <1>4
<1>7. At(w, c, k + 1, m)
  BY <1>4, <1>5, <1>6, AtOn
<1> QED
  BY <1>4, <1>5, <1>7

(* A sequence of one sign.                                                  *)
LEMMA OneIs ==
  ASSUME NEW S, NEW c \in S
  PROVE  <<c>> \in Seq(S) /\ Len(<<c>>) = 1 /\ <<c>>[1] = c /\ 1 \in 1 .. 1
  OBVIOUS

\* w is s and t.
Joined(S, w, s, t, m, n) ==
  /\ s \in Seq(S) /\ t \in Seq(S) /\ m \in Nat /\ n \in Nat /\ Len(s) = m /\ Len(t) = n
  /\ w = s \o t

(* What is where in two sequences that are put together.                    *)
LEMMA JoinedIs ==
  ASSUME NEW S, NEW w, NEW s, NEW t, NEW m, NEW n, Joined(S, w, s, t, m, n)
  PROVE  /\ w \in Seq(S) /\ Len(w) = m + n
         /\ \A j \in 1 .. m : w[j] = s[j]
         /\ \A j \in 1 .. n : w[m + j] = t[j]
<1> SUFFICES ASSUME s \in Seq(S), t \in Seq(S)
             PROVE  /\ s \o t \in Seq(S) /\ Len(s \o t) = Len(s) + Len(t)
                    /\ \A j \in 1 .. Len(s) : (s \o t)[j] = s[j]
                    /\ \A j \in 1 .. Len(t) : (s \o t)[Len(s) + j] = t[j]
  BY DEF Joined
<1>1. \A j \in 1 .. Len(t) : Len(s) + j \in Len(s) + 1 .. Len(s) + Len(t) /\ Len(s) + j - Len(s) = j
  OBVIOUS
<1>2. s \o t \in Seq(S) /\ Len(s \o t) = Len(s) + Len(t) /\ \A j \in 1 .. Len(s) : (s \o t)[j] = s[j]
  OBVIOUS
<1>3. \A j \in Len(s) + 1 .. Len(s) + Len(t) : (s \o t)[j] = t[j - Len(s)]
  OBVIOUS
<1>4. ASSUME NEW j \in 1 .. Len(t) PROVE (s \o t)[Len(s) + j] = t[j]
  <2> DEFINE i == Len(s) + j
             v == s \o t
  <2>1. i \in Len(s) + 1 .. Len(s) + Len(t) /\ i - Len(s) = j
    BY <1>1
  <2> HIDE DEF i
  <2>2. v[i] = t[i - Len(s)]
    BY <1>3, <2>1
  <2>3. v[i] = t[j]
    BY <2>1, <2>2
  <2> QED
    BY <2>3 DEF i
<1> QED
  BY <1>2, <1>4

(* What a part of a sequence is.                                            *)
LEMMA SubSeqIs ==
  ASSUME NEW w \in Strings, NEW s \in Strings, NEW i \in Nat, i + Len(s) <= Len(w),
         \A j \in 1 .. Len(s) : w[i + j] = s[j]
  PROVE  SubSeq(w, i + 1, i + Len(s)) = s
<1> DEFINE t == SubSeq(w, i + 1, i + Len(s))
<1>1. Len(s) \in Nat /\ Len(w) \in Nat /\ s \in Seq(Signs) /\ w \in Seq(Signs)
  BY DEF Strings
<1>2. t \in Seq(Signs) /\ Len(t) = Len(s) /\ \A j \in 1 .. Len(s) : t[j] = w[i + j]
  <2> DEFINE a == i + 1
             b == i + Len(s)
  <2>1. a \in 1 .. Len(w) + 1 /\ b \in 0 .. Len(w) /\ b - a + 1 = Len(s) /\ a \in Nat /\ b \in Nat
    BY <1>1
  <2>2. \A j \in 1 .. Len(s) : j + a - 1 = i + j
    BY <1>1
  <2> HIDE DEF a, b
  <2>3. /\ SubSeq(w, a, b) \in Seq(Signs) /\ Len(SubSeq(w, a, b)) = b - a + 1
        /\ \A j \in 1 .. b - a + 1 : SubSeq(w, a, b)[j] = w[j + a - 1]
    BY <1>1, <2>1
  <2>4. t = SubSeq(w, a, b)
    BY DEF a, b
  <2> QED
    BY <2>1, <2>2, <2>3, <2>4
<1> HIDE DEF t
<1>3. t = s
  BY <1>1, <1>2
<1> QED
  BY <1>3 DEF t

\* s is between the k-th c of w, at i, and the next one, at m.
Between(w, c, k, i, n, m, s) ==
  /\ w \in Strings /\ k \in Nat /\ s \in Strings
  /\ n = k + 1 /\ m = i + Len(s) + 1
  /\ At(w, c, k, i) /\ At(w, c, n, m)
  /\ \A j \in 1 .. Len(s) : w[i + j] = s[j]

(* A field is what lies between two of the signs that end fields.           *)
LEMMA FieldIs ==
  ASSUME NEW w, NEW c, NEW k, NEW i, NEW n, NEW m, NEW s, Between(w, c, k, i, n, m, s)
  PROVE  Field(w, c, n) = s
<1> USE DEF Between
<1>1. Len(s) \in Nat /\ Len(w) \in Nat /\ i \in Nat /\ i + Len(s) + 1 <= Len(w)
  BY DEF Strings, At
<1>2. k + 1 - 1 = k /\ i + Len(s) + 1 - 1 = i + Len(s) /\ i + Len(s) <= Len(w)
  BY <1>1
<1>3. Field(w, c, n) = SubSeq(w, i + 1, i + Len(s))
  BY <1>2 DEF Field, At
<1> QED
  BY <1>1, <1>2, <1>3, SubSeqIs

\* s is what is behind the k-th c of w, at i.
AtEnd(w, c, k, i, s) ==
  /\ w \in Strings /\ k \in Nat /\ s \in Strings
  /\ At(w, c, k, i) /\ i + Len(s) = Len(w)
  /\ \A j \in 1 .. Len(s) : w[i + j] = s[j]

(* The data is all that is behind the last of them.                         *)
LEMMA BehindIs ==
  ASSUME NEW w, NEW c, NEW k, NEW i, NEW s, AtEnd(w, c, k, i, s)
  PROVE  Behind(w, c, k) = s
<1> USE DEF AtEnd
<1>1. Len(s) \in Nat /\ Len(w) \in Nat /\ i \in Nat
  BY DEF Strings, At
<1>2. Behind(w, c, k) = SubSeq(w, i + 1, i + Len(s))
  BY DEF Behind, At
<1> QED
  BY <1>1, <1>2, SubSeqIs

(* What is assumed of the numbers.                                          *)
LEMMA Rooms ==
  /\ NameRoom \in Nat \ {0} /\ TextRoom \in Nat /\ BodyRoom \in Nat /\ Prefix \in Nat /\ Block \in Nat \ {0}
  /\ Prefix + 8 * NameRoom + Block + 4 <= TextRoom /\ TextRoom + 5 * NameRoom + 6 <= BodyRoom
  BY RoomAssumption

(* A sequence that a sign ends, and what follows it.                        *)
LEMMA FirstIs ==
  ASSUME NEW s \in Strings, NEW t \in Strings, NEW c \in Signs, ~Contains(s, c)
  PROVE  LET w == s \o <<c>> \o t IN
         /\ w \in Strings /\ Contains(w, c)
         /\ Field(w, c, 1) = s /\ Behind(w, c, 1) = t
<1> DEFINE w == s \o <<c>> \o t
<1>1. Len(s) \in Nat /\ Len(t) \in Nat /\ s \in Seq(Signs) /\ t \in Seq(Signs)
  BY DEF Strings
<1>2. /\ w \in Seq(Signs) /\ Len(w) = Len(s) + 1 + Len(t)
      /\ w[Len(s) + 1] = c
      /\ \A j \in 1 .. Len(s) : w[j] = s[j]
      /\ \A j \in 1 .. Len(t) : w[Len(s) + 1 + j] = t[j]
  <2> DEFINE v == s \o <<c>>
             m == Len(s) + 1
  <2>0. m \in Nat /\ 1 \in Nat /\ 1 \in 1 .. 1 /\ Len(s) \in Nat /\ Len(t) \in Nat
    BY <1>1
  <2>9. <<c>> \in Seq(Signs) /\ Len(<<c>>) = 1 /\ <<c>>[1] = c
    BY OneIs
  <2>1. /\ v \in Seq(Signs) /\ Len(v) = m /\ (\A j \in 1 .. Len(s) : v[j] = s[j])
        /\ \A j \in 1 .. 1 : v[Len(s) + j] = <<c>>[j]
    <3>1. Joined(Signs, v, s, <<c>>, Len(s), 1)
      BY <1>1, <2>0, <2>9 DEF Joined
    <3> HIDE DEF v
    <3> QED
      BY <3>1, JoinedIs DEF m
  <2>3. w = v \o t
    OBVIOUS
  <2> HIDE DEF v, m
  <2>2. /\ w \in Seq(Signs) /\ Len(w) = m + Len(t)
        /\ \A j \in 1 .. m : w[j] = v[j]
        /\ \A j \in 1 .. Len(t) : w[m + j] = t[j]
    <3>1. Joined(Signs, w, v, t, m, Len(t))
      BY <1>1, <2>0, <2>1, <2>3 DEF Joined
    <3> HIDE DEF w
    <3> QED
      BY <3>1, JoinedIs
  <2>6. v[m] = c
    BY <2>0, <2>1, <2>9 DEF m
  <2>4. \A j \in 1 .. Len(s) : j \in 1 .. Len(s) + 1
    BY <1>1
  <2>5. Len(s) + 1 \in 1 .. Len(s) + 1
    BY <1>1
  <2> HIDE DEF w
  <2> QED
    BY <2>1, <2>2, <2>3, <2>4, <2>5, <2>6 DEF m
<1> HIDE DEF w
<1>3. w \in Strings
  BY <1>2 DEF Strings
<1>4. Len(s) + 1 \in Nat /\ 0 < Len(s) + 1 /\ Len(s) + 1 <= Len(w) 
  BY <1>1, <1>2
<1>5. \A j \in 1 .. Len(s) : w[j] # c
  BY <1>2 DEF Contains
<1>6. At(w, c, 0, 0) /\ At(w, c, 0 + 1, Len(s) + 1)
  <2>1. At(w, c, 0, 0)
    BY <1>3, AtBegin
  <2> DEFINE m == Len(s) + 1
  <2>2. m \in Nat /\ 0 < m /\ m <= Len(w)
    BY <1>4
  <2>4. w[m] = c
    BY <1>2
  <2>5. m - 1 = Len(s)
    BY <1>1
  <2> HIDE DEF m
  <2>6. \A j \in 0 + 1 .. m - 1 : w[j] # c
    <3>1. \A j \in 0 + 1 .. m - 1 : j \in 1 .. Len(s)
      BY <1>1, <2>2, <2>5
    <3> QED
      BY <1>5, <3>1
  <2>3. At(w, c, 0 + 1, m)
    BY <1>3, <2>1, <2>2, <2>4, <2>6, AtOn
  <2> QED
    BY <2>1, <2>3 DEF m
<1>7. Field(w, c, 0 + 1) = s
  <2>1. 0 + Len(s) + 1 = Len(s) + 1 /\ \A j \in 1 .. Len(s) : w[0 + j] = s[j]
    BY <1>1, <1>2
  <2>2. Between(w, c, 0, 0, 0 + 1, Len(s) + 1, s)
    BY <1>3, <1>6, <2>1 DEF Between
  <2> QED
    BY <2>2, FieldIs
<1>8. Behind(w, c, 0 + 1) = t
  <2> DEFINE k == 0 + 1
             i == Len(s) + 1
  <2>1. k \in Nat /\ At(w, c, k, i) /\ i + Len(t) = Len(w) /\ \A j \in 1 .. Len(t) : w[i + j] = t[j]
    <3>1. At(w, c, k, i)
      BY <1>6
    <3>2. \A j \in 1 .. Len(t) : w[i + j] = t[j]
      BY <1>2
    <3>3. k \in Nat /\ i + Len(t) = Len(w)
      BY <1>1, <1>2
    <3> QED
      BY <3>1, <3>2, <3>3
  <2> HIDE DEF k, i
  <2>2. AtEnd(w, c, k, i, t)
    BY <1>3, <2>1 DEF AtEnd, Strings
  <2>3. Behind(w, c, k) = t
    BY <2>2, BehindIs
  <2> QED
    BY <2>3 DEF k
<1>9. Contains(w, c)
  <2>1. Len(s) + 1 \in 1 .. Len(w)
    BY <1>1, <1>2
  <2> QED
    BY <1>2, <2>1 DEF Contains
<1>10. 0 + 1 = 1
  OBVIOUS
<1> QED
  BY <1>3, <1>7, <1>8, <1>9, <1>10 DEF w
(* The beginning of a sequence.                                             *)
LEMMA CutIs ==
  ASSUME NEW S, NEW s \in Seq(S), NEW n \in Nat
  PROVE  /\ CutTo(s, n) \in Seq(S)
         /\ Len(CutTo(s, n)) = IF Len(s) < n THEN Len(s) ELSE n
         /\ \A j \in 1 .. Len(CutTo(s, n)) : j \in 1 .. Len(s) /\ CutTo(s, n)[j] = s[j]
         /\ Len(s) <= n => CutTo(s, n) = s
<1> DEFINE m == IF Len(s) < n THEN Len(s) ELSE n
           t == SubSeq(s, 1, m)
<1>1. m \in 0 .. Len(s) /\ (Len(s) <= n => m = Len(s)) /\ Len(s) \in Nat
  OBVIOUS
<1>2. CutTo(s, n) = t
  BY DEF CutTo
<1>3. t \in Seq(S) /\ Len(t) = m /\ \A j \in 1 .. m : t[j] = s[j]
  <2> HIDE DEF m
  <2> QED
    BY <1>1
<1>4. m = Len(s) => t = s
  <2> HIDE DEF m
  <2>1. ASSUME m = Len(s) PROVE t = s
    <3>1. t \in Seq(S) /\ Len(t) = Len(s) /\ \A j \in 1 .. Len(s) : t[j] = s[j]
      BY <1>3, <2>1
    <3> HIDE DEF t
    <3> QED
      BY <3>1
  <2> QED
    BY <2>1
<1>5. \A j \in 1 .. m : j \in 1 .. Len(s)
  BY <1>1
<1>6. Len(t) = IF Len(s) < n THEN Len(s) ELSE n
  BY <1>3
<1> HIDE DEF m, t
<1> QED
  BY <1>1, <1>2, <1>3, <1>4, <1>5, <1>6

(* What is put behind a sequence is cut, if the sequence has room.          *)
LEMMA JoinedCut ==
  ASSUME NEW S, NEW x \in Seq(S), NEW y \in Seq(S), NEW n \in Nat, Len(x) <= n
  PROVE  CutTo(x \o y, n) = x \o CutTo(y, n - Len(x))
<1> DEFINE m == Len(x)
           w == x \o y
           a == CutTo(w, n)
           t == CutTo(y, n - m)
           b == x \o t
           k == Len(t)
           l == Len(y)
<1>1. m \in Nat /\ n - m \in Nat /\ l \in Nat /\ m <= n /\ Len(x) = m /\ Len(y) = l
  OBVIOUS
<1>2. t \in Seq(S) /\ k = (IF l < n - m THEN l ELSE n - m) /\ k \in Nat /\ \A j \in 1 .. k : j \in 1 .. l /\ t[j] = y[j]
  BY <1>1, CutIs
<1> HIDE DEF m, t, k, l
<1>3. w \in Seq(S) /\ Len(w) = m + l /\ (\A j \in 1 .. m : w[j] = x[j]) /\ \A j \in 1 .. l : w[m + j] = y[j]
  <2>1. Joined(S, w, x, y, m, l)
    BY <1>1 DEF Joined
  <2> HIDE DEF w
  <2> QED
    BY <2>1, JoinedIs
<1>4. b \in Seq(S) /\ Len(b) = m + k /\ (\A j \in 1 .. m : b[j] = x[j]) /\ \A j \in 1 .. k : b[m + j] = t[j]
  <2>1. Joined(S, b, x, t, m, k)
    BY <1>1, <1>2 DEF Joined, k
  <2> HIDE DEF b
  <2> QED
    BY <2>1, JoinedIs
<1> HIDE DEF w, b
<1>5. a \in Seq(S) /\ Len(a) = (IF Len(w) < n THEN Len(w) ELSE n) /\ \A j \in 1 .. Len(a) : a[j] = w[j]
  BY <1>3, CutIs
<1> HIDE DEF a
<1>6. Len(a) = m + k
  BY <1>1, <1>2, <1>3, <1>5
<1>7. ASSUME NEW j \in 1 .. m + k PROVE a[j] = b[j]
  <2>1. CASE j \in 1 .. m
    BY <1>3, <1>4, <1>5, <1>6, <2>1
  <2>2. CASE j \notin 1 .. m
    <3>1. PICK i \in 1 .. k : j = m + i
      <4>1. j - m \in 1 .. k /\ j = m + (j - m)
        BY <1>1, <1>2, <2>2
      <4> QED
        BY <4>1
    <3>2. i \in 1 .. l
      BY <1>2
    <3>3. w[m + i] = y[i] /\ b[m + i] = t[i] /\ t[i] = y[i]
      BY <1>2, <1>3, <1>4, <3>2
    <3> QED
      BY <1>5, <1>6, <3>1, <3>3
  <2> QED
    BY <2>1, <2>2
<1>8. a = b
  BY <1>4, <1>5, <1>6, <1>7
<1> QED
  BY <1>8 DEF a, b, w, t, m

(* What a name with a field behind it reads as.                             *)
LEMMA HeldIs ==
  ASSUME NEW h, NEW s \in Strings, NEW t \in Strings
  PROVE  /\ Held(h, s, t) \in Strings
         /\ Held(h, s, t) = s \/ Len(Held(h, s, t)) = NameRoom + Len(t)
         /\ \A c : Contains(Held(h, s, t), c) => Contains(s, c) \/ Contains(t, c)
<1> DEFINE b == CutTo(s, NameRoom)
           w == b \o t
           m == Len(b)
           n == Len(t)
<1>1. s \in Seq(Signs) /\ t \in Seq(Signs) /\ Len(s) \in Nat /\ NameRoom \in Nat /\ n \in Nat
  BY Rooms DEF Strings
<1>2. CASE h \in Legacy \/ Len(s) < NameRoom
  BY <1>2 DEF Held
<1>3. CASE ~(h \in Legacy \/ Len(s) < NameRoom)
  <2>1. b \in Seq(Signs) /\ m = NameRoom /\ m \in Nat /\ \A j \in 1 .. m : j \in 1 .. Len(s) /\ b[j] = s[j]
    BY <1>1, <1>3, CutIs
  <2> HIDE DEF b, m
  <2>2. w \in Seq(Signs) /\ Len(w) = m + n /\ (\A j \in 1 .. m : w[j] = b[j]) /\ \A j \in 1 .. n : w[m + j] = t[j]
    <3>1. Joined(Signs, w, b, t, m, n)
      BY <1>1, <2>1 DEF Joined, m
    <3> HIDE DEF w, n
    <3> QED
      BY <3>1, JoinedIs
  <2> HIDE DEF w
  <2>3. ASSUME NEW c, NEW j \in 1 .. m + n, w[j] = c PROVE Contains(s, c) \/ Contains(t, c)
    <3>1. CASE j \in 1 .. m
      BY <2>1, <2>2, <2>3, <3>1 DEF Contains
    <3>2. CASE j \notin 1 .. m
      <4>1. PICK i \in 1 .. n : j = m + i
        <5>1. j - m \in 1 .. n /\ j = m + (j - m)
          BY <1>1, <2>1, <3>2
        <5> QED
          BY <5>1
      <4>2. t[i] = c
        BY <2>2, <2>3, <4>1
      <4> QED
        BY <4>2 DEF Contains
    <3> QED
      BY <3>1, <3>2
  <2>4. Held(h, s, t) = w
    BY <1>3 DEF Held, w, b
  <2>5. w \in Strings /\ Len(w) = NameRoom + n
    BY <2>1, <2>2 DEF Strings
  <2>6. \A c : Contains(w, c) => Contains(s, c) \/ Contains(t, c)
    BY <2>2, <2>3 DEF Contains
  <2> QED
    BY <2>4, <2>5, <2>6
<1> QED
  BY <1>2, <1>3

\* A string in a buffer of zeros, of which n are sent.
Zeroed(c, n) == [i \in 1 .. n |-> IF i <= Len(c) THEN c[i] ELSE "NUL"]

(* A buffer of zeros is read up to the first of them, or to its end.        *)
LEMMA ZeroedIs ==
  ASSUME NEW c \in Strings, ~Contains(c, "NUL"), NEW n \in Nat
  PROVE  Zeroed(c, n) \in Strings /\ Len(Zeroed(c, n)) = n /\ CString(Zeroed(c, n)) = CutTo(c, n)
<1> DEFINE w == Zeroed(c, n)
           l == Len(c)
<1>1. c \in Seq(Signs) /\ l \in Nat /\ "NUL" \in Signs /\ \A j \in 1 .. l : c[j] # "NUL" /\ c[j] \in Signs
  BY SignAssumption DEF Strings, Contains
<1>2. w \in [1 .. n -> Signs] /\ \A j \in 1 .. n : w[j] = IF j <= l THEN c[j] ELSE "NUL"
  BY <1>1 DEF Zeroed
<1> HIDE DEF w
<1>3. w \in Seq(Signs) /\ Len(w) = n
  BY <1>2
<1>4. w \in Strings
  BY <1>3 DEF Strings
<1>5. CASE n <= l
  <2> DEFINE t == CutTo(c, n)
  <2>1. t \in Seq(Signs) /\ Len(t) = n /\ \A j \in 1 .. n : t[j] = c[j]
    BY <1>1, <1>5, CutIs
  <2> HIDE DEF t
  <2>2. ASSUME NEW j \in 1 .. n PROVE j <= l /\ j \in 1 .. l /\ w[j] = c[j]
    BY <1>1, <1>2, <1>5
  <2>3. w = t
    BY <1>3, <2>1, <2>2
  <2>4. ~Contains(w, "NUL")
    BY <1>1, <1>3, <2>2 DEF Contains
  <2>5. CString(w) = w
    BY <2>4 DEF CString
  <2> QED
    BY <1>3, <1>4, <2>3, <2>5 DEF t, w
<1>6. CASE l < n
  <2> DEFINE m == l + 1
  <2>1. m \in Nat /\ 0 < m /\ m <= Len(w) /\ m \in 1 .. n /\ m - 1 = l /\ ~(m <= l)
    BY <1>1, <1>3, <1>6
  <2> HIDE DEF m
  <2>2. w[m] = "NUL"
    BY <1>2, <2>1
  <2>3. \A j \in 1 .. l : w[j] = c[j] /\ w[j] # "NUL"
    <3>1. \A j \in 1 .. l : j \in 1 .. n /\ j <= l
      BY <1>1, <1>6
    <3> QED
      BY <1>1, <1>2, <3>1
  <2>4. At(w, "NUL", 0, 0)
    BY <1>4, AtBegin
  <2>5. At(w, "NUL", 0 + 1, m)
    <3>1. \A j \in 0 + 1 .. m - 1 : w[j] # "NUL"
      BY <2>1, <2>3
    <3> QED
      BY <1>4, <2>1, <2>2, <2>4, <3>1, AtOn
  <2>6. Between(w, "NUL", 0, 0, 0 + 1, m, c)
    <3>1. m = 0 + l + 1 /\ \A j \in 1 .. l : w[0 + j] = c[j]
      BY <1>1, <2>1, <2>3
    <3> QED
      BY <1>4, <2>4, <2>5, <3>1 DEF Between
  <2>7. Field(w, "NUL", 0 + 1) = c
    BY <2>6, FieldIs
  <2>8. Contains(w, "NUL") /\ 0 + 1 = 1
    BY <1>3, <2>1, <2>2 DEF Contains
  <2>9. CutTo(c, n) = c
    BY <1>1, <1>6, CutIs
  <2> QED
    BY <1>3, <1>4, <2>7, <2>8, <2>9 DEF CString, w
<1> QED
  BY <1>1, <1>5, <1>6

-----------------------------------------------------------------------------
(* The fields of a datagram.                                                *)

Line(packet, colon, u, v, kind, data) ==
  <<packet, colon>> \o u \o <<colon>> \o v \o <<colon, kind, colon>> \o data

IsLine(S, w, packet, colon, u, v, kind, data) ==
  /\ w \in Seq(S) /\ Len(w) = 6 + Len(u) + Len(v) + Len(data)
  /\ w[1] = packet /\ w[2] = colon
  /\ \A j \in 1 .. Len(u) : w[2 + j] = u[j]
  /\ w[3 + Len(u)] = colon
  /\ \A j \in 1 .. Len(v) : w[3 + Len(u) + j] = v[j]
  /\ w[4 + Len(u) + Len(v)] = colon
  /\ w[5 + Len(u) + Len(v)] = kind
  /\ w[6 + Len(u) + Len(v)] = colon
  /\ \A j \in 1 .. Len(data) : w[6 + Len(u) + Len(v) + j] = data[j]

Body(u, v, kind, data) == Line("packet", ":", u, v, kind, data)

(* A sequence of two signs.                                                 *)
LEMMA TwoIs ==
  ASSUME NEW S, NEW a \in S, NEW b \in S
  PROVE  <<a, b>> \in Seq(S) /\ Len(<<a, b>>) = 2 /\ <<a, b>>[1] = a /\ <<a, b>>[2] = b
  OBVIOUS

(* A sequence of three signs.                                               *)
LEMMA ThreeIs ==
  ASSUME NEW S, NEW a \in S, NEW b \in S, NEW c \in S
  PROVE  /\ <<a, b, c>> \in Seq(S) /\ Len(<<a, b, c>>) = 3
         /\ <<a, b, c>>[1] = a /\ <<a, b, c>>[2] = b /\ <<a, b, c>>[3] = c
  OBVIOUS

(* Where the parts of a line are.                                           *)
LEMMA LineIs ==
  ASSUME NEW S, NEW u \in Seq(S), NEW v \in Seq(S), NEW data \in Seq(S),
         NEW packet \in S, NEW colon \in S, NEW kind \in S
  PROVE  IsLine(S, Line(packet, colon, u, v, kind, data), packet, colon, u, v, kind, data)
<1> DEFINE h == <<packet, colon>>
           one == <<colon>>
           three == <<colon, kind, colon>>
           a == h \o u
           b == a \o one
           c == b \o v
           d == c \o three
           w == d \o data
           lu == Len(u)
           lv == Len(v)
           ld == Len(data)
<1>1. lu \in Nat /\ lv \in Nat /\ ld \in Nat
  OBVIOUS
<1>2. one \in Seq(S) /\ Len(one) = 1 /\ one[1] = colon
  OBVIOUS
<1>3. /\ h \in Seq(S) /\ Len(h) = 2 /\ h[1] = packet /\ h[2] = colon
      /\ three \in Seq(S) /\ Len(three) = 3 /\ three[1] = colon /\ three[2] = kind /\ three[3] = colon
  BY TwoIs, ThreeIs
<1> HIDE DEF h, one, three
<1>5. a \in Seq(S) /\ Len(a) = 2 + lu /\ (\A j \in 1 .. 2 : a[j] = h[j]) /\ (\A j \in 1 .. lu : a[2 + j] = u[j])
  <2>1. 2 \in Nat /\ Len(u) = lu
    OBVIOUS
  <2> HIDE DEF lu
  <2> QED
    <3>1. Joined(S, a, h, u, 2, lu)
      BY <1>1, <1>3, <2>1 DEF Joined
    <3> HIDE DEF a
    <3> QED
      BY <3>1, JoinedIs
<1>6. b \in Seq(S) /\ Len(b) = 3 + lu /\ (\A j \in 1 .. 2 + lu : b[j] = a[j]) /\ b[3 + lu] = colon
  <2> DEFINE m == 2 + lu
  <2>1. m \in Nat /\ 1 \in Nat /\ m + 1 = 3 + lu /\ 1 \in 1 .. 1 /\ Len(a) = m
    BY <1>1, <1>5
  <2> HIDE DEF a, m, lu
  <2>2. b \in Seq(S) /\ Len(b) = m + 1 /\ (\A j \in 1 .. m : b[j] = a[j]) /\ (\A j \in 1 .. 1 : b[m + j] = one[j])
    <3>1. Joined(S, b, a, one, m, 1)
      BY <1>2, <1>5, <2>1 DEF Joined
    <3> HIDE DEF b
    <3> QED
      BY <3>1, JoinedIs
  <2> HIDE DEF b
  <2>3. b[m + 1] = one[1]
    BY <2>1, <2>2
  <2> QED
    BY <1>2, <2>1, <2>2, <2>3 DEF m
<1> HIDE DEF a
<1>7. /\ c \in Seq(S) /\ Len(c) = 3 + lu + lv
      /\ (\A j \in 1 .. 3 + lu : c[j] = b[j]) /\ (\A j \in 1 .. lv : c[3 + lu + j] = v[j])
  <2> DEFINE m == 3 + lu
  <2>1. m \in Nat /\ Len(b) = m /\ Len(v) = lv
    BY <1>1, <1>6
  <2> HIDE DEF b, m, lu, lv
  <2>2. c \in Seq(S) /\ Len(c) = m + lv /\ (\A j \in 1 .. m : c[j] = b[j]) /\ (\A j \in 1 .. lv : c[m + j] = v[j])
    <3>1. Joined(S, c, b, v, m, lv)
      BY <1>1, <1>6, <2>1 DEF Joined
    <3> HIDE DEF c
    <3> QED
      BY <3>1, JoinedIs
  <2> QED
    BY <2>2 DEF m
<1> HIDE DEF b
<1>8. /\ d \in Seq(S) /\ Len(d) = 6 + lu + lv /\ (\A j \in 1 .. 3 + lu + lv : d[j] = c[j])
      /\ d[4 + lu + lv] = colon /\ d[5 + lu + lv] = kind /\ d[6 + lu + lv] = colon
  <2> DEFINE m == 3 + lu + lv
  <2>1. /\ m \in Nat /\ 3 \in Nat /\ 1 \in 1 .. 3 /\ 2 \in 1 .. 3 /\ 3 \in 1 .. 3 /\ Len(c) = m
        /\ m + 1 = 4 + lu + lv /\ m + 2 = 5 + lu + lv /\ m + 3 = 6 + lu + lv
    BY <1>1, <1>7
  <2> HIDE DEF c, m, lu, lv
  <2>2. d \in Seq(S) /\ Len(d) = m + 3 /\ (\A j \in 1 .. m : d[j] = c[j]) /\ (\A j \in 1 .. 3 : d[m + j] = three[j])
    <3>1. Joined(S, d, c, three, m, 3)
      BY <1>3, <1>7, <2>1 DEF Joined
    <3> HIDE DEF d
    <3> QED
      BY <3>1, JoinedIs
  <2> HIDE DEF d
  <2>3. d[m + 1] = three[1] /\ d[m + 2] = three[2] /\ d[m + 3] = three[3]
    BY <2>1, <2>2
  <2> QED
    BY <1>3, <2>1, <2>2, <2>3 DEF m
<1> HIDE DEF c
<1>9. /\ w \in Seq(S) /\ Len(w) = 6 + lu + lv + ld
      /\ (\A j \in 1 .. 6 + lu + lv : w[j] = d[j])
      /\ (\A j \in 1 .. ld : w[6 + lu + lv + j] = data[j])
  <2> DEFINE m == 6 + lu + lv
  <2>1. m \in Nat /\ Len(d) = m /\ Len(data) = ld
    BY <1>1, <1>8
  <2> HIDE DEF d, m, lu, lv, ld
  <2>2. w \in Seq(S) /\ Len(w) = m + ld /\ (\A j \in 1 .. m : w[j] = d[j]) /\ (\A j \in 1 .. ld : w[m + j] = data[j])
    <3>1. Joined(S, w, d, data, m, ld)
      BY <1>1, <1>8, <2>1 DEF Joined
    <3> HIDE DEF w
    <3> QED
      BY <3>1, JoinedIs
  <2> QED
    BY <2>2 DEF m
<1> HIDE DEF d, lu, lv, ld, w
<1>10. w[1] = packet /\ w[2] = colon /\ \A j \in 1 .. lu : w[2 + j] = u[j]
  <2>1. ASSUME NEW j \in 1 .. 2 + lu PROVE w[j] = a[j]
    BY <1>1, <1>6, <1>7, <1>8, <1>9
  <2>2. 1 \in 1 .. 2 + lu /\ 2 \in 1 .. 2 + lu /\ \A j \in 1 .. lu : 2 + j \in 1 .. 2 + lu
    BY <1>1
  <2> QED
    BY <1>3, <1>5, <2>1, <2>2
<1>11. w[3 + lu] = colon /\ \A j \in 1 .. lv : w[3 + lu + j] = v[j]
  <2>1. ASSUME NEW j \in 1 .. 3 + lu + lv PROVE w[j] = c[j]
    <3>1. j \in 1 .. 6 + lu + lv
      BY <1>1
    <3> QED
      BY <1>8, <1>9, <3>1
  <2>2. 3 + lu \in 1 .. 3 + lu + lv /\ 3 + lu \in 1 .. 3 + lu /\ \A j \in 1 .. lv : 3 + lu + j \in 1 .. 3 + lu + lv
    BY <1>1
  <2> QED
    BY <1>6, <1>7, <2>1, <2>2
<1>12. w[4 + lu + lv] = colon /\ w[5 + lu + lv] = kind /\ w[6 + lu + lv] = colon
  BY <1>1, <1>8, <1>9
<1> QED
  BY <1>9, <1>10, <1>11, <1>12 DEF h, one, three, a, b, c, d, w, lu, lv, ld, Line, IsLine

(* The body that Signed makes is such a line.                               *)
LEMMA BodyIs ==
  ASSUME NEW u \in Strings, NEW v \in Strings, NEW kind \in DOMAIN CommandOf, NEW data \in Strings
  PROVE  IsLine(Signs, Body(u, v, kind, data), "packet", ":", u, v, kind, data)
<1>1. "packet" \in Signs /\ ":" \in Signs /\ kind \in Signs
  BY SignAssumption
<1>2. u \in Seq(Signs) /\ v \in Seq(Signs) /\ data \in Seq(Signs)
  BY DEF Strings
<1> QED
  BY <1>1, <1>2, LineIs DEF Body

\* What NameAssumption says of the names u and v.
Readable(u, v) ==
  \/ ~Contains(u, ":") /\ ~Contains(v, ":")
  \/ \A token \in DOMAIN CommandOf : ~Contains(u, token) /\ ~Contains(v, token)

IsBody(w, u, v, kind, data) ==
  /\ u \in Strings /\ v \in Strings /\ kind \in DOMAIN CommandOf /\ data \in Strings
  /\ w = Body(u, v, kind, data)

(* Without a ':' in the names the fields are found again.                   *)
LEMMA PlainIs ==
  ASSUME NEW w, NEW u, NEW v, NEW kind, NEW data, IsBody(w, u, v, kind, data),
         ~Contains(u, ":"), ~Contains(v, ":")
  PROVE  /\ Field(w, ":", 2) = u /\ Field(w, ":", 3) = v
         /\ Field(w, ":", 4) = <<kind>> /\ Behind(w, ":", 4) = data
<1> DEFINE lu == Len(u)
           lv == Len(v)
           p1 == 2
           p2 == 3 + lu
           p3 == 4 + lu + lv
           p4 == 6 + lu + lv
<1>1. /\ u \in Strings /\ v \in Strings /\ kind \in Signs /\ data \in Strings /\ kind # ":" /\ "packet" # ":"
      /\ IsLine(Signs, w, "packet", ":", u, v, kind, data)
  BY BodyIs, SignAssumption DEF IsBody, CommandOf
<1>2. lu \in Nat /\ lv \in Nat /\ Len(data) \in Nat /\ w \in Strings /\ Len(w) = p4 + Len(data)
  BY <1>1 DEF Strings, IsLine
<1>3. /\ w[1] = "packet" /\ w[p1] = ":" /\ w[p2] = ":" /\ w[p3] = ":" /\ w[p3 + 1] = kind /\ w[p4] = ":"
      /\ \A j \in 1 .. lu : w[p1 + j] = u[j]
      /\ \A j \in 1 .. lv : w[p2 + j] = v[j]
      /\ \A j \in 1 .. Len(data) : w[p4 + j] = data[j]
  <2>1. p3 + 1 = 5 + lu + lv
    BY <1>2
  <2> QED
    BY <1>1, <2>1 DEF IsLine
<1>4. (\A j \in 1 .. lu : u[j] # ":") /\ \A j \in 1 .. lv : v[j] # ":"
  BY DEF Contains
<1>5. /\ p1 = 2 /\ p2 = p1 + lu + 1 /\ p3 = p2 + lv + 1 /\ p4 = p3 + 1 + 1
      /\ p1 \in Nat /\ p2 \in Nat /\ p3 \in Nat /\ p4 \in Nat /\ p4 <= Len(w) /\ Len(w) \in Nat
  BY <1>2
<1> HIDE DEF p1, p2, p3, p4
<1>6. At(w, ":", 0, 0)
  BY <1>2, AtBegin
<1>7. At(w, ":", 1, p1)
  <2>1. 0 + 1 = 1 /\ 0 \in Nat /\ 0 < p1 /\ p1 <= Len(w) /\ \A j \in 0 + 1 .. p1 - 1 : j = 1
    BY <1>2, <1>5
  <2>2. At(w, ":", 0 + 1, p1)
    BY <1>1, <1>2, <1>3, <1>5, <1>6, <2>1, AtOn
  <2> QED
    BY <2>1, <2>2
<1>8. At(w, ":", 2, p2)
  <2>1. 1 + 1 = 2 /\ 1 \in Nat /\ p1 < p2 /\ p2 <= Len(w)
    BY <1>2, <1>5
  <2>2. \A j \in p1 + 1 .. p2 - 1 : w[j] # ":"
    <3>1. \A j \in p1 + 1 .. p2 - 1 : j - p1 \in 1 .. lu /\ p1 + (j - p1) = j
      BY <1>2, <1>5
    <3> QED
      BY <1>3, <1>4, <3>1
  <2>3. At(w, ":", 1 + 1, p2)
    BY <1>2, <1>3, <1>5, <1>7, <2>1, <2>2, AtOn
  <2> QED
    BY <2>1, <2>3
<1>9. At(w, ":", 3, p3)
  <2>1. 2 + 1 = 3 /\ 2 \in Nat /\ p2 < p3 /\ p3 <= Len(w)
    BY <1>2, <1>5
  <2>2. \A j \in p2 + 1 .. p3 - 1 : w[j] # ":"
    <3>1. \A j \in p2 + 1 .. p3 - 1 : j - p2 \in 1 .. lv /\ p2 + (j - p2) = j
      BY <1>2, <1>5
    <3> QED
      BY <1>3, <1>4, <3>1
  <2>3. At(w, ":", 2 + 1, p3)
    BY <1>2, <1>3, <1>5, <1>8, <2>1, <2>2, AtOn
  <2> QED
    BY <2>1, <2>3
<1>10. At(w, ":", 4, p4)
  <2>1. 3 + 1 = 4 /\ 3 \in Nat /\ p3 < p4 /\ p4 <= Len(w) /\ \A j \in p3 + 1 .. p4 - 1 : j = p3 + 1
    BY <1>2, <1>5
  <2>2. \A j \in p3 + 1 .. p4 - 1 : w[j] # ":"
    BY <1>1, <1>3, <2>1
  <2>3. At(w, ":", 3 + 1, p4)
    BY <1>2, <1>3, <1>5, <1>9, <2>1, <2>2, AtOn
  <2> QED
    BY <2>1, <2>3
<1>11. Field(w, ":", 2) = u
  <2>1. 2 = 1 + 1 /\ p2 = p1 + Len(u) + 1 /\ 1 \in Nat
    BY <1>5
  <2> QED
    <3>1. Between(w, ":", 1, p1, 2, p2, u)
      BY <1>1, <1>2, <1>3, <1>7, <1>8, <2>1 DEF Between
    <3> QED
      BY <3>1, FieldIs
<1>12. Field(w, ":", 3) = v
  <2>1. 3 = 2 + 1 /\ p3 = p2 + Len(v) + 1 /\ 2 \in Nat
    BY <1>5
  <2> QED
    <3>1. Between(w, ":", 2, p2, 3, p3, v)
      BY <1>1, <1>2, <1>3, <1>8, <1>9, <2>1 DEF Between
    <3> QED
      BY <3>1, FieldIs
<1>13. Field(w, ":", 4) = <<kind>>
  <2> DEFINE k == <<kind>>
  <2>1. k \in Strings /\ Len(k) = 1 /\ k[1] = kind
    BY <1>1, OneIs DEF Strings
  <2> HIDE DEF k
  <2>2. 4 = 3 + 1 /\ p4 = p3 + Len(k) + 1 /\ 3 \in Nat /\ \A j \in 1 .. Len(k) : w[p3 + j] = k[j]
    <3>1. p3 + Len(k) + 1 = p4 /\ \A j \in 1 .. Len(k) : j = 1
      BY <1>5, <2>1
    <3> QED
      BY <1>3, <2>1, <3>1
  <2>3. Field(w, ":", 4) = k
    <3>1. Between(w, ":", 3, p3, 4, p4, k)
      BY <1>2, <1>9, <1>10, <2>1, <2>2 DEF Between
    <3> QED
      BY <3>1, FieldIs
  <2> QED
    BY <2>2, <2>3 DEF k
<1>14. Behind(w, ":", 4) = data
  <2>1. 4 \in Nat /\ p4 + Len(data) = Len(w)
    BY <1>2, <1>5 DEF p4
  <2> QED
    <3>1. AtEnd(w, ":", 4, p4, data)
      BY <1>1, <1>2, <1>3, <1>10, <2>1 DEF AtEnd
    <3> QED
      BY <3>1, BehindIs
<1> QED
  BY <1>11, <1>12, <1>13, <1>14

(* With one, a piece of a name stands where the command should be.          *)
LEMMA ShiftedIs ==
  ASSUME NEW w, NEW u, NEW v, NEW kind, NEW data, IsBody(w, u, v, kind, data),
         Contains(u, ":") \/ Contains(v, ":"),
         \A token \in DOMAIN CommandOf : ~Contains(u, token) /\ ~Contains(v, token)
  PROVE  atoi(Field(w, ":", 4)) = 0
<1> DEFINE lu == Len(u)
           lv == Len(v)
           p2 == 3 + lu
           p3 == 4 + lu + lv
<1>1. /\ u \in Strings /\ v \in Strings /\ data \in Strings /\ "packet" # ":"
      /\ IsLine(Signs, w, "packet", ":", u, v, kind, data)
  BY BodyIs DEF IsBody
<1>2. lu \in Nat /\ lv \in Nat /\ w \in Strings /\ Len(w) \in Nat /\ p3 <= Len(w)
  BY <1>1 DEF Strings, IsLine
<1>3. /\ w[1] = "packet" /\ w[2] = ":" /\ w[p2] = ":" /\ w[p3] = ":"
      /\ \A j \in 1 .. lu : w[2 + j] = u[j]
      /\ \A j \in 1 .. lv : w[p2 + j] = v[j]
  BY <1>1 DEF IsLine
<1>4. /\ p2 = 3 + lu /\ p3 = p2 + lv + 1 /\ p2 \in Nat /\ p3 \in Nat
      /\ 2 < p2 /\ p2 < p3 /\ p2 <= Len(w) /\ 2 <= Len(w)
  BY <1>2
<1> HIDE DEF p2, p3
<1>5. At(w, ":", 1, 2)
  <2>1. 0 + 1 = 1 /\ 0 \in Nat /\ 2 \in Nat /\ 0 < 2 /\ 2 <= Len(w) /\ \A j \in 0 + 1 .. 2 - 1 : j = 1
    BY <1>2, <1>4
  <2>2. At(w, ":", 0 + 1, 2)
    BY <1>1, <1>2, <1>3, <2>1, AtBegin, AtOn
  <2> QED
    BY <2>1, <2>2
<1>6. \E i, n \in Nat : At(w, ":", 2, i) /\ 2 < i /\ i < n /\ n < p3 /\ w[n] = ":"
  <2>1. 1 + 1 = 2 /\ 1 \in Nat
    OBVIOUS
  <2>2. CASE Contains(u, ":")
    <3>1. PICK x \in 1 .. lu : u[x] = ":"
      BY <2>2 DEF Contains
    <3> DEFINE n == 2 + x
    <3>2. n \in Nat /\ 2 < n /\ n <= Len(w) /\ w[n] = ":" /\ n < p2
      BY <1>2, <1>3, <1>4, <3>1
    <3> HIDE DEF n
    <3>3. PICK m \in 2 + 1 .. n : At(w, ":", 1 + 1, m)
      BY <1>2, <1>5, <2>1, <3>2, AtNext
    <3>4. m \in Nat /\ 2 < m /\ m < p2
      BY <1>4, <3>2
    <3> QED
      BY <1>3, <1>4, <2>1, <3>3, <3>4
  <2>3. CASE Contains(v, ":")
    <3>1. PICK x \in 1 .. lv : v[x] = ":"
      BY <2>3 DEF Contains
    <3> DEFINE n == p2 + x
    <3>2. n \in Nat /\ w[n] = ":" /\ p2 < n /\ n < p3
      BY <1>2, <1>3, <1>4, <3>1
    <3> HIDE DEF n
    <3>3. PICK m \in 2 + 1 .. p2 : At(w, ":", 1 + 1, m)
      <4>1. 2 \in Nat
        OBVIOUS
      <4> QED
        BY <1>2, <1>3, <1>4, <1>5, <2>1, <4>1, AtNext
    <3>4. m \in Nat /\ 2 < m /\ m < n
      BY <1>4, <3>2
    <3> QED
      BY <2>1, <3>2, <3>3, <3>4
  <2> QED
    BY <2>2, <2>3
<1>7. \E i, n \in Nat : At(w, ":", 3, i) /\ 2 < i /\ i < p3
  <2>1. PICK i, n \in Nat : At(w, ":", 2, i) /\ 2 < i /\ i < n /\ n < p3 /\ w[n] = ":"
    BY <1>6
  <2>2. n <= Len(w) /\ 2 + 1 = 3 /\ 2 \in Nat
    BY <1>2, <1>4, <2>1
  <2>3. PICK m \in i + 1 .. n : At(w, ":", 2 + 1, m)
    BY <1>2, <2>1, <2>2, AtNext
  <2>4. m \in Nat /\ 2 < m /\ m < p3
    BY <1>4, <2>1
  <2> QED
    BY <2>2, <2>3, <2>4
<1>8. PICK i \in Nat : At(w, ":", 3, i) /\ 2 < i /\ i < p3
  BY <1>7
<1>9. PICK m \in i + 1 .. p3 : w[m] = ":" /\ (\A j \in i + 1 .. m - 1 : w[j] # ":") /\ At(w, ":", 3 + 1, m)
  <2>1. 3 \in Nat
    OBVIOUS
  <2> QED
    BY <1>2, <1>3, <1>4, <1>8, <2>1, AtNext
<1>10. Field(w, ":", 4) = SubSeq(w, i + 1, m - 1)
  <2>1. 3 + 1 = 4 /\ 4 - 1 = 3
    OBVIOUS
  <2> QED
    BY <1>8, <1>9, <2>1 DEF Field, At
<1> DEFINE f == SubSeq(w, i + 1, m - 1)
<1>11. m \in Nat /\ w \in Seq(Signs) /\ m - 1 \in Nat /\ i + 1 \in Nat /\ m <= p3 /\ i + 1 <= m /\ m <= Len(w)
  BY <1>2, <1>4 DEF Strings
<1>12. Len(f) > 0 => i + 1 <= m - 1 /\ f[1] = w[i + 1]
  <2> DEFINE a == i + 1
             b == m - 1
             g == SubSeq(w, a, b)
  <2>1. a \in Nat /\ b \in Nat /\ a \in 1 .. Len(w) + 1 /\ b \in 0 .. Len(w) /\ b - a + 1 \in Nat
    BY <1>2, <1>11
  <2> HIDE DEF a, b
  <2>2. Len(g) = b - a + 1 /\ \A j \in 1 .. b - a + 1 : g[j] = w[j + a - 1]
    BY <1>11, <2>1
  <2> HIDE DEF g
  <2>3. Len(g) > 0 => a <= b /\ 1 \in 1 .. b - a + 1 /\ 1 + a - 1 = a
    BY <2>1, <2>2
  <2>4. Len(g) > 0 => a <= b /\ g[1] = w[a]
    BY <2>2, <2>3
  <2> QED
    BY <2>4 DEF g, a, b
<1> HIDE DEF f
<1>13. i + 1 <= m - 1 => w[i + 1] \notin DOMAIN CommandOf
  <2> SUFFICES ASSUME i + 1 <= m - 1 PROVE w[i + 1] \notin DOMAIN CommandOf
    OBVIOUS
  <2> DEFINE a == i + 1
  <2>1. a \in Nat /\ 3 < a /\ a < p3 /\ w[a] # ":"
    BY <1>8, <1>9, <1>4, <1>11
  <2> HIDE DEF a
  <2>2. CASE a < p2
    <3>1. a - 2 \in 1 .. lu /\ 2 + (a - 2) = a
      BY <1>2, <1>4, <2>1, <2>2
    <3>2. w[a] = u[a - 2]
      BY <1>3, <3>1
    <3> QED
      BY <3>1, <3>2 DEF Contains, a
  <2>3. CASE p2 < a
    <3>1. a - p2 \in 1 .. lv /\ p2 + (a - p2) = a
      BY <1>2, <1>4, <2>1, <2>3
    <3>2. w[a] = v[a - p2]
      BY <1>3, <3>1
    <3> QED
      BY <3>1, <3>2 DEF Contains, a
  <2> QED
    BY <1>3, <1>4, <2>1, <2>2, <2>3
<1> QED
  BY <1>10, <1>12, <1>13 DEF atoi, f

\* What h takes of data behind these names.
Taken(h, u, v, data) ==
  IF h \in Legacy THEN CutTo(data, BodyRoom - (6 + Len(u) + Len(v))) ELSE data

\* What is before the data.
LineHead(u, v, kind) == <<"packet", ":">> \o u \o <<":">> \o v \o <<":", kind, ":">>

(* It is a part of the body.                                                *)
LEMMA HeadOf == ASSUME NEW u, NEW v, NEW kind, NEW data PROVE Body(u, v, kind, data) = LineHead(u, v, kind) \o data
  BY DEF Body, Line, LineHead

(* The length of that.                                                      *)
LEMMA HeadIs ==
  ASSUME NEW u \in Strings, NEW v \in Strings, NEW kind \in DOMAIN CommandOf
  PROVE  LineHead(u, v, kind) \in Seq(Signs) /\ Len(LineHead(u, v, kind)) = 6 + Len(u) + Len(v)
<1> DEFINE a == <<"packet", ":">>
           b == <<":">>
           c == <<":", kind, ":">>
           x == a \o u \o b \o v \o c
           m == 6 + Len(u) + Len(v)
           t == << >>
<1>1. /\ u \in Seq(Signs) /\ v \in Seq(Signs) /\ t \in Seq(Signs) /\ t \in Strings /\ Len(t) = 0
      /\ Len(u) \in Nat /\ Len(v) \in Nat
  BY DEF Strings
<1>2. a \in Seq(Signs) /\ b \in Seq(Signs) /\ c \in Seq(Signs)
  BY SignAssumption, OneIs, TwoIs, ThreeIs
<1>3. Body(u, v, kind, t) = x \o t
  BY DEF Body, Line
<1>4. LineHead(u, v, kind) = x
  BY DEF LineHead
<1> HIDE DEF t
<1>5. Len(x \o t) = 6 + Len(u) + Len(v) + Len(t)
  BY <1>1, <1>3, BodyIs DEF IsLine
<1> HIDE DEF a, b, c
<1>6. x \in Seq(Signs)
  BY <1>1, <1>2
<1> HIDE DEF x
<1>7. Len(x \o t) = Len(x) + Len(t) /\ Len(x) \in Nat
  BY <1>1, <1>6
<1>8. Len(x) = 6 + Len(u) + Len(v)
  BY <1>1, <1>5, <1>7
<1> QED
  BY <1>4, <1>6, <1>8

(* The buffer of the legacy program takes the beginning of the data.        *)
LEMMA TakenIs ==
  ASSUME NEW h, NEW w, NEW u, NEW v, NEW kind, NEW data, IsBody(w, u, v, kind, data),
         6 + Len(u) + Len(v) <= BodyRoom
  PROVE  IsBody(IF h \in Legacy THEN CutTo(w, BodyRoom) ELSE w, u, v, kind, Taken(h, u, v, data))
<1>1. CASE h \notin Legacy
  BY <1>1 DEF Taken
<1>2. CASE h \in Legacy
  <2> DEFINE m == 6 + Len(u) + Len(v)
             x == LineHead(u, v, kind)
             t == CutTo(data, BodyRoom - m)
  <2>1. /\ data \in Seq(Signs) /\ kind \in DOMAIN CommandOf /\ u \in Strings /\ v \in Strings
        /\ Len(u) \in Nat /\ Len(v) \in Nat
    BY DEF IsBody, Strings
  <2>2. x \in Seq(Signs) /\ Len(x) = m
    BY <2>1, HeadIs
  <2>3. m \in Nat /\ m <= BodyRoom /\ BodyRoom \in Nat /\ BodyRoom - m \in Nat
    BY <2>1, Rooms
  <2>4. w = x \o data /\ Body(u, v, kind, t) = x \o t
    BY HeadOf DEF IsBody
  <2> HIDE DEF m, x
  <2>5. CutTo(w, BodyRoom) = x \o t
    BY <2>1, <2>2, <2>3, <2>4, JoinedCut
  <2>6. t \in Strings
    BY <2>1, <2>3, CutIs DEF Strings
  <2>7. IsBody(CutTo(w, BodyRoom), u, v, kind, t)
    BY <2>1, <2>4, <2>5, <2>6 DEF IsBody
  <2> QED
    BY <1>2, <2>7 DEF Taken, m
<1> QED
  BY <1>1, <1>2

Plain(u, v) == ~Contains(u, ":") /\ ~Contains(v, ":")

(* Every datagram that was sent is either understood as it was meant, or,   *)
(* for a name that contains a ':', its command is none.                     *)
LEMMA ParsedIs ==
  ASSUME NEW h, NEW d, NEW u, NEW v, NEW kind, NEW data, IsBody(d.body, u, v, kind, data), Readable(u, v),
         6 + Len(u) + Len(v) <= BodyRoom
  PROVE  \/ ~Plain(u, v) /\ Parsed(h, d).command = 0
         \/ /\ Plain(u, v)
            /\ Parsed(h, d) = [mac |-> d.mac, username |-> u, hostname |-> v,
                               command |-> CommandOf[kind], data |-> Taken(h, u, v, data)]
<1> DEFINE w == IF h \in Legacy THEN CutTo(d.body, BodyRoom) ELSE d.body
           t == Taken(h, u, v, data)
<1>1. IsBody(w, u, v, kind, t)
  BY TakenIs
<1>2. Parsed(h, d) = [mac |-> d.mac, username |-> Field(w, ":", 2), hostname |-> Field(w, ":", 3),
                      command |-> atoi(Field(w, ":", 4)), data |-> Behind(w, ":", 4)]
  BY DEF Parsed
<1> HIDE DEF w, t
<1>3. CASE Plain(u, v)
  <2> DEFINE k == <<kind>>
  <2>1. Len(k) > 0 /\ k[1] = kind
    BY OneIs
  <2>2. kind \in DOMAIN CommandOf
    BY DEF IsBody
  <2> HIDE DEF k
  <2>3. atoi(k) = CommandOf[kind]
    BY <2>1, <2>2 DEF atoi
  <2>4. /\ Field(w, ":", 2) = u /\ Field(w, ":", 3) = v
        /\ Field(w, ":", 4) = k /\ Behind(w, ":", 4) = t
    BY <1>1, <1>3, PlainIs DEF Plain, k
  <2> QED
    BY <1>2, <1>3, <2>3, <2>4 DEF t
<1>4. CASE ~Plain(u, v)
  <2>1. \A token \in DOMAIN CommandOf : ~Contains(u, token) /\ ~Contains(v, token)
    BY <1>4 DEF Readable, Plain
  <2>2. atoi(Field(w, ":", 4)) = 0
    BY <1>1, <1>4, <2>1, ShiftedIs DEF Plain
  <2> QED
    BY <1>2, <1>4, <2>2
<1> QED
  BY <1>3, <1>4

-----------------------------------------------------------------------------
(* What was sent.                                                           *)

\* What the settings say of the lengths of their strings.
Short(p) ==
  \A n \in {p.username, p.hostname, p.nickname, p.category} : Len(n) < 2 * NameRoom

GoodProfiles ==
  {p \in Profiles : /\ Readable(p.username, p.hostname) /\ Short(p)
                    /\ ~Contains(p.nickname, "NUL") /\ ~Contains(p.category, "NUL")}

\* The second string of an entry of h, and what is read of it.
CategoryData(h, p) == IF h \in Legacy THEN p.category \o <<"NUL">> ELSE Region(p)

CategorySent(h, p) == IF h \in Legacy THEN p.category ELSE CutTo(p.category, Header(p) + 1)

Announced(h, p) == p.nickname \o <<"NUL">> \o CategoryData(h, p)

Entries == {"BR_ENTRY", "ANSENTRY"}

\* The names in a datagram.
Fine(u, v) ==
  u \in Strings /\ v \in Strings /\ Readable(u, v) /\ Len(u) < 3 * NameRoom /\ Len(v) < 2 * NameRoom

Names(d, u, v) ==
  /\ d.kind \notin {"SENDMSG", "RECVMSG"} => u = d.by.username
  /\ d.kind = "SENDMSG" => u = Held(d.from, d.by.username, d.by.hostname)
  /\ d.kind # "RECVMSG" => v = d.by.hostname
  /\ d.kind = "RECVMSG" => Plain(u, v)

\* The text of a private text.
Typed(d, data, t) ==
  /\ data \in {t, Append(t, "NUL")}
  /\ d.from \notin Legacy => data = Append(t, "NUL") /\ Len(t) < TextRoom

LegacyText(d) == d.from \in Legacy /\ d.kind \in {"SENDMSG", "GPMSG"}

\* The data of a datagram.
Content(d, data) ==
  /\ d.kind = "BR_ENTRY" => data = Announced(d.from, d.by)
  /\ d.kind = "ANSENTRY" => data = d.by.nickname
  /\ d.kind = "SENDMSG" => \E t \in Texts : Typed(d, data, t)
  /\ d.kind = "GPMSG" => d.key = d.by.mac /\ \E g \in Signs, t \in Texts : data = Marked(g, t)
  /\ d.kind # "SENDMSG" => Len(data) <= TextRoom
  /\ ~LegacyText(d) => Size(d, data) <= TextRoom

Wrote(d, u, v, data) ==
  IsBody(d.body, u, v, d.kind, data) /\ Fine(u, v) /\ Names(d, u, v) /\ Content(d, data)

Sent(d) ==
  /\ d.from \in Hosts /\ d.by \in GoodProfiles /\ d.mac = d.by.mac /\ d.run \in Nat
  /\ \E u, v, data : Wrote(d, u, v, data)

\* d is no datagram whose fields are moved.
Understood(h, d) == Parsed(h, d).command # 0

\* What h reads of d.
Read(h, d, u, v, data) ==
  Parsed(h, d) = [mac |-> d.by.mac, username |-> u, hostname |-> v,
                  command |-> CommandOf[d.kind], data |-> Taken(h, u, v, data)]

(* A string that NUL ends.                                                  *)
LEMMA EndedIs ==
  ASSUME NEW s \in Strings, ~Contains(s, "NUL"), NEW w, w = Append(s, "NUL") \/ w = s \o <<"NUL">>
  PROVE  w \in Strings /\ CString(w) = s
<1>1. "NUL" \in Signs /\ s \in Seq(Signs) /\ Len(s) \in Nat /\ << >> \in Strings
  BY SignAssumption DEF Strings
<1> DEFINE v == s \o <<"NUL">> \o << >>
<1>2. v = s \o <<"NUL">> /\ v = Append(s, "NUL")
  <2>1. ASSUME NEW c \in Signs PROVE s \o <<c>> \o << >> = s \o <<c>> /\ s \o <<c>> \o << >> = Append(s, c)
    BY <1>1
  <2> QED
    BY <1>1, <2>1
<1>3. v \in Strings /\ Contains(v, "NUL") /\ Field(v, "NUL", 1) = s
  BY <1>1, FirstIs
<1> HIDE DEF v
<1> QED
  BY <1>2, <1>3 DEF CString

(* A string without NUL is taken whole.                                     *)
LEMMA UnendedIs == ASSUME NEW s, ~Contains(s, "NUL") PROVE CString(s) = s
  BY DEF CString

(* The length of what is before the category.                               *)
LEMMA HeaderIs == ASSUME NEW p \in GoodProfiles PROVE Header(p) \in Nat
<1> DEFINE lu == Len(p.username)
           lv == Len(p.hostname)
           ln == Len(p.nickname)
<1>1. p.username \in Seq(Signs) /\ p.hostname \in Seq(Signs) /\ p.nickname \in Seq(Signs)
  BY DEF GoodProfiles, Profiles, Strings
<1>2. lu \in Nat /\ lv \in Nat /\ ln \in Nat /\ Prefix \in Nat
  BY <1>1, Rooms
<1>3. Header(p) = Prefix + lu + lv + ln
  BY DEF Header
<1> HIDE DEF lu, lv, ln
<1> QED
  BY <1>2, <1>3

(* What is read of the category of an entry.                                *)
LEMMA CategoryIs ==
  ASSUME NEW h, NEW p \in GoodProfiles
  PROVE  LET data == CategoryData(h, p) IN
         /\ data \in Strings /\ CString(data) = CategorySent(h, p)
         /\ Len(data) = IF h \in Legacy THEN Len(p.category) + 1 ELSE Header(p) + 1
         /\ CategorySent(h, p) = << >> <=> p.category = << >>
<1> DEFINE c == p.category
           n == Header(p) + 1
<1>1. c \in Strings /\ c \in Seq(Signs) /\ ~Contains(c, "NUL") /\ "NUL" \in Signs
  BY SignAssumption DEF GoodProfiles, Profiles, Strings
<1>2. n \in Nat \ {0}
  <2>1. Header(p) \in Nat
    BY HeaderIs
  <2> QED
    BY <2>1
<1>3. CASE h \in Legacy
  <2> DEFINE t == c \o <<"NUL">>
  <2>1. t \in Strings /\ CString(t) = c
    BY <1>1, EndedIs
  <2>2. Len(t) = Len(c) + 1
    BY <1>1
  <2> QED
    BY <1>3, <2>1, <2>2 DEF CategoryData, CategorySent
<1>4. CASE h \notin Legacy
  <2>1. Region(p) = Zeroed(c, n)
    BY DEF Region, Zeroed
  <2>2. CategoryData(h, p) = Zeroed(c, n) /\ CategorySent(h, p) = CutTo(c, n)
    BY <1>4, <2>1 DEF CategoryData, CategorySent
  <2> HIDE DEF c, n
  <2>3. Zeroed(c, n) \in Strings /\ Len(Zeroed(c, n)) = n /\ CString(Zeroed(c, n)) = CutTo(c, n)
    BY <1>1, <1>2, ZeroedIs
  <2>4. CutTo(c, n) = << >> <=> c = << >>
    <3>1. CutTo(c, n) \in Seq(Signs) /\ Len(CutTo(c, n)) = IF Len(c) < n THEN Len(c) ELSE n
      BY <1>1, <1>2, CutIs
    <3> DEFINE t == CutTo(c, n)
    <3> HIDE DEF t
    <3>2. (t = << >> <=> Len(t) = 0) /\ (c = << >> <=> Len(c) = 0)
      BY <1>1, <3>1 DEF t
    <3> QED
      BY <1>1, <1>2, <3>1, <3>2 DEF t
  <2> QED
    BY <1>4, <2>2, <2>3, <2>4 DEF c, n
<1> QED
  BY <1>3, <1>4

(* The two strings of an announcement.                                      *)
LEMMA AnnouncedIs ==
  ASSUME NEW h, NEW p \in GoodProfiles
  PROVE  LET data == Announced(h, p) IN
         /\ data \in Strings /\ Contains(data, "NUL") /\ Len(data) < TextRoom
         /\ CString(data) = p.nickname
         /\ Behind(data, "NUL", 1) = CategoryData(h, p)
<1> DEFINE s == p.nickname
           t == CategoryData(h, p)
           data == s \o <<"NUL">> \o t
<1>1. s \in Strings /\ ~Contains(s, "NUL") /\ "NUL" \in Signs /\ t \in Strings
  BY SignAssumption, CategoryIs DEF GoodProfiles, Profiles
<1>2. Len(t) = IF h \in Legacy THEN Len(p.category) + 1 ELSE Header(p) + 1
  BY CategoryIs
<1> HIDE DEF t
<1>3. data \in Strings /\ Contains(data, "NUL") /\ Field(data, "NUL", 1) = s /\ Behind(data, "NUL", 1) = t
  BY <1>1, FirstIs
<1>4. Len(data) = Len(s) + 1 + Len(t)
  BY <1>1 DEF Strings
<1>5. Len(s) + 1 + Len(t) < TextRoom
  <2> DEFINE lu == Len(p.username)
             lv == Len(p.hostname)
             ln == Len(p.nickname)
             lc == Len(p.category)
  <2>1. /\ p.username \in Seq(Signs) /\ p.hostname \in Seq(Signs)
        /\ p.nickname \in Seq(Signs) /\ p.category \in Seq(Signs)
    BY DEF GoodProfiles, Profiles, Strings
  <2>2. lu \in Nat /\ lv \in Nat /\ ln \in Nat /\ lc \in Nat
    BY <2>1
  <2>3. lu < 2 * NameRoom /\ lv < 2 * NameRoom /\ ln < 2 * NameRoom /\ lc < 2 * NameRoom
    BY DEF GoodProfiles, Short
  <2>4. /\ NameRoom \in Nat \ {0} /\ Prefix \in Nat /\ Block \in Nat /\ TextRoom \in Nat
        /\ Prefix + 8 * NameRoom + Block + 4 <= TextRoom
    BY Rooms
  <2>5. Len(t) = lc + 1 \/ Len(t) = Prefix + lu + lv + ln + 1
    BY <1>2 DEF Header
  <2> HIDE DEF lu, lv, ln, lc
  <2>6. ln + 1 + Len(t) < TextRoom
    BY <2>2, <2>3, <2>4, <2>5
  <2> QED
    BY <2>6 DEF ln
<1> QED
  BY <1>3, <1>4, <1>5 DEF CString, Announced, t

(* The lengths of names leave room in the buffer of the legacy program.     *)
LEMMA RoomForNames ==
  ASSUME NEW u, NEW v, Fine(u, v)
  PROVE  /\ 6 + Len(u) + Len(v) <= BodyRoom /\ BodyRoom - (6 + Len(u) + Len(v)) \in Nat
         /\ TextRoom <= BodyRoom - (6 + Len(u) + Len(v))
<1>1. u \in Seq(Signs) /\ v \in Seq(Signs) /\ Len(u) < 3 * NameRoom /\ Len(v) < 2 * NameRoom
  BY DEF Fine, Strings
<1>2. Len(u) \in Nat /\ Len(v) \in Nat
  BY <1>1
<1>3. /\ NameRoom \in Nat /\ TextRoom \in Nat /\ BodyRoom \in Nat
      /\ TextRoom + 5 * NameRoom + 6 <= BodyRoom
  BY Rooms
<1> QED
  BY <1>1, <1>2, <1>3

(* What is not longer than a text of ifc is taken whole.                    *)
LEMMA WholeIs ==
  ASSUME NEW h, NEW u, NEW v, Fine(u, v), NEW data \in Strings, Len(data) <= TextRoom
  PROVE  Taken(h, u, v, data) = data
<1> DEFINE n == BodyRoom - (6 + Len(u) + Len(v))
<1>1. data \in Seq(Signs) /\ Len(data) \in Nat
  BY DEF Strings
<1>2. n \in Nat /\ TextRoom <= n /\ TextRoom \in Nat
  BY RoomForNames, Rooms
<1> HIDE DEF n
<1>3. CutTo(data, n) = data
  BY <1>1, <1>2, CutIs
<1> QED
  BY <1>3 DEF Taken, n

(* Only the announcements and the answers are taken for an entry, only texts
   for a text.                                                              *)
LEMMA KindIs ==
  ASSUME NEW h, NEW d, Sent(d)
  PROVE  LET command == Parsed(h, d).command IN
         /\ command % 256 \in {1, 3} => Understood(h, d) /\ d.kind \in Entries
         /\ command % 256 = 32 => Understood(h, d) /\ d.kind = "SENDMSG"
         /\ command % 256 = 35 => Understood(h, d) /\ d.kind = "GPMSG"
<1>1. PICK u, v, data : Wrote(d, u, v, data)
  BY DEF Sent
<1>2. IsBody(d.body, u, v, d.kind, data) /\ Readable(u, v) /\ 6 + Len(u) + Len(v) <= BodyRoom
  BY <1>1, RoomForNames DEF Wrote, Fine
<1>3. Parsed(h, d).command = 0 \/ Parsed(h, d).command = CommandOf[d.kind]
  <2> DEFINE k == d.kind
  <2>1. IsBody(d.body, u, v, k, data)
    BY <1>2
  <2> HIDE DEF k
  <2>2. \/ ~Plain(u, v) /\ Parsed(h, d).command = 0
        \/ /\ Plain(u, v)
           /\ Parsed(h, d) = [mac |-> d.mac, username |-> u, hostname |-> v,
                              command |-> CommandOf[k], data |-> Taken(h, u, v, data)]
    BY <1>2, <2>1, ParsedIs
  <2> QED
    BY <2>2 DEF k
<1>4. d.kind \in {"BR_PROBE", "BR_ENTRY", "BR_EXIT", "ANSENTRY", "SENDMSG", "RECVMSG", "GPMSG", "GPINFO"}
  BY <1>2 DEF IsBody, CommandOf
<1>5. 0 % 256 = 0 /\ 257 % 256 = 1 /\ 2 % 256 = 2 /\ 259 % 256 = 3 /\ 288 % 256 = 32 /\ 33 % 256 = 33
      /\ 4194339 % 256 = 35 /\ 2097353 % 256 = 201
  OBVIOUS
<1>6. CASE Parsed(h, d).command = 0
  BY <1>5, <1>6
<1>7. CASE Parsed(h, d).command = CommandOf[d.kind]
  <2>1. CASE d.kind \in {"BR_PROBE", "BR_ENTRY", "BR_EXIT"}
    BY <1>5, <1>7, <2>1 DEF CommandOf, Understood, Entries
  <2>2. CASE d.kind \in {"ANSENTRY", "SENDMSG", "RECVMSG"}
    BY <1>5, <1>7, <2>2 DEF CommandOf, Understood, Entries
  <2>3. CASE d.kind \in {"GPMSG", "GPINFO"}
    BY <1>5, <1>7, <2>3 DEF CommandOf, Understood, Entries
  <2> QED
    BY <1>4, <2>1, <2>2, <2>3
<1> QED
  BY <1>3, <1>6, <1>7

(* What is understood is what was sent.                                     *)
LEMMA SaysIs ==
  ASSUME NEW h, NEW d, Sent(d), Understood(h, d)
  PROVE  \E u, v, data : Wrote(d, u, v, data) /\ Plain(u, v) /\ Read(h, d, u, v, data)
<1>1. PICK u, v, data : Wrote(d, u, v, data)
  BY DEF Sent
<1>2. IsBody(d.body, u, v, d.kind, data) /\ Readable(u, v) /\ 6 + Len(u) + Len(v) <= BodyRoom
  BY <1>1, RoomForNames DEF Wrote, Fine
<1>3. /\ Plain(u, v)
      /\ Parsed(h, d) = [mac |-> d.mac, username |-> u, hostname |-> v,
                         command |-> CommandOf[d.kind], data |-> Taken(h, u, v, data)]
  BY <1>2, ParsedIs DEF Understood
<1>4. d.mac = d.by.mac
  BY DEF Sent
<1> QED
  BY <1>1, <1>3, <1>4 DEF Read

(* What the user list takes from an entry.                                  *)
LEMMA EntrySays ==
  ASSUME NEW h, NEW d, Sent(d), Understood(h, d), d.kind \in Entries
  PROVE  LET msg == Parsed(h, d)  category == CategorySent(d.from, d.by) IN
         /\ msg.username = d.by.username /\ msg.hostname = d.by.hostname /\ msg.mac = d.by.mac
         /\ CString(msg.data) = d.by.nickname
         /\ d.kind = "BR_ENTRY" => CategoriesIn(h, msg) = {IF d.by.category = << >> THEN NoGroup ELSE category}
         /\ d.kind = "ANSENTRY" => CategoriesIn(h, msg) = {NoGroup} \cup (IF h \in Legacy THEN {Garbage} ELSE {})
<1>1. PICK u, v, data : Wrote(d, u, v, data) /\ Read(h, d, u, v, data)
  BY SaysIs
<1>2. d.by \in GoodProfiles /\ d.kind \notin {"SENDMSG", "RECVMSG"} /\ d.kind # "SENDMSG"
  BY DEF Sent, Entries
<1>3. u = d.by.username /\ v = d.by.hostname /\ Content(d, data) /\ data \in Strings /\ Fine(u, v)
  BY <1>1, <1>2 DEF Wrote, Names, IsBody
<1>4. Taken(h, u, v, data) = data
  <2>1. Len(data) <= TextRoom
    BY <1>2, <1>3 DEF Content
  <2> QED
    BY <1>3, <2>1, WholeIs
<1>5. Parsed(h, d).data = data /\ Parsed(h, d).username = d.by.username /\ Parsed(h, d).hostname = d.by.hostname
      /\ Parsed(h, d).mac = d.by.mac
  BY <1>1, <1>3, <1>4 DEF Read
<1>6. CASE d.kind = "BR_ENTRY"
  <2> DEFINE c == CategorySent(d.from, d.by)
  <2>1. data = Announced(d.from, d.by) /\ d.kind # "ANSENTRY"
    BY <1>3, <1>6 DEF Content
  <2>2. Contains(data, "NUL") /\ CString(data) = d.by.nickname /\ Behind(data, "NUL", 1) = CategoryData(d.from, d.by)
    BY <1>2, <2>1, AnnouncedIs
  <2>3. CString(CategoryData(d.from, d.by)) = c /\ (c = << >> <=> d.by.category = << >>)
    BY <1>2, CategoryIs
  <2> HIDE DEF c
  <2>4. CategoriesIn(h, Parsed(h, d)) = {IF d.by.category = << >> THEN NoGroup ELSE c}
    BY <1>5, <2>2, <2>3 DEF CategoriesIn
  <2> QED
    BY <1>5, <1>6, <2>2, <2>4 DEF c
<1>7. CASE d.kind = "ANSENTRY"
  <2>1. data = d.by.nickname /\ d.kind # "BR_ENTRY"
    BY <1>3, <1>7 DEF Content
  <2>2. ~Contains(data, "NUL") /\ CString(data) = d.by.nickname
    BY <1>2, <2>1, UnendedIs DEF GoodProfiles
  <2> QED
    BY <1>5, <1>7, <2>1, <2>2 DEF CategoriesIn
<1> QED
  BY <1>6, <1>7 DEF Entries

(* The group and the text of a line that is not garbled.                    *)
LEMMA MarkedIs ==
  ASSUME NEW g \in Signs, NEW t \in Strings
  PROVE  LET w == Marked(g, t) IN
         /\ w \in Strings /\ w # Garbage /\ Len(w) = 4 + Len(t)
         /\ \A group : Field(w, "#", 2) = <<group>> => group = g /\ Behind(w, "#", 2) = t
<1> DEFINE w == Marked(g, t)
           h == <<"QUNMSGMARK", "#", g, "#">>
<1>1. "QUNMSGMARK" \in Signs /\ "#" \in Signs /\ "QUNMSGMARK" # "#" /\ t \in Seq(Signs) /\ Len(t) \in Nat
  BY SignAssumption DEF Strings
<1>2. h \in Seq(Signs) /\ Len(h) = 4 /\ h[1] = "QUNMSGMARK" /\ h[2] = "#" /\ h[3] = g /\ h[4] = "#"
  <2>1. ASSUME NEW a \in Signs, NEW b \in Signs
        PROVE  LET k == <<a, b, g, b>> IN k \in Seq(Signs) /\ Len(k) = 4 /\ k[1] = a /\ k[2] = b /\ k[3] = g /\ k[4] = b
    OBVIOUS
  <2> QED
    BY <1>1, <2>1
<1>3. w = h \o t
  BY DEF Marked
<1> HIDE DEF h, w
<1>4. Joined(Signs, w, h, t, 4, Len(t))
  BY <1>1, <1>2, <1>3 DEF Joined
<1>5. /\ w \in Seq(Signs) /\ Len(w) = 4 + Len(t) /\ (\A j \in 1 .. 4 : w[j] = h[j])
      /\ \A j \in 1 .. Len(t) : w[4 + j] = t[j]
  BY <1>4, JoinedIs
<1>6. w[1] # "#" /\ w[2] = "#" /\ w[3] = g /\ w[4] = "#"
  <2>1. 1 \in 1 .. 4 /\ 2 \in 1 .. 4 /\ 3 \in 1 .. 4 /\ 4 \in 1 .. 4
    OBVIOUS
  <2> QED
    BY <1>1, <1>2, <1>5, <2>1
<1>7. w # Garbage
  <2>1. Len(Garbage) = 1
    BY DEF Garbage
  <2>2. Len(w) # 1
    BY <1>1, <1>5
  <2> HIDE DEF w
  <2> QED
    BY <2>1, <2>2, Zenon
<1>8. w \in Strings /\ Len(w) \in Nat /\ 4 <= Len(w)
  BY <1>1, <1>5 DEF Strings
<1>9. At(w, "#", 1, 2)
  <2>1. 0 + 1 = 1 /\ 0 \in Nat /\ 2 \in Nat /\ 0 < 2 /\ 2 <= Len(w) /\ \A j \in 0 + 1 .. 2 - 1 : j = 1
    BY <1>8
  <2>2. At(w, "#", 0 + 1, 2)
    BY <1>6, <1>8, <2>1, AtBegin, AtOn
  <2> QED
    BY <2>1, <2>2
<1>10. CASE g = "#"
  <2>1. 1 + 1 = 2 /\ 1 \in Nat /\ 3 \in Nat /\ 2 < 3 /\ 3 <= Len(w) /\ \A j \in 2 + 1 .. 3 - 1 : FALSE
    BY <1>8
  <2>2. At(w, "#", 1 + 1, 3)
    BY <1>6, <1>8, <1>9, <1>10, <2>1, AtOn
  <2>3. At(w, "#", 2, 3)
    BY <2>1, <2>2
  <2>4. << >> \in Strings /\ Len(<< >>) = 0
    BY DEF Strings
  <2>5. Between(w, "#", 1, 2, 2, 3, << >>)
    BY <1>8, <1>9, <2>3, <2>4 DEF Between
  <2>6. Field(w, "#", 2) = << >>
    BY <2>5, FieldIs
  <2>7. \A group : <<group>> # << >>
    OBVIOUS
  <2> QED
    BY <1>5, <1>7, <1>8, <2>6, <2>7 DEF w
<1>11. CASE g # "#"
  <2>1. 1 + 1 = 2 /\ 1 \in Nat /\ 4 \in Nat /\ 2 < 4 /\ 4 <= Len(w) /\ \A j \in 2 + 1 .. 4 - 1 : j = 3
    BY <1>8
  <2>2. At(w, "#", 1 + 1, 4)
    BY <1>6, <1>8, <1>9, <1>11, <2>1, AtOn
  <2>3. At(w, "#", 2, 4)
    BY <2>1, <2>2
  <2> DEFINE k == <<g>>
  <2>4. k \in Strings /\ Len(k) = 1 /\ k[1] = g
    BY OneIs DEF Strings
  <2> HIDE DEF k
  <2>5. Between(w, "#", 1, 2, 2, 4, k)
    <3>1. 4 = 2 + Len(k) + 1 /\ \A j \in 1 .. Len(k) : j = 1
      BY <2>4
    <3> QED
      BY <1>6, <1>8, <1>9, <2>1, <2>3, <2>4, <3>1 DEF Between
  <2>6. Field(w, "#", 2) = k
    BY <2>5, FieldIs
  <2>7. Behind(w, "#", 2) = t
    <3>1. 2 \in Nat /\ 4 + Len(t) = Len(w)
      BY <1>1, <1>5
    <3> QED
      <4>1. AtEnd(w, "#", 2, 4, t)
        BY <1>5, <1>8, <2>3, <3>1 DEF AtEnd
      <4> QED
        BY <4>1, BehindIs
  <2>8. \A group : k = <<group>> => group = g
    BY DEF k
  <2> QED
    BY <1>5, <1>7, <1>8, <2>6, <2>7, <2>8 DEF w
<1> QED
  BY <1>10, <1>11

(* What is put behind something is its suffix.                              *)
LEMMA SuffixIs ==
  ASSUME NEW S, NEW x \in Seq(S), NEW y \in Seq(S)
  PROVE  IsSuffix(y, x \o y)
<1> DEFINE w == x \o y
           m == Len(x)
           n == Len(y)
<1>1. m \in Nat /\ n \in Nat /\ Joined(S, w, x, y, m, n)
  BY DEF Joined
<1> HIDE DEF w, m, n
<1>2. w \in Seq(S) /\ Len(w) = m + n /\ \A j \in 1 .. n : w[m + j] = y[j]
  BY <1>1, JoinedIs
<1>3. Len(y) = n
  BY DEF n
<1>4. \A i \in 1 .. n : Reverse(w)[i] = Reverse(y)[i]
  <2>1. \A i \in 1 .. n : /\ n - i + 1 \in 1 .. n /\ (m + n) - i + 1 = m + (n - i + 1) /\ i \in 1 .. m + n
    BY <1>1
  <2>2. /\ Reverse(w) = [i \in 1 .. m + n |-> w[(m + n) - i + 1]]
        /\ Reverse(y) = [i \in 1 .. n |-> y[n - i + 1]]
    <3>1. ASSUME NEW z \in Seq(S), NEW k, k = Len(z)
          PROVE  Reverse(z) = [i \in 1 .. k |-> z[k - i + 1]]
      BY <3>1, Zenon DEF Reverse
    <3> DEFINE k == m + n
    <3>2. Len(w) = k
      BY <1>2
    <3> HIDE DEF k
    <3>3. Reverse(w) = [i \in 1 .. k |-> w[k - i + 1]]
      BY <1>2, <3>1, <3>2
    <3>4. Reverse(y) = [i \in 1 .. n |-> y[n - i + 1]]
      BY <1>3, <3>1
    <3> QED
      BY <3>3, <3>4, Zenon DEF k
  <2>3. ASSUME NEW i \in 1 .. n PROVE Reverse(w)[i] = Reverse(y)[i]
    <3>1. Reverse(w)[i] = w[(m + n) - i + 1] /\ Reverse(y)[i] = y[n - i + 1]
      BY <2>1, <2>2
    <3>2. w[m + (n - i + 1)] = y[n - i + 1]
      BY <1>2, <2>1
    <3> QED
      BY <2>1, <3>1, <3>2
  <2> QED
    BY <2>3
<1>5. /\ Reverse(w) \in Seq(S) /\ Len(Reverse(w)) = m + n
      /\ Reverse(y) \in Seq(S) /\ Len(Reverse(y)) = n
  <2>1. ASSUME NEW z \in Seq(S) PROVE Reverse(z) \in Seq(S) /\ Len(Reverse(z)) = Len(z)
    BY DEF Reverse
  <2> QED
    BY <1>2, <1>3, <2>1
<1>6. SubSeq(Reverse(y), 1, n) = SubSeq(Reverse(w), 1, n)
  <2> DEFINE a == Reverse(y)
             b == Reverse(w)
  <2>1. a \in Seq(S) /\ b \in Seq(S) /\ n <= Len(a) /\ n <= Len(b) /\ \A i \in 1 .. n : b[i] = a[i]
    BY <1>1, <1>4, <1>5
  <2> HIDE DEF a, b
  <2>2. SubSeq(a, 1, n) = SubSeq(b, 1, n)
    BY <1>1, <2>1
  <2> QED
    BY <2>2 DEF a, b
<1>7. n <= m + n
  BY <1>1
<1> QED
  BY <1>5, <1>6, <1>7 DEF IsSuffix, IsPrefix, w

-----------------------------------------------------------------------------
(* The inductive invariant.                                                 *)

IsTable(f) == \E S : f \in [Hosts -> [Hosts -> S]]

ProtocolTypeInv ==
  /\ present \subseteq Hosts
  /\ profile \in [Hosts -> GoodProfiles]
  /\ boot \in [Hosts -> Nat]
  /\ IsTable(known) /\ IsTable(heard)
  /\ \E S : got \in [Hosts -> S]

NetInv == \A d \in net : Sent(d)

\* The MAC address of a host stays what it is in a run.
RunInv ==
  /\ \A d \in net : /\ d.run <= boot[d.from]
                    /\ d.run = boot[d.from] => d.by.mac = profile[d.from].mac
  /\ \A d, e \in net : d.from = e.from /\ d.run = e.run => d.by.mac = e.by.mac

\* h takes d for an entry of p.
IsEntry(d, h, p) ==
  d.from = p /\ h \in d.to /\ Understood(h, d) /\ d.kind \in Entries /\ ~Overlaps(h, Parsed(h, d))

StoredFrom(user, d, h, room) ==
  \E c \in CategoriesIn(h, Parsed(h, d)) : user = User(h, Parsed(h, d), c, room)

RoomFor(room, d, h) ==
  \E c \in CategoriesIn(h, Parsed(h, d)) : room = Lengths(User(h, Parsed(h, d), c, Nothing))

\* A user is what the last entry said that was heard, in the room of an entry.
KnownInv ==
  \A h, p \in Hosts :
    known[h][p] # Nothing =>
      /\ heard[h][p] \in net /\ IsEntry(heard[h][p], h, p)
      /\ StoredFrom(known[h][p], heard[h][p], h, known[h][p].room)
      /\ \E e \in net : IsEntry(e, h, p) /\ RoomFor(known[h][p].room, e, h)

ProtocolInv ==
  /\ ProtocolTypeInv /\ NetInv /\ RunInv /\ KnownInv
  /\ TextAsSent /\ GarbledOnlyAcrossRestart /\ OverrunExplained

-----------------------------------------------------------------------------
(* The settings of a host have no NUL in what is announced.                 *)
LEMMA GoodSettings == ASSUME NEW h \in Hosts PROVE ProfilesOf[h] \subseteq GoodProfiles
<1> SUFFICES ASSUME NEW p \in ProfilesOf[h] PROVE p \in GoodProfiles
  OBVIOUS
<1>1. p \in Profiles
  BY ProfileAssumption
<1>2. ~Contains(p.nickname, "NUL") /\ ~Contains(p.category, "NUL")
  BY TextAssumption
<1>3. Short(p)
  BY RoomAssumption DEF Short
<1>4. Readable(p.username, p.hostname)
  BY NameAssumption DEF Readable
<1> QED
  BY <1>1, <1>2, <1>3, <1>4 DEF GoodProfiles

(* The names of a host, and those of its texts.                             *)
LEMMA FineNames ==
  ASSUME NEW h, NEW p \in GoodProfiles
  PROVE  Fine(p.username, p.hostname) /\ Fine(Held(h, p.username, p.hostname), p.hostname)
<1> DEFINE u == p.username
           v == p.hostname
           w == Held(h, u, v)
<1>1. /\ u \in Strings /\ v \in Strings /\ Readable(u, v) /\ Len(u) < 2 * NameRoom /\ Len(v) < 2 * NameRoom
      /\ NameRoom \in Nat \ {0}
  BY Rooms DEF GoodProfiles, Profiles, Short
<1> HIDE DEF u, v
<1>2. Len(u) \in Nat /\ Len(v) \in Nat
  BY <1>1 DEF Strings
<1>3. /\ w \in Strings /\ (w = u \/ Len(w) = NameRoom + Len(v))
      /\ \A c : Contains(w, c) => Contains(u, c) \/ Contains(v, c)
  BY <1>1, HeldIs
<1> HIDE DEF w
<1>4. Len(w) < 3 * NameRoom /\ Len(u) < 3 * NameRoom
  BY <1>1, <1>2, <1>3
<1>5. Readable(w, v)
  BY <1>1, <1>3 DEF Readable
<1> QED
  BY <1>1, <1>3, <1>4, <1>5 DEF Fine, u, v, w

\* d is of the run r of h, in which its settings were p.
Signature(d, h, p, r) == d.from = h /\ d.by = p /\ d.run = r /\ d.mac = p.mac

Says(d, u, v, kind, data) == d.kind = kind /\ d.body = Body(u, v, kind, data)

(* A datagram with such names and data is one that may be sent.             *)
LEMMA SentIs ==
  ASSUME NEW d, NEW h \in Hosts, NEW p \in GoodProfiles, NEW r \in Nat, Signature(d, h, p, r),
         NEW u, NEW v, NEW kind \in DOMAIN CommandOf, NEW data \in Strings, Says(d, u, v, kind, data),
         Fine(u, v), Names(d, u, v), Content(d, data)
  PROVE  Sent(d)
<1>1. IsBody(d.body, u, v, d.kind, data)
  BY DEF IsBody, Fine, Says
<1>2. Wrote(d, u, v, data)
  BY <1>1 DEF Wrote
<1> QED
  BY <1>2 DEF Sent, Signature

(* What is not enciphered has its own size, and what is has little more.    *)
LEMMA SizeIs ==
  ASSUME NEW d, NEW data \in Strings
  PROVE  /\ d.key = Nothing => Size(d, data) = Len(data)
         /\ Size(d, data) \in Nat /\ Len(data) <= Size(d, data) /\ Size(d, data) <= Len(data) + Block + 1
<1> DEFINE n == Len(data)
           m == n % Block
           k == (n + Block + 1) - m
<1>1. n \in Nat /\ Block \in Nat /\ Block > 0
  BY Rooms DEF Strings
<1>2. Size(d, data) = IF d.key = Nothing THEN n ELSE k
  BY DEF Size
<1>3. m \in Nat /\ m < Block
  BY <1>1
<1> HIDE DEF m, n
<1>4. k \in Nat /\ n <= k /\ k <= n + Block + 1 /\ n <= n + Block + 1
  BY <1>1, <1>3
<1> HIDE DEF k
<1> QED
  BY <1>1, <1>2, <1>4 DEF n

(* What fits in any case.                                                   *)
LEMMA SmallFits ==
  /\ TextRoom \in Nat /\ Block \in Nat /\ 1 <= TextRoom /\ 4 + Block + 1 <= TextRoom
  /\ \A p \in GoodProfiles : /\ p.nickname \in Strings /\ Len(p.nickname) \in Nat
                             /\ Len(p.nickname) <= TextRoom
<1>1. /\ NameRoom \in Nat /\ NameRoom > 0 /\ Prefix \in Nat /\ Block \in Nat /\ Block > 0 /\ TextRoom \in Nat
      /\ Prefix + 8 * NameRoom + Block + 4 <= TextRoom
  BY Rooms
<1>2. 1 <= TextRoom /\ 4 + Block + 1 <= TextRoom /\ 2 * NameRoom <= TextRoom
  BY <1>1
<1>3. ASSUME NEW p \in GoodProfiles
      PROVE  p.nickname \in Strings /\ Len(p.nickname) \in Nat /\ Len(p.nickname) <= TextRoom
  <2> DEFINE n == Len(p.nickname)
  <2>1. p.nickname \in Strings /\ n < 2 * NameRoom
    BY DEF GoodProfiles, Profiles, Short
  <2>2. n \in Nat
    BY <2>1 DEF Strings
  <2> HIDE DEF n
  <2>3. n <= TextRoom
    BY <1>1, <1>2, <2>1, <2>2
  <2> QED
    BY <2>1, <2>2, <2>3 DEF n
<1> QED
  BY <1>1, <1>2, <1>3

\* d announces h, or that it goes.
Announces(d, h, p, r) ==
  /\ Signature(d, h, p, r)
  /\ \/ /\ \E kind \in {"BR_ENTRY", "BR_EXIT"} : Says(d, p.username, p.hostname, kind, Announced(h, p))
        /\ d.key = Nothing
     \/ Says(d, p.username, p.hostname, "BR_PROBE", <<"NUL">>) /\ d.key = Nothing
     \/ \E g \in GroupsOf[h] : Says(d, p.username, p.hostname, "GPINFO", Marked(g, << >>))

(* The same of an announcement.                                             *)
LEMMA AnnouncesIs ==
  ASSUME NEW d, NEW h \in Hosts, NEW p \in GoodProfiles, NEW r \in Nat, Announces(d, h, p, r)
  PROVE  Sent(d)
<1> DEFINE u == p.username
           v == p.hostname
<1>1. Signature(d, h, p, r) /\ d.from = h /\ d.by = p /\ Fine(u, v) /\ u = p.username /\ v = p.hostname
  BY FineNames DEF Announces, Signature
<1> HIDE DEF u, v
<1>2. "NUL" \in Signs /\ << >> \in Strings /\ GroupsOf[h] \subseteq Signs
  BY SignAssumption, GroupAssumption DEF Strings
<1>3. TextRoom \in Nat /\ Block \in Nat /\ 1 <= TextRoom /\ 4 + Block + 1 <= TextRoom
  BY SmallFits
<1>4. ASSUME NEW kind \in {"BR_ENTRY", "BR_EXIT"}, Says(d, u, v, kind, Announced(h, p)), d.key = Nothing
      PROVE  Sent(d)
  <2> DEFINE data == Announced(h, p)
  <2>1. data \in Strings /\ Len(data) < TextRoom
    BY AnnouncedIs
  <2>2. Len(data) \in Nat /\ Size(d, data) = Len(data)
    BY <1>4, <2>1, SizeIs DEF Strings
  <2>3. d.kind = kind /\ kind \in DOMAIN CommandOf /\ d.kind \notin {"ANSENTRY", "SENDMSG", "RECVMSG", "GPMSG"}
    BY <1>4 DEF Says, CommandOf
  <2>4. Names(d, u, v)
    BY <1>1, <2>3 DEF Names
  <2> HIDE DEF data
  <2>5. Len(data) <= TextRoom /\ Size(d, data) <= TextRoom
    BY <1>3, <2>1, <2>2
  <2>6. Content(d, data)
    BY <1>1, <2>3, <2>5 DEF Content, data
  <2>7. Says(d, u, v, kind, data)
    BY <1>4 DEF data
  <2> QED
    BY <1>1, <2>1, <2>3, <2>4, <2>6, <2>7, SentIs
<1>5. ASSUME Says(d, u, v, "BR_PROBE", <<"NUL">>), d.key = Nothing PROVE Sent(d)
  <2> DEFINE data == <<"NUL">>
             kind == "BR_PROBE"
  <2>1. data \in Strings /\ Len(data) = 1
    BY <1>2, OneIs DEF Strings
  <2>2. Says(d, u, v, kind, data)
    BY <1>5
  <2>3. d.kind = kind /\ kind \in DOMAIN CommandOf /\ d.kind \notin {"BR_ENTRY", "ANSENTRY", "SENDMSG", "RECVMSG", "GPMSG"}
    BY <2>2 DEF Says, CommandOf
  <2> HIDE DEF data, kind
  <2>4. Names(d, u, v)
    BY <1>1, <2>3 DEF Names
  <2>5. Size(d, data) = Len(data)
    BY <1>5, <2>1, SizeIs
  <2>6. Content(d, data)
    BY <1>3, <2>1, <2>3, <2>5 DEF Content
  <2> QED
    BY <1>1, <2>1, <2>2, <2>3, <2>4, <2>6, SentIs
<1>6. ASSUME NEW g \in GroupsOf[h], Says(d, u, v, "GPINFO", Marked(g, << >>)) PROVE Sent(d)
  <2> DEFINE data == Marked(g, << >>)
             kind == "GPINFO"
  <2>1. data \in Strings /\ Len(data) = 4
    <3>1. g \in Signs /\ Len(<< >>) = 0
      BY <1>2
    <3>2. data \in Strings /\ Len(data) = 4 + Len(<< >>)
      BY <1>2, <3>1, MarkedIs
    <3> QED
      BY <3>1, <3>2
  <2>2. Says(d, u, v, kind, data)
    BY <1>6
  <2>3. d.kind = kind /\ kind \in DOMAIN CommandOf /\ d.kind \notin {"BR_ENTRY", "ANSENTRY", "SENDMSG", "RECVMSG", "GPMSG"}
    BY <2>2 DEF Says, CommandOf
  <2> HIDE DEF data, kind
  <2>4. Names(d, u, v)
    BY <1>1, <2>3 DEF Names
  <2>5. Size(d, data) \in Nat /\ Size(d, data) <= Len(data) + Block + 1
    BY <2>1, SizeIs
  <2>6. Len(data) <= TextRoom /\ Size(d, data) <= TextRoom
    BY <1>3, <2>1, <2>5
  <2>7. Content(d, data)
    BY <2>3, <2>6 DEF Content
  <2> QED
    BY <1>1, <2>1, <2>2, <2>3, <2>4, <2>7, SentIs
<1> QED
  BY <1>4, <1>5, <1>6 DEF Announces, u, v

-----------------------------------------------------------------------------
\* What a step adds to the network is of the run before it or after it.
Fresh(d) ==
  /\ Sent(d)
  /\ \/ d.run = boot[d.from] /\ d.by.mac = profile[d.from].mac
     \/ d.run = boot'[d.from] /\ d.by.mac = profile'[d.from].mac

Grows ==
  /\ net \subseteq net'
  /\ \A d \in net' : d \in net \/ Fresh(d)
  /\ \A h \in Hosts : /\ boot[h] <= boot'[h]
                      /\ boot'[h] = boot[h] => profile'[h].mac = profile[h].mac

(* A step that sends only what it may.                                      *)
LEMMA NetStep ==
  ASSUME ProtocolTypeInv, ProtocolTypeInv', NetInv, RunInv, Grows
  PROVE  NetInv' /\ RunInv'
<1>1. NetInv'
  BY DEF NetInv, Grows, Fresh
<1>2. \A h \in Hosts : boot[h] \in Nat /\ boot'[h] \in Nat
  BY DEF ProtocolTypeInv
<1>3. \A d \in net' : d.from \in Hosts /\ d.run \in Nat
  BY <1>1 DEF NetInv, Sent
<1> DEFINE Old(d) == /\ d.run <= boot[d.from]
                     /\ d.run = boot[d.from] => d.by.mac = profile[d.from].mac
           New(d) == \/ d.run = boot[d.from] /\ d.by.mac = profile[d.from].mac
                     \/ d.run = boot'[d.from] /\ d.by.mac = profile'[d.from].mac
<1>4. \A d \in net' : (d \in net /\ Old(d)) \/ New(d)
  BY DEF Grows, Fresh, RunInv
<1>5. \A h \in Hosts : boot[h] <= boot'[h] /\ (boot'[h] = boot[h] => profile'[h].mac = profile[h].mac)
  BY DEF Grows
<1>6. ASSUME NEW d \in net'
      PROVE  d.run <= boot'[d.from] /\ (d.run = boot'[d.from] => d.by.mac = profile'[d.from].mac)
  BY <1>2, <1>3, <1>4, <1>5
<1>7. ASSUME NEW d \in net', NEW e \in net', d.from = e.from, d.run = e.run PROVE d.by.mac = e.by.mac
  <2>1. d \in net /\ e \in net => d.by.mac = e.by.mac
    BY <1>7 DEF RunInv
  <2>2. New(d) \/ New(e) => d.by.mac = e.by.mac
    BY <1>2, <1>3, <1>4, <1>5, <1>7
  <2> QED
    BY <1>4, <2>1, <2>2
<1> QED
  BY <1>1, <1>6, <1>7 DEF RunInv

\* An entry of a table is overwritten, or a row of it.
Overwritten(f, g, x, y, z) == g = [f EXCEPT ![x][y] = z]
Cleared(f, g, x, z) == g = [f EXCEPT ![x] = [p \in Hosts |-> z]]

(* What the two say of every entry of the table.                            *)
CellTaken(f, g, x, y, z) == \A a, b \in Hosts : g[a][b] = IF a = x /\ b = y THEN z ELSE f[a][b]
RowTaken(f, g, x, z) == \A a, b \in Hosts : g[a][b] = IF a = x THEN z ELSE f[a][b]

(* One entry of a table is overwritten and no other.                        *)
LEMMA OverwrittenIs ==
  ASSUME NEW f, NEW g, NEW x \in Hosts, NEW y, NEW z, IsTable(f), Overwritten(f, g, x, y, z)
  PROVE  IsTable(g) /\ CellTaken(f, g, x, y, z)
<1>1. PICK S : f \in [Hosts -> [Hosts -> S]]
  BY DEF IsTable
<1> DEFINE T == S \cup {z}
<1>2. f \in [Hosts -> [Hosts -> T]] /\ z \in T
  BY <1>1
<1> HIDE DEF T
<1>3. g \in [Hosts -> [Hosts -> T]] /\ \A a, b \in Hosts : g[a][b] = IF a = x /\ b = y THEN z ELSE f[a][b]
  BY <1>2 DEF Overwritten
<1> QED
  BY <1>3 DEF IsTable, CellTaken

(* One row of a table is overwritten and no other.                          *)
LEMMA ClearedIs ==
  ASSUME NEW f, NEW g, NEW x \in Hosts, NEW z, IsTable(f), Cleared(f, g, x, z)
  PROVE  IsTable(g) /\ RowTaken(f, g, x, z)
<1>1. PICK S : f \in [Hosts -> [Hosts -> S]]
  BY DEF IsTable
<1> DEFINE T == S \cup {z}
<1>2. f \in [Hosts -> [Hosts -> T]] /\ z \in T
  BY <1>1
<1> HIDE DEF T
<1>3. g \in [Hosts -> [Hosts -> T]] /\ \A a, b \in Hosts : g[a][b] = IF a = x THEN z ELSE f[a][b]
  BY <1>2 DEF Cleared
<1> QED
  BY <1>3 DEF IsTable, RowTaken

(* Every step keeps the types, and the settings those of the hosts.         *)
LEMMA ProtocolTypeStep ==
  ASSUME ProtocolTypeInv, ProtocolNext
  PROVE  ProtocolTypeInv'
<1> USE DEF ProtocolTypeInv
<1>1. ASSUME NEW h \in present, Restart(h) PROVE ProtocolTypeInv'
  <2>1. PICK p \in ProfilesOf[h] : profile' = [profile EXCEPT ![h] = p]
    BY <1>1 DEF Restart
  <2>2. h \in Hosts /\ p \in GoodProfiles
    BY <2>1, GoodSettings
  <2>3. profile' \in [Hosts -> GoodProfiles]
    BY <2>1, <2>2
  <2>4. boot' \in [Hosts -> Nat]
    BY <1>1, <2>2 DEF Restart
  <2>5. IsTable(known)' /\ IsTable(heard)'
    <3>1. Cleared(known, known', h, Nothing) /\ Cleared(heard, heard', h, Nothing)
      BY <1>1 DEF Restart, Cleared
    <3> QED
      BY <2>2, <3>1, ClearedIs
  <2> QED
    BY <1>1, <2>3, <2>4, <2>5 DEF Restart
<1>2. ASSUME NEW h \in present, Rename(h) PROVE ProtocolTypeInv'
  <2>1. PICK n \in Nicknames : profile' = [profile EXCEPT ![h].nickname = n]
    BY <1>2 DEF Rename
  <2>2. h \in Hosts /\ profile[h] \in GoodProfiles /\ n \in Strings /\ ~Contains(n, "NUL") /\ Len(n) < 2 * NameRoom
    BY TextAssumption, RoomAssumption
  <2>3. profile'[h] \in GoodProfiles
    <3> DEFINE q == profile[h]
    <3>1. q \in GoodProfiles
      BY <2>2
    <3>2. profile'[h] = [q EXCEPT !.nickname = n]
      BY <2>1, <2>2
    <3> HIDE DEF q
    <3>3. [q EXCEPT !.nickname = n] \in GoodProfiles
      <4> DEFINE z == [q EXCEPT !.nickname = n]
      <4>1. /\ z \in Profiles /\ z.username = q.username /\ z.hostname = q.hostname
            /\ z.nickname = n /\ z.category = q.category
        BY <2>2, <3>1 DEF GoodProfiles, Profiles
      <4> HIDE DEF z
      <4>2. Short(z)
        BY <2>2, <3>1, <4>1 DEF GoodProfiles, Short
      <4>3. z \in GoodProfiles
        BY <2>2, <3>1, <4>1, <4>2 DEF GoodProfiles
      <4> QED
        BY <4>3 DEF z
    <3> QED
      BY <3>2, <3>3
  <2>4. profile' \in [Hosts -> GoodProfiles]
    BY <2>1, <2>2, <2>3
  <2> QED
    BY <1>2, <2>4 DEF Rename
<1>3. ASSUME NEW h \in present, NEW p \in Hosts, NEW text \in Texts, SendText(h, p, text) PROVE ProtocolTypeInv'
  BY <1>3 DEF SendText
<1>4. ASSUME NEW h \in present, NEW g \in GroupsOf[h], NEW text \in Texts, SendGroupText(h, g, text)
      PROVE  ProtocolTypeInv'
  BY <1>4 DEF SendGroupText
<1>5. ASSUME NEW d \in net, NEW h \in present, Receive(h, d) PROVE ProtocolTypeInv'
  <2>1. PICK msg \in {Parsed(h, d)} :
          \/ UNCHANGED <<known, heard, got>>
          \/ ReceiveEntry(h, d, msg) \/ ReceiveText(h, d, msg) \/ ReceiveGroupText(h, d, msg)
    BY <1>5 DEF Receive, ReceiveFaulty, ReceiveWhole
  <2>2. UNCHANGED <<present, profile, boot>>
    BY <1>5 DEF Receive
  <2>3. IsTable(known)' /\ IsTable(heard)'
    <3>1. CASE UNCHANGED <<known, heard>>
      BY <3>1
    <3>2. ASSUME NEW user, known' = [known EXCEPT ![h][d.from] = user], heard' = [heard EXCEPT ![h][d.from] = d]
          PROVE  IsTable(known)' /\ IsTable(heard)'
      <4>1. h \in Hosts /\ Overwritten(known, known', h, d.from, user) /\ Overwritten(heard, heard', h, d.from, d)
        BY <3>2 DEF Overwritten
      <4> QED
        BY <4>1, OverwrittenIs
    <3>3. CASE EntryOfKnown(h, d, msg)
      BY <3>1, <3>2, <3>3 DEF EntryOfKnown
    <3>4. CASE EntryOfNew(h, d, msg)
      BY <3>2, <3>4 DEF EntryOfNew
    <3> QED
      BY <2>1, <3>1, <3>3, <3>4 DEF ReceiveEntry, ReceiveText, ReceiveGroupText
  <2>4. \E S : got' \in [Hosts -> S]
    <3>1. PICK S : got \in [Hosts -> S]
      OBVIOUS
    <3>2. ASSUME NEW z PROVE [got EXCEPT ![h] = @ \cup {z}] \in [Hosts -> S \cup {got[h] \cup {z}}]
      BY <3>1
    <3>3. got' = got \/ \E z : got' = [got EXCEPT ![h] = @ \cup {z}]
      BY <2>1 DEF ReceiveEntry, ReceiveText, ReceiveGroupText, Queue
    <3>4. ASSUME NEW z, got' = [got EXCEPT ![h] = @ \cup {z}] PROVE \E U : got' \in [Hosts -> U]
      <4>1. got' \in [Hosts -> S \cup {got[h] \cup {z}}]
        BY <3>2, <3>4
      <4> QED
        BY <4>1
    <3> QED
      BY <3>1, <3>3, <3>4
  <2> QED
    BY <2>2, <2>3, <2>4
<1> QED
  BY <1>1, <1>2, <1>3, <1>4, <1>5 DEF ProtocolNext

(* The commands.                                                            *)
LEMMA CommandsAre ==
  DOMAIN CommandOf = {"BR_PROBE", "BR_ENTRY", "BR_EXIT", "ANSENTRY", "SENDMSG", "RECVMSG", "GPMSG", "GPINFO"}
  BY DEF CommandOf

(* What the actions send.                                                   *)
LEMMA GrowStep ==
  ASSUME ProtocolTypeInv, ProtocolTypeInv', NetInv, ProtocolNext
  PROVE  Grows
<1>1. present \subseteq Hosts /\ profile \in [Hosts -> GoodProfiles] /\ boot \in [Hosts -> Nat]
      /\ profile' \in [Hosts -> GoodProfiles] /\ boot' \in [Hosts -> Nat]
  BY DEF ProtocolTypeInv
<1>2. ASSUME UNCHANGED boot, \A h \in Hosts : profile'[h].mac = profile[h].mac
      PROVE  \A h \in Hosts : /\ boot[h] <= boot'[h]
                              /\ boot'[h] = boot[h] => profile'[h].mac = profile[h].mac
  BY <1>1, <1>2
<1>3. ASSUME NEW d, NEW h \in Hosts, Signature(d, h, profile[h], boot[h]), Sent(d) PROVE Fresh(d)
  BY <1>3 DEF Fresh, Signature
<1>4. ASSUME NEW d, NEW h \in Hosts, Signature(d, h, profile'[h], boot'[h]), Sent(d) PROVE Fresh(d)
  BY <1>4 DEF Fresh, Signature
<1>5. ASSUME NEW h \in Hosts, NEW d, Announces(d, h, profile[h], boot[h]) PROVE Fresh(d)
  BY <1>1, <1>3, <1>5, AnnouncesIs DEF Announces
<1>6. ASSUME NEW h \in Hosts, NEW d \in Announcement(h)' PROVE Fresh(d)
  <2>1. Announces(d, h, profile'[h], boot'[h])
    <3>1. \/ d = Datagram(h, Hosts, "BR_ENTRY", EntryData(h))'
          \/ d = Datagram(h, Hosts, "BR_PROBE", <<"NUL">>)'
          \/ \E g \in GroupsOf[h] : d = Enciphered(h, "GPINFO", Marked(g, << >>))'
      BY <1>6 DEF Announcement
    <3>2. CASE d = Datagram(h, Hosts, "BR_ENTRY", EntryData(h))'
      BY <3>2 DEF Datagram, Signed, EntryData, Announces, Signature, Says, Body, Line, Announced, CategoryData
    <3>3. CASE d = Datagram(h, Hosts, "BR_PROBE", <<"NUL">>)'
      BY <3>3 DEF Datagram, Signed, Announces, Signature, Says, Body, Line
    <3>4. ASSUME NEW g \in GroupsOf[h], d = Enciphered(h, "GPINFO", Marked(g, << >>))'
          PROVE  Announces(d, h, profile'[h], boot'[h])
      BY <3>4 DEF Enciphered, Signed, Announces, Signature, Says, Body, Line
    <3> QED
      BY <3>1, <3>2, <3>3, <3>4
  <2> QED
    BY <1>1, <1>4, <2>1, AnnouncesIs DEF Announces
<1>7. ASSUME NEW h \in present, Restart(h) PROVE Grows
  <2>1. h \in Hosts /\ boot' = [boot EXCEPT ![h] = @ + 1]
    BY <1>1, <1>7 DEF Restart
  <2>2. \A x \in Hosts : boot[x] <= boot'[x] /\ (boot'[x] = boot[x] => profile'[x].mac = profile[x].mac)
    <3>1. PICK p \in ProfilesOf[h] : profile' = [profile EXCEPT ![h] = p]
      BY <1>7 DEF Restart
    <3> QED
      BY <1>1, <2>1, <3>1
  <2>3. \A d \in net' : d \in net \/ d \in Announcement(h)' \/ d = Datagram(h, Hosts, "BR_EXIT", EntryData(h))
    BY <1>7 DEF Restart
  <2>4. Announces(Datagram(h, Hosts, "BR_EXIT", EntryData(h)), h, profile[h], boot[h])
    BY DEF Datagram, Signed, EntryData, Announces, Signature, Says, Body, Line, Announced, CategoryData
  <2>5. net \subseteq net'
    BY <1>7 DEF Restart
  <2> QED
    BY <1>5, <1>6, <2>1, <2>2, <2>3, <2>4, <2>5 DEF Grows
<1>8. ASSUME NEW h \in present, Rename(h) PROVE Grows
  <2>1. h \in Hosts /\ UNCHANGED boot
    BY <1>1, <1>8 DEF Rename
  <2>2. \A x \in Hosts : profile'[x].mac = profile[x].mac
    <3>1. PICK n \in Nicknames : profile' = [profile EXCEPT ![h].nickname = n]
      BY <1>8 DEF Rename
    <3>2. ASSUME NEW p \in Profiles PROVE [p EXCEPT !.nickname = n].mac = p.mac
      BY DEF Profiles
    <3>3. \A x \in Hosts : profile[x] \in Profiles
      BY <1>1 DEF GoodProfiles
    <3> QED
      BY <1>1, <3>1, <3>2, <3>3
  <2>3. net \subseteq net' /\ \A d \in net' : d \in net \/ d \in Announcement(h)'
    BY <1>8 DEF Rename, Post
  <2> QED
    BY <1>2, <1>6, <2>1, <2>2, <2>3 DEF Grows
<1>9. ASSUME NEW d, UNCHANGED <<profile, boot>>, net' \in {net, net \cup {d}}, net' = net \/ Fresh(d) PROVE Grows
  BY <1>1, <1>2, <1>9 DEF Grows
<1>10. ASSUME UNCHANGED <<profile, boot, net>> PROVE Grows
  BY <1>1, <1>2, <1>10 DEF Grows
<1>11. ASSUME NEW h \in Hosts, NEW d, Signature(d, h, profile[h], boot[h]), NEW u, NEW v,
              NEW kind \in DOMAIN CommandOf, NEW data \in Strings, Says(d, u, v, kind, data),
              Fine(u, v), Names(d, u, v), Content(d, data)
       PROVE  Fresh(d)
  <2>1. Sent(d)
    BY <1>1, <1>11, SentIs
  <2> QED
    BY <1>3, <1>11, <2>1
<1>12. ASSUME NEW h \in present, NEW p \in Hosts, NEW text \in Texts, SendTextLegacy(h, p, text),
              UNCHANGED <<profile, boot>>
       PROVE  Grows
  <2> DEFINE d == Datagram(h, {p}, "SENDMSG", text)
             u == profile[h].username
             v == profile[h].hostname
             kind == "SENDMSG"
  <2>1. net' = net \cup {d} /\ h \in Legacy
    BY <1>12 DEF SendTextLegacy, Post
  <2>2. h \in Hosts /\ profile[h] \in GoodProfiles /\ text \in Strings /\ kind \in DOMAIN CommandOf
    BY <1>1, TextAssumption, CommandsAre
  <2>3. Signature(d, h, profile[h], boot[h]) /\ Says(d, u, v, kind, text)
    BY DEF Datagram, Signed, Signature, Says, Body, Line
  <2> HIDE DEF d
  <2>4. Fine(u, v)
    BY <2>2, FineNames
  <2>5. d.from \in Legacy /\ d.by = profile[h] /\ d.kind = "SENDMSG"
    BY <2>1, <2>3 DEF Signature, Says
  <2>6. Names(d, u, v)
    BY <2>5 DEF Names, Held
  <2>7. Content(d, text)
    BY <2>5 DEF Content, Typed, LegacyText
  <2> HIDE DEF u, v, kind
  <2>8. Fresh(d)
    BY <1>11, <2>2, <2>3, <2>4, <2>6, <2>7
  <2> QED
    BY <1>9, <1>12, <2>1, <2>8
<1>13. ASSUME NEW h \in present, NEW p \in Hosts, NEW text \in Texts, SendTextIfc(h, p, text),
              UNCHANGED <<profile, boot>>
       PROVE  Grows
  <2> DEFINE v == profile[h].hostname
             u == Held(h, profile[h].username, v)
             data == Append(text, "NUL")
             d == Signed(h, {p}, "SENDMSG", u, v, data, Nothing)
             kind == "SENDMSG"
  <2>1. CASE Len(text) < TextRoom
    <3>1. net' = net \cup {d} /\ h \notin Legacy
      BY <1>13, <2>1 DEF SendTextIfc, Post
    <3>2. h \in Hosts /\ profile[h] \in GoodProfiles /\ text \in Strings /\ data \in Strings /\ kind \in DOMAIN CommandOf
      BY <1>1, TextAssumption, EndedIs, CommandsAre
    <3>3. Len(data) <= TextRoom
      <4>1. text \in Seq(Signs) /\ Len(text) \in Nat /\ TextRoom \in Nat
        BY <3>2, SmallFits DEF Strings
      <4>2. Len(data) = Len(text) + 1
        BY <4>1
      <4> QED
        BY <2>1, <4>1, <4>2
    <3>4. Signature(d, h, profile[h], boot[h]) /\ Says(d, u, v, kind, data) /\ d.key = Nothing
      BY DEF Signed, Signature, Says, Body, Line
    <3> HIDE DEF d
    <3>5. Fine(u, v)
      BY <3>2, FineNames
    <3>6. d.from = h /\ d.by = profile[h] /\ d.kind = "SENDMSG"
      BY <3>4 DEF Signature, Says
    <3>7. Names(d, u, v)
      BY <3>6 DEF Names
    <3>8. Typed(d, data, text)
      BY <2>1 DEF Typed
    <3>9. Content(d, data)
      <4>1. Size(d, data) = Len(data)
        BY <3>2, <3>4, SizeIs
      <4> HIDE DEF data
      <4> QED
        BY <3>3, <3>6, <3>8, <4>1 DEF Content
    <3> HIDE DEF u, v, data, kind
    <3>10. Fresh(d)
      BY <1>11, <3>2, <3>4, <3>5, <3>7, <3>9
    <3> QED
      BY <1>9, <1>13, <3>1, <3>10
  <2>2. CASE ~(Len(text) < TextRoom)
    <3>1. net' = net
      BY <1>13, <2>2 DEF SendTextIfc, Post
    <3> QED
      BY <1>10, <1>13, <3>1
  <2> QED
    BY <2>1, <2>2
<1>14. ASSUME NEW h \in present, NEW p \in Hosts, NEW text \in Texts, SendText(h, p, text) PROVE Grows
  BY <1>12, <1>13, <1>14 DEF SendText
<1>15. ASSUME NEW h \in present, NEW g \in GroupsOf[h], NEW text \in Texts, SendGroupText(h, g, text) PROVE Grows
  <2> DEFINE data == Marked(g, text)
             d == Enciphered(h, "GPMSG", data)
             u == profile[h].username
             v == profile[h].hostname
             kind == "GPMSG"
  <2>1. UNCHANGED <<profile, boot>> /\ h \in Legacy
    BY <1>15 DEF SendGroupText
  <2>2. CASE Len(data) < TextRoom
    <3>1. net' = net \cup {d}
      BY <1>15, <2>2 DEF SendGroupText, Post
    <3>2. h \in Hosts /\ profile[h] \in GoodProfiles /\ g \in Signs /\ data \in Strings /\ kind \in DOMAIN CommandOf
      BY <1>1, TextAssumption, GroupAssumption, MarkedIs, CommandsAre
    <3>3. Len(data) <= TextRoom
      <4>1. Len(data) \in Nat /\ TextRoom \in Nat
        BY <3>2, SmallFits DEF Strings
      <4> HIDE DEF data
      <4> QED
        BY <2>2, <4>1
    <3>4. Signature(d, h, profile[h], boot[h]) /\ Says(d, u, v, kind, data) /\ d.key = profile[h].mac
      BY DEF Enciphered, Signed, Signature, Says, Body, Line
    <3> HIDE DEF d
    <3>5. Fine(u, v)
      BY <3>2, FineNames
    <3>6. d.from \in Legacy /\ d.by = profile[h] /\ d.kind = "GPMSG"
      BY <2>1, <3>4 DEF Signature, Says
    <3>7. Names(d, u, v)
      BY <3>6 DEF Names
    <3>8. \E a \in Signs, t \in Texts : data = Marked(a, t)
      BY <3>2
    <3> HIDE DEF data
    <3>9. Content(d, data)
      BY <3>3, <3>4, <3>6, <3>8 DEF Content, LegacyText
    <3> HIDE DEF u, v, kind
    <3>10. Fresh(d)
      BY <1>11, <3>2, <3>4, <3>5, <3>7, <3>9
    <3> QED
      BY <1>9, <2>1, <3>1, <3>10
  <2>3. CASE ~(Len(data) < TextRoom)
    <3>1. net' = net
      BY <1>15, <2>3 DEF SendGroupText, Post
    <3> QED
      BY <1>10, <2>1, <3>1
  <2> QED
    BY <2>2, <2>3
<1>16. ASSUME NEW d \in net, NEW h \in present, Receive(h, d) PROVE Grows
  <2> DEFINE msg == Parsed(h, d)
             p == profile[h]
  <2>1. h \in Hosts /\ p \in GoodProfiles /\ UNCHANGED <<profile, boot>>
    BY <1>1, <1>16 DEF Receive
  <2>2. CASE ReceiveEntry(h, d, msg)
    <3> DEFINE answer == Datagram(h, {d.from}, "ANSENTRY", p.nickname)
               u == p.username
               v == p.hostname
               data == p.nickname
               kind == "ANSENTRY"
    <3>1. net' \in {net, net \cup {answer}}
      BY <2>2 DEF ReceiveEntry, EntryOfKnown, EntryOfNew
    <3>2. Signature(answer, h, p, boot[h]) /\ Says(answer, u, v, kind, data) /\ answer.key = Nothing
      BY DEF Datagram, Signed, Signature, Says, Body, Line
    <3> HIDE DEF answer, p
    <3>3. data \in Strings /\ Len(data) <= TextRoom /\ Fine(u, v) /\ kind \in DOMAIN CommandOf
      BY <2>1, SmallFits, FineNames, CommandsAre
    <3>4. answer.kind = "ANSENTRY" /\ answer.by = p
      BY <3>2 DEF Signature, Says
    <3>5. Names(answer, u, v)
      BY <3>4 DEF Names
    <3>6. Content(answer, data)
      <4>1. Size(answer, data) = Len(data)
        BY <3>2, <3>3, SizeIs
      <4> QED
        BY <3>3, <3>4, <4>1 DEF Content
    <3> HIDE DEF u, v, data, kind
    <3>7. Fresh(answer)
      BY <1>11, <2>1, <3>2, <3>3, <3>5, <3>6 DEF p
    <3> QED
      BY <1>9, <2>1, <3>1, <3>7
  <2>3. CASE ReceiveText(h, d, msg)
    <3>1. msg.command % 256 = 32 /\ Sent(d)
      BY <2>3 DEF ReceiveText, NetInv
    <3>2. Understood(h, d)
      BY <3>1, KindIs
    <3>3. PICK u, v, text : Wrote(d, u, v, text) /\ Plain(u, v) /\ Read(h, d, u, v, text)
      BY <3>1, <3>2, SaysIs
    <3> DEFINE data == <<"packet">>
               kind == "RECVMSG"
               note == Signed(h, {d.from}, kind, u, v, data, Nothing)
    <3>4. msg.username = u /\ msg.hostname = v /\ Fine(u, v)
      BY <3>3 DEF Read, Wrote
    <3>5. net' \in {net, net \cup {note}}
      BY <2>3, <3>4 DEF ReceiveText
    <3>6. data \in Strings /\ Len(data) = 1 /\ kind \in DOMAIN CommandOf
      BY SignAssumption, OneIs, CommandsAre DEF Strings
    <3>7. Signature(note, h, p, boot[h]) /\ Says(note, u, v, kind, data) /\ note.key = Nothing
      BY DEF Signed, Signature, Says, Body, Line
    <3>8. kind = "RECVMSG"
      OBVIOUS
    <3> HIDE DEF note, data, msg, p, kind
    <3>9. note.kind = "RECVMSG"
      BY <3>7, <3>8 DEF Says
    <3>10. Names(note, u, v)
      BY <3>3, <3>9 DEF Names
    <3>11. Content(note, data)
      <4>1. Size(note, data) = Len(data)
        BY <3>6, <3>7, SizeIs
      <4> QED
        BY <3>6, <3>9, <4>1, SmallFits DEF Content
    <3>12. Fresh(note)
      BY <1>11, <2>1, <3>4, <3>6, <3>7, <3>10, <3>11 DEF p
    <3> QED
      BY <1>9, <2>1, <3>5, <3>12
  <2>4. CASE ReceiveGroupText(h, d, msg)
    BY <1>10, <2>1, <2>4 DEF ReceiveGroupText
  <2>5. CASE ReceiveFaulty(h, d, msg)
    BY <1>10, <2>1, <2>5 DEF ReceiveFaulty
  <2> QED
    BY <1>16, <2>2, <2>3, <2>4, <2>5 DEF Receive, ReceiveWhole
<1> QED
  BY <1>7, <1>8, <1>14, <1>15, <1>16 DEF ProtocolNext

(* Nobody learns anything of himself or of the others but from an entry.    *)
LEMMA KnownStep ==
  ASSUME ProtocolTypeInv, NetInv, KnownInv, ProtocolNext, Grows
  PROVE  KnownInv'
<1> DEFINE Ok(user, d, h, p, N) ==
             user # Nothing =>
               /\ d \in N /\ IsEntry(d, h, p)
               /\ StoredFrom(user, d, h, user.room)
               /\ \E e \in N : IsEntry(e, h, p) /\ RoomFor(user.room, e, h)
<1>1. \A h, p \in Hosts : Ok(known[h][p], heard[h][p], h, p, net')
  BY DEF KnownInv, Grows
<1>2. SUFFICES \A h, p \in Hosts : Ok(known'[h][p], heard'[h][p], h, p, net')
  BY DEF KnownInv
<1> HIDE DEF Ok
<1>3. CASE UNCHANGED <<known, heard>>
  BY <1>1, <1>3
<1>4. ASSUME NEW h \in present, Restart(h) PROVE \A x, p \in Hosts : Ok(known'[x][p], heard'[x][p], x, p, net')
  <2>1. ASSUME NEW x \in Hosts, NEW p \in Hosts
        PROVE  \/ known'[x][p] = Nothing
               \/ known'[x][p] = known[x][p] /\ heard'[x][p] = heard[x][p]
    <3>1. h \in Hosts /\ Cleared(known, known', h, Nothing) /\ Cleared(heard, heard', h, Nothing)
      BY <1>4 DEF Restart, Cleared, ProtocolTypeInv
    <3>2. IsTable(known) /\ IsTable(heard)
      BY DEF ProtocolTypeInv
    <3>3. RowTaken(known, known', h, Nothing)
      BY <3>1, <3>2, ClearedIs
    <3>4. RowTaken(heard, heard', h, Nothing)
      BY <3>1, <3>2, ClearedIs
    <3> QED
      BY <3>3, <3>4 DEF RowTaken
  <2> QED
    BY <1>1, <2>1 DEF Ok
<1>5. ASSUME NEW d \in net, NEW h \in present, NEW user,
             known' = [known EXCEPT ![h][d.from] = user], heard' = [heard EXCEPT ![h][d.from] = d],
             Ok(user, d, h, d.from, net')
      PROVE  \A x, p \in Hosts : Ok(known'[x][p], heard'[x][p], x, p, net')
  <2>1. ASSUME NEW x \in Hosts, NEW p \in Hosts
        PROVE  \/ x = h /\ p = d.from /\ known'[x][p] = user /\ heard'[x][p] = d
               \/ known'[x][p] = known[x][p] /\ heard'[x][p] = heard[x][p]
    <3>1. h \in Hosts /\ Overwritten(known, known', h, d.from, user) /\ Overwritten(heard, heard', h, d.from, d)
      BY <1>5 DEF Overwritten, ProtocolTypeInv
    <3>2. IsTable(known) /\ IsTable(heard)
      BY DEF ProtocolTypeInv
    <3>3. CellTaken(known, known', h, d.from, user)
      BY <3>1, <3>2, OverwrittenIs
    <3>4. CellTaken(heard, heard', h, d.from, d)
      BY <3>1, <3>2, OverwrittenIs
    <3> QED
      BY <3>3, <3>4 DEF CellTaken
  <2> QED
    BY <1>1, <1>5, <2>1
<1>6. ASSUME NEW d \in net, NEW h \in present, h \in d.to, ReceiveEntry(h, d, Parsed(h, d)),
             ~Overlaps(h, Parsed(h, d))
      PROVE  \A x, p \in Hosts : Ok(known'[x][p], heard'[x][p], x, p, net')
  <2> DEFINE msg == Parsed(h, d)
  <2>1. h \in Hosts /\ d.from \in Hosts /\ d \in net' /\ IsEntry(d, h, d.from)
    <3>1. Sent(d) /\ Parsed(h, d).command % 256 \in {1, 3}
      BY <1>6 DEF NetInv, ReceiveEntry
    <3> QED
      BY <1>6, <3>1, KindIs DEF IsEntry, Sent, ProtocolTypeInv, Grows
  <2>2. CASE EntryOfKnown(h, d, msg) /\ h \in Legacy
    <3> DEFINE old == known[h][d.from]
    <3>1. old # Nothing
      BY <2>2 DEF EntryOfKnown
    <3>2. PICK c \in CategoriesIn(h, msg) :
            /\ known' = [known EXCEPT ![h][d.from] = User(h, msg, c, old.room)]
            /\ heard' = [heard EXCEPT ![h][d.from] = d]
      BY <2>2 DEF EntryOfKnown
    <3> DEFINE user == User(h, msg, c, old.room)
    <3>3. user.room = old.room /\ StoredFrom(user, d, h, old.room)
      BY DEF User, StoredFrom
    <3>4. PICK e \in net' : IsEntry(e, h, d.from) /\ RoomFor(old.room, e, h)
      BY <1>1, <2>1, <3>1 DEF Ok
    <3>5. known' = [known EXCEPT ![h][d.from] = user]
      BY <3>2
    <3> HIDE DEF user, old
    <3>6. Ok(user, d, h, d.from, net')
      BY <2>1, <3>3, <3>4 DEF Ok
    <3> QED
      BY <1>5, <3>2, <3>5, <3>6
  <2>3. CASE EntryOfKnown(h, d, msg) /\ h \notin Legacy
    BY <1>3, <2>3 DEF EntryOfKnown
  <2>4. CASE EntryOfNew(h, d, msg)
    <3>1. PICK c \in CategoriesIn(h, msg) :
            known' = [known EXCEPT ![h][d.from] = [User(h, msg, c, Nothing) EXCEPT !.room = Lengths(User(h, msg, c, Nothing))]]
      BY <2>4 DEF EntryOfNew
    <3> DEFINE room == Lengths(User(h, msg, c, Nothing))
               user == User(h, msg, c, room)
    <3>2. [User(h, msg, c, Nothing) EXCEPT !.room = room] = user
      <4>1. ASSUME NEW r PROVE [User(h, msg, c, Nothing) EXCEPT !.room = r] = User(h, msg, c, r)
        BY DEF User
      <4> QED
        BY <4>1
    <3>3. user.room = room /\ StoredFrom(user, d, h, room) /\ RoomFor(room, d, h)
      <4>1. ASSUME NEW r PROVE User(h, msg, c, r).room = r
        BY DEF User
      <4> QED
        BY <4>1 DEF StoredFrom, RoomFor
    <3>4. known' = [known EXCEPT ![h][d.from] = user] /\ heard' = [heard EXCEPT ![h][d.from] = d]
      BY <2>4, <3>1, <3>2 DEF EntryOfNew
    <3> HIDE DEF user, room
    <3>5. Ok(user, d, h, d.from, net')
      BY <2>1, <3>3 DEF Ok
    <3> QED
      BY <1>5, <3>4, <3>5
  <2> QED
    BY <1>6, <2>2, <2>3, <2>4 DEF ReceiveEntry
<1>7. ASSUME NEW d \in net, NEW h \in present, Receive(h, d)
      PROVE  \A x, p \in Hosts : Ok(known'[x][p], heard'[x][p], x, p, net')
  <2>1. /\ h \in d.to
        /\ \/ ReceiveFaulty(h, d, Parsed(h, d))
           \/ ReceiveEntry(h, d, Parsed(h, d)) /\ ~Overlaps(h, Parsed(h, d))
           \/ ReceiveText(h, d, Parsed(h, d)) \/ ReceiveGroupText(h, d, Parsed(h, d))
    BY <1>7 DEF Receive, ReceiveWhole
  <2>2. ReceiveFaulty(h, d, Parsed(h, d)) \/ ReceiveText(h, d, Parsed(h, d)) \/ ReceiveGroupText(h, d, Parsed(h, d))
          => UNCHANGED <<known, heard>>
    BY DEF ReceiveFaulty, ReceiveText, ReceiveGroupText
  <2> QED
    BY <1>3, <1>6, <2>1, <2>2
<1>8. \A h \in present :
        /\ Rename(h) => UNCHANGED <<known, heard>>
        /\ \A p \in Hosts, text \in Texts : SendText(h, p, text) => UNCHANGED <<known, heard>>
        /\ \A g \in GroupsOf[h], text \in Texts : SendGroupText(h, g, text) => UNCHANGED <<known, heard>>
  BY DEF Rename, SendText, SendGroupText
<1> QED
  BY <1>3, <1>4, <1>7, <1>8 DEF ProtocolNext

(* A text that the end of a buffer cuts.                                    *)
LEMMA CutString ==
  ASSUME NEW t \in Strings, ~Contains(t, "NUL"), NEW data \in {t, Append(t, "NUL")}, NEW n \in Nat
  PROVE  CString(CutTo(data, n)) = CutTo(t, n)
<1> DEFINE l == Len(t)
           c == CutTo(t, n)
           w == CutTo(data, n)
<1>1. /\ t \in Seq(Signs) /\ l \in Nat /\ data \in Seq(Signs) /\ "NUL" \in Signs
      /\ Len(data) \in {l, l + 1} /\ \A j \in 1 .. l : data[j] = t[j] /\ t[j] # "NUL"
  BY SignAssumption DEF Strings, Contains
<1>2. /\ c \in Seq(Signs) /\ Len(c) = (IF l < n THEN l ELSE n)
      /\ (\A j \in 1 .. Len(c) : j \in 1 .. l /\ c[j] = t[j]) /\ (l <= n => c = t)
  BY <1>1, CutIs
<1>3. /\ w \in Seq(Signs) /\ Len(w) = (IF Len(data) < n THEN Len(data) ELSE n)
      /\ (\A j \in 1 .. Len(w) : w[j] = data[j]) /\ (Len(data) <= n => w = data)
  BY <1>1, CutIs
<1> HIDE DEF c, w
<1>4. CASE l < n
  <2>1. w = data /\ c = t
    BY <1>1, <1>2, <1>3, <1>4
  <2>2. CString(data) = t
    BY EndedIs, UnendedIs
  <2> QED
    BY <2>1, <2>2 DEF c, w
<1>5. CASE n <= l
  <2>1. Len(w) = n /\ Len(c) = n /\ \A j \in 1 .. n : j \in 1 .. l
    BY <1>1, <1>2, <1>3, <1>5
  <2>2. \A j \in 1 .. n : w[j] = t[j] /\ c[j] = t[j] /\ t[j] # "NUL"
    BY <1>1, <1>2, <1>3, <2>1
  <2>3. w = c
    BY <1>2, <1>3, <2>1, <2>2
  <2>4. ~Contains(c, "NUL")
    BY <2>1, <2>2 DEF Contains
  <2>5. CString(c) = c
    BY <2>4, UnendedIs
  <2> QED
    BY <2>3, <2>5 DEF c, w
<1> QED
  BY <1>1, <1>4, <1>5

\* What TextAsSent says of a text t that is queued for a user of h.
Shows(d, h, t) ==
  /\ d.from = t.from /\ h \in d.to
  /\ IF t.group = Nothing
     THEN LET line == <<"packet", ":">> \o Held(d.from, d.by.username, d.by.hostname) \o <<":">>
                      \o d.by.hostname \o <<":", "SENDMSG", ":">>
          IN  /\ d.kind = "SENDMSG"
              /\ \E s \in Texts :
                   /\ d.body \in {line \o u : u \in {s, Append(s, "NUL")}}
                   /\ t.text = IF h \in Legacy THEN CutTo(s, BodyRoom - Len(line)) ELSE s
                   /\ h \notin Legacy => Len(s) < TextRoom
     ELSE /\ d.kind = "GPMSG" /\ t.group \in GroupsOf[h] /\ t.text \in Texts
          /\ IsSuffix(Marked(t.group, t.text), d.body)

(* A text for one user.                                                     *)
LEMMA TextIs ==
  ASSUME NEW d, Sent(d), NEW h, h \in d.to, Parsed(h, d).command % 256 = 32, ~Overlong(h, d, Parsed(h, d))
  PROVE  Shows(d, h, [from |-> d.from, group |-> Nothing, text |-> CString(Parsed(h, d).data)])
<1>1. Understood(h, d) /\ d.kind = "SENDMSG" /\ d.kind # "RECVMSG"
  BY KindIs
<1>2. PICK u, v, data : Wrote(d, u, v, data) /\ Read(h, d, u, v, data)
  BY <1>1, SaysIs
<1>3. /\ u = Held(d.from, d.by.username, d.by.hostname) /\ v = d.by.hostname
      /\ Content(d, data) /\ data \in Strings /\ Fine(u, v) /\ u \in Strings /\ v \in Strings
      /\ d.body = Body(u, v, "SENDMSG", data) /\ "SENDMSG" \in DOMAIN CommandOf
  BY <1>1, <1>2 DEF Wrote, Names, IsBody
<1>4. PICK s \in Texts : Typed(d, data, s)
  BY <1>1, <1>3 DEF Content
<1>5. s \in Strings /\ ~Contains(s, "NUL") /\ data \in {s, Append(s, "NUL")}
  BY <1>4, TextAssumption DEF Typed
<1> DEFINE line == LineHead(u, v, "SENDMSG")
           n == BodyRoom - Len(line)
           r == [from |-> d.from, group |-> Nothing, text |-> CString(Parsed(h, d).data)]
<1>6. Len(line) = 6 + Len(u) + Len(v) /\ d.body = line \o data
  BY <1>3, HeadIs, HeadOf
<1>7. n \in Nat /\ n = BodyRoom - (6 + Len(u) + Len(v))
  BY <1>3, <1>6, RoomForNames
<1>8. Parsed(h, d).data = IF h \in Legacy THEN CutTo(data, n) ELSE data
  BY <1>2, <1>7 DEF Read, Taken
<1> HIDE DEF n
<1>9. CString(Parsed(h, d).data) = IF h \in Legacy THEN CutTo(s, n) ELSE s
  <2>1. CString(CutTo(data, n)) = CutTo(s, n)
    BY <1>5, <1>7, CutString
  <2>2. CString(data) = s
    BY <1>5, EndedIs, UnendedIs
  <2> QED
    BY <1>8, <2>1, <2>2
<1>10. h \notin Legacy => Len(s) < TextRoom
  <2> SUFFICES ASSUME h \notin Legacy PROVE Len(s) < TextRoom
    OBVIOUS
  <2>1. Parsed(h, d).data = data
    BY <1>8
  <2>2. ~(Size(d, data) > TextRoom) /\ ~(Len(data) = TextRoom /\ ~Contains(data, "NUL"))
    BY <2>1 DEF Overlong
  <2>3. Size(d, data) \in Nat /\ Len(data) <= Size(d, data) /\ TextRoom \in Nat /\ Len(data) \in Nat
    BY <1>3, SizeIs, SmallFits DEF Strings
  <2>4. Len(data) <= TextRoom
    BY <2>2, <2>3
  <2>5. s \in Seq(Signs) /\ Len(s) \in Nat
    BY <1>5 DEF Strings
  <2>6. CASE data = s
    BY <1>5, <2>2, <2>3, <2>4, <2>6
  <2>7. CASE data = Append(s, "NUL")
    <3>1. Len(data) = Len(s) + 1
      BY <2>5, <2>7
    <3> QED
      BY <2>3, <2>4, <2>5, <3>1
  <2> QED
    BY <1>5, <2>6, <2>7
<1>11. r.from = d.from /\ r.group = Nothing /\ r.text = IF h \in Legacy THEN CutTo(s, n) ELSE s
  BY <1>9
<1>12. d.body \in {line \o w : w \in {s, Append(s, "NUL")}}
  BY <1>5, <1>6
<1>13. line = <<"packet", ":">> \o Held(d.from, d.by.username, d.by.hostname) \o <<":">>
              \o d.by.hostname \o <<":", "SENDMSG", ":">>
  BY <1>3 DEF LineHead
<1>15. h \in d.to
  OBVIOUS
<1>14. Shows(d, h, r)
  <2> HIDE DEF r, line
  <2> DEFINE head == <<"packet", ":">> \o Held(d.from, d.by.username, d.by.hostname) \o <<":">>
                       \o d.by.hostname \o <<":", "SENDMSG", ":">>
  <2>1. head = line
    BY <1>13
  <2> HIDE DEF head
  <2>2. r.text = IF h \in Legacy THEN CutTo(s, BodyRoom - Len(head)) ELSE s
    BY <1>11, <2>1 DEF n
  <2>3. d.body \in {head \o w : w \in {s, Append(s, "NUL")}}
    BY <1>12, <2>1
  <2>4. \E w \in Texts :
          /\ d.body \in {head \o x : x \in {w, Append(w, "NUL")}}
          /\ r.text = IF h \in Legacy THEN CutTo(w, BodyRoom - Len(head)) ELSE w
          /\ h \notin Legacy => Len(w) < TextRoom
    BY <1>10, <2>2, <2>3
  <2> QED
    BY <1>1, <1>11, <1>15, <2>4 DEF Shows, head
<1> QED
  BY <1>14 DEF r

(* A text for a group, of which the sender has the MAC address mac.         *)
LEMMA GroupTextIs ==
  ASSUME NEW d, Sent(d), NEW h \in Hosts, h \in d.to, Parsed(h, d).command % 256 = 35, NEW mac
  PROVE  LET plain == Decrypt(d, Parsed(h, d), mac) IN
         /\ plain = Garbage => d.by.mac # mac
         /\ \A group \in GroupsOf[h] : Field(plain, "#", 2) = <<group>> /\ plain # Garbage =>
              Shows(d, h, [from |-> d.from, group |-> group, text |-> CString(Behind(plain, "#", 2))])
<1>1. Understood(h, d) /\ d.kind = "GPMSG" /\ d.kind # "SENDMSG"
  BY KindIs
<1>2. PICK u, v, data : Wrote(d, u, v, data) /\ Read(h, d, u, v, data)
  BY <1>1, SaysIs
<1>3. Content(d, data) /\ data \in Strings /\ Fine(u, v) /\ IsBody(d.body, u, v, d.kind, data)
  BY <1>2 DEF Wrote, IsBody
<1>4. d.key = d.by.mac /\ (\E g \in Signs, t \in Texts : data = Marked(g, t)) /\ Len(data) <= TextRoom
  BY <1>1, <1>3 DEF Content
<1>5. PICK g \in Signs, t \in Texts : data = Marked(g, t)
  BY <1>4
<1>6. t \in Strings /\ CString(t) = t
  BY TextAssumption, UnendedIs
<1>7. data # Garbage /\ \A group : Field(data, "#", 2) = <<group>> => group = g /\ Behind(data, "#", 2) = t
  BY <1>5, <1>6, MarkedIs
<1>8. Parsed(h, d).data = data
  BY <1>2, <1>3, <1>4, WholeIs DEF Read
<1> DEFINE plain == Decrypt(d, Parsed(h, d), mac)
<1>9. plain = Garbage => d.by.mac # mac
  BY <1>4, <1>7, <1>8 DEF Decrypt
<1>10. plain # Garbage => plain = data
  BY <1>8 DEF Decrypt
<1>11. IsSuffix(data, d.body)
  <2> DEFINE x == LineHead(u, v, d.kind)
  <2>1. u \in Strings /\ v \in Strings /\ d.kind \in DOMAIN CommandOf /\ data \in Seq(Signs)
    BY <1>3 DEF IsBody, Strings
  <2>2. x \in Seq(Signs) /\ d.body = x \o data
    BY <1>3, <2>1, HeadIs, HeadOf DEF IsBody
  <2> HIDE DEF x
  <2> QED
    BY <2>1, <2>2, SuffixIs
<1> HIDE DEF plain
<1>12. ASSUME NEW group \in GroupsOf[h], Field(plain, "#", 2) = <<group>>, plain # Garbage
       PROVE  Shows(d, h, [from |-> d.from, group |-> group, text |-> CString(Behind(plain, "#", 2))])
  <2>1. group = g /\ CString(Behind(plain, "#", 2)) = t /\ group # Nothing
    BY <1>6, <1>7, <1>10, <1>12, GroupAssumption
  <2> QED
    BY <1>1, <1>5, <1>11, <2>1 DEF Shows
<1> QED
  BY <1>9, <1>12 DEF plain

(* A text is queued for a user only as it was sent.                         *)
LEMMA TextStep ==
  ASSUME ProtocolTypeInv, NetInv, TextAsSent, ProtocolNext, Grows
  PROVE  TextAsSent'
<1>1. \A h \in Hosts : \A t \in got[h] : \E d \in net' : Shows(d, h, t)
  BY DEF TextAsSent, Shows, Grows
<1>2. SUFFICES \A h \in Hosts : \A t \in got'[h] : \E d \in net' : Shows(d, h, t)
  BY DEF TextAsSent, Shows
<1>3. ASSUME NEW h \in present, NEW d \in net, NEW t, Shows(d, h, t), got' = [got EXCEPT ![h] = @ \cup {t}]
      PROVE  \A x \in Hosts : \A s \in got'[x] : \E e \in net' : Shows(e, x, s)
  <2>1. \A x \in Hosts : \A s \in got'[x] : s \in got[x] \/ (x = h /\ s = t)
    <3>1. PICK S : h \in Hosts /\ got \in [Hosts -> S]
      BY DEF ProtocolTypeInv
    <3>2. ASSUME NEW x \in Hosts PROVE got'[x] = IF x = h THEN got[h] \cup {t} ELSE got[x]
      BY <1>3, <3>1
    <3> QED
      BY <3>2
  <2> QED
    BY <1>1, <1>3, <2>1 DEF Grows
<1>4. ASSUME NEW d \in net, NEW h \in present, h \in d.to, ReceiveText(h, d, Parsed(h, d)),
             ~Overlong(h, d, Parsed(h, d))
      PROVE  \A x \in Hosts : \A s \in got'[x] : \E e \in net' : Shows(e, x, s)
  <2> DEFINE t == [from |-> d.from, group |-> Nothing, text |-> CString(Parsed(h, d).data)]
  <2>1. got' = [got EXCEPT ![h] = @ \cup {t}]
    BY <1>4 DEF ReceiveText, Queue
  <2>2. Shows(d, h, t)
    BY <1>4, TextIs DEF NetInv, ReceiveText
  <2> HIDE DEF t
  <2> QED
    BY <1>3, <2>1, <2>2
<1>5. ASSUME NEW d \in net, NEW h \in present, h \in d.to, ReceiveGroupText(h, d, Parsed(h, d))
      PROVE  \A x \in Hosts : \A s \in got'[x] : \E e \in net' : Shows(e, x, s)
  <2> DEFINE plain == Decrypt(d, Parsed(h, d), known[h][d.from].mac)
  <2>1. CASE plain = Garbage
    BY <1>1, <1>5, <2>1 DEF ReceiveGroupText
  <2>2. CASE plain # Garbage
    <3>1. PICK group \in GroupsOf[h] :
            Field(plain, "#", 2) = <<group>> /\ Queue(h, d, group, CString(Behind(plain, "#", 2)))
      BY <1>5, <2>2 DEF ReceiveGroupText
    <3> DEFINE t == [from |-> d.from, group |-> group, text |-> CString(Behind(plain, "#", 2))]
    <3>2. got' = [got EXCEPT ![h] = @ \cup {t}]
      BY <3>1 DEF Queue
    <3>3. Sent(d) /\ Parsed(h, d).command % 256 = 35 /\ h \in Hosts
      BY <1>5 DEF NetInv, ReceiveGroupText, ProtocolTypeInv
    <3>4. Shows(d, h, t)
      BY <1>5, <2>2, <3>1, <3>3, GroupTextIs
    <3> HIDE DEF t
    <3> QED
      BY <1>3, <3>2, <3>4
  <2> QED
    BY <2>1, <2>2
<1>6. ASSUME UNCHANGED got PROVE \A x \in Hosts : \A s \in got'[x] : \E e \in net' : Shows(e, x, s)
  BY <1>1, <1>6
<1>7. ASSUME NEW d \in net, NEW h \in present, Receive(h, d)
      PROVE  \A x \in Hosts : \A s \in got'[x] : \E e \in net' : Shows(e, x, s)
  BY <1>4, <1>5, <1>6, <1>7 DEF Receive, ReceiveWhole, ReceiveFaulty, ReceiveEntry
<1>8. \A h \in present :
        /\ Restart(h) => UNCHANGED got
        /\ Rename(h) => UNCHANGED got
        /\ \A p \in Hosts, text \in Texts : SendText(h, p, text) => UNCHANGED got
        /\ \A g \in GroupsOf[h], text \in Texts : SendGroupText(h, g, text) => UNCHANGED got
  BY DEF Restart, Rename, SendText, SendGroupText
<1> QED
  BY <1>6, <1>7, <1>8 DEF ProtocolNext

-----------------------------------------------------------------------------
\* The names of a user of these settings, as h stores them.
Nickname(h, b) == IF b.nickname = << >> THEN Held(h, b.username, b.hostname) ELSE b.nickname

Hostname(h, b) == Held(h, b.hostname, Nickname(h, b))

Username(h, b) == Held(h, b.username, Hostname(h, b))

(* The names that are stored of an entry.                                   *)
LEMMA UserIs ==
  ASSUME NEW d, NEW h, NEW p, Sent(d), IsEntry(d, h, p)
  PROVE  LET msg == Parsed(h, d)  b == d.by IN
         /\ NicknameIn(h, msg) = Nickname(h, b) /\ HostnameIn(h, msg) = Hostname(h, b)
         /\ UsernameIn(h, msg) = Username(h, b)
         /\ Nickname(h, b) \in Strings /\ Hostname(h, b) \in Strings /\ Username(h, b) \in Strings
         /\ Nickname(h, b) = IF b.nickname = << >> THEN Username(h, b) ELSE b.nickname
<1> DEFINE msg == Parsed(h, d)
           b == d.by
<1>1. Understood(h, d) /\ d.kind \in Entries /\ ~Overlaps(h, msg) /\ b \in GoodProfiles
  BY DEF IsEntry, Sent
<1>2. /\ msg.username = b.username /\ msg.hostname = b.hostname /\ CString(msg.data) = b.nickname
      /\ msg.command % 256 \in {1, 3}
  <2>1. msg.command = CommandOf[d.kind]
    BY <1>1, SaysIs DEF Read
  <2>2. 257 % 256 = 1 /\ 259 % 256 = 3
    OBVIOUS
  <2>3. CommandOf[d.kind] \in {257, 259}
    BY <1>1 DEF Entries, CommandOf
  <2> HIDE DEF msg
  <2>4. msg.command % 256 \in {1, 3}
    BY <2>1, <2>2, <2>3
  <2> QED
    BY <1>1, <2>4, EntrySays DEF msg
<1> HIDE DEF msg, b
<1>3. NicknameIn(h, msg) = Nickname(h, b)
  BY <1>2 DEF NicknameIn, Nickname
<1>4. HostnameIn(h, msg) = Hostname(h, b)
  BY <1>2, <1>3 DEF HostnameIn, Hostname
<1>5. UsernameIn(h, msg) = Username(h, b)
  BY <1>2, <1>4 DEF UsernameIn, Username
<1>6. b.username \in Strings /\ b.hostname \in Strings /\ b.nickname \in Strings
  BY <1>1 DEF GoodProfiles, Profiles
<1>7. Nickname(h, b) \in Strings
  BY <1>6, HeldIs DEF Nickname
<1>8. Hostname(h, b) \in Strings
  BY <1>6, <1>7, HeldIs DEF Hostname
<1>9. Username(h, b) \in Strings
  BY <1>6, <1>8, HeldIs DEF Username
<1>10. ASSUME b.nickname = << >> PROVE Nickname(h, b) = Username(h, b)
  <2>1. Nickname(h, b) = Held(h, b.username, b.hostname)
    BY <1>10 DEF Nickname
  <2>2. CASE h \in Legacy \/ Len(b.username) < NameRoom
    BY <2>1, <2>2 DEF Username, Held
  <2>3. CASE h \notin Legacy /\ ~(Len(b.username) < NameRoom)
    <3>1. Len(b.username) >= NameRoom
      <4>1. Len(b.username) \in Nat /\ NameRoom \in Nat
        BY <1>6, Rooms DEF Strings
      <4> QED
        BY <2>3, <4>1
    <3>2. ~(Len(b.hostname) >= NameRoom)
      BY <1>1, <1>2, <1>10, <2>3, <3>1 DEF Overlaps
    <3>3. Len(b.hostname) < NameRoom
      <4>1. Len(b.hostname) \in Nat /\ NameRoom \in Nat
        BY <1>6, Rooms DEF Strings
      <4> QED
        BY <3>2, <4>1
    <3>4. Hostname(h, b) = b.hostname
      BY <3>3 DEF Hostname, Held
    <3> QED
      BY <2>1, <3>4 DEF Username
  <2> QED
    BY <2>2, <2>3
<1>11. Nickname(h, b) = IF b.nickname = << >> THEN Username(h, b) ELSE b.nickname
  BY <1>10 DEF Nickname
<1> QED
  BY <1>3, <1>4, <1>5, <1>7, <1>8, <1>9, <1>11 DEF msg, b

(* An entry that does not fit where another one of the same settings was.   *)
LEMMA RoomIs ==
  ASSUME NEW d, NEW e, NEW h, NEW p, Sent(d), Sent(e), IsEntry(d, h, p), IsEntry(e, h, p),
         d.kind = "BR_ENTRY", e.kind = "BR_ENTRY", d.by = e.by,
         NEW room, RoomFor(room, e, h), NEW c \in CategoriesIn(h, Parsed(h, d))
  PROVE  Fits(User(h, Parsed(h, d), c, room), room)
<1>1. PICK f \in CategoriesIn(h, Parsed(h, e)) : room = Lengths(User(h, Parsed(h, e), f, Nothing))
  BY DEF RoomFor
<1> DEFINE b == d.by
           user == User(h, Parsed(h, d), c, room)
           first == User(h, Parsed(h, e), f, Nothing)
<1>2. c = f /\ c \in {NoGroup, CategorySent(p, b)}
  BY EntrySays DEF IsEntry, Entries
<1>3. CategorySent(p, b) \in Strings
  <2>1. b \in GoodProfiles
    BY DEF Sent
  <2>2. b.category \in Seq(Signs)
    BY <2>1 DEF GoodProfiles, Profiles, Strings
  <2>3. Header(b) + 1 \in Nat
    BY <2>1, HeaderIs
  <2> QED
    BY <2>2, <2>3, CutIs DEF CategorySent, Strings
<1>4. /\ user.username = Username(h, b) /\ user.hostname = Hostname(h, b)
      /\ user.nickname = Nickname(h, b) /\ user.category = c
  BY UserIs DEF User
<1>5. /\ first.username = Username(h, b) /\ first.hostname = Hostname(h, b)
      /\ first.nickname = Nickname(h, b) /\ first.category = c
  BY <1>2, UserIs DEF User
<1>6. \A s \in {Username(h, b), Hostname(h, b), Nickname(h, b), c} : Len(s) \in Nat
  <2>1. \A s \in Strings : Len(s) \in Nat
    BY DEF Strings
  <2>2. Len(NoGroup) = 2
    BY DEF NoGroup
  <2> QED
    BY <1>2, <1>3, <2>1, <2>2, UserIs
<1>7. room = Lengths(first)
  BY <1>1
<1> HIDE DEF user, first, b
<1>8. \A x \in {"username", "hostname", "nickname", "category"} : user[x] = first[x] /\ Len(user[x]) \in Nat
  BY <1>4, <1>5, <1>6
<1>9. DOMAIN room = {"username", "hostname", "nickname", "category"} /\ \A x \in DOMAIN room : room[x] = Len(first[x])
  BY <1>7 DEF Lengths
<1>10. Fits(user, room)
  BY <1>8, <1>9 DEF Fits
<1> QED
  BY <1>10 DEF user

(* What ifc has no room for.                                                *)
LEMMA OverlongIs ==
  ASSUME NEW d, Sent(d), NEW h, Overlong(h, d, Parsed(h, d))
  PROVE  h \notin Legacy /\ (LegacyText(d) \/ ~Plain(d.by.username, d.by.hostname))
<1> SUFFICES ASSUME ~LegacyText(d), Plain(d.by.username, d.by.hostname) PROVE FALSE
  BY DEF Overlong
<1>1. h \notin Legacy
  BY DEF Overlong
<1>2. PICK u, v, data : Wrote(d, u, v, data)
  BY DEF Sent
<1>3. /\ IsBody(d.body, u, v, d.kind, data) /\ Fine(u, v) /\ Names(d, u, v) /\ Content(d, data)
      /\ data \in Strings /\ d.by \in GoodProfiles
  BY <1>2 DEF Wrote, IsBody, Sent
<1>4. Plain(u, v)
  <2>1. d.by.username \in Strings /\ d.by.hostname \in Strings
    BY <1>3 DEF GoodProfiles, Profiles
  <2>2. Contains(Held(d.from, d.by.username, d.by.hostname), ":") =>
          Contains(d.by.username, ":") \/ Contains(d.by.hostname, ":")
    BY <2>1, HeldIs
  <2> QED
    BY <1>3, <2>2 DEF Names, Plain
<1>5. Readable(u, v) /\ 6 + Len(u) + Len(v) <= BodyRoom
  BY <1>3, RoomForNames DEF Fine
<1>6. Parsed(h, d).data = data /\ Parsed(h, d).command = CommandOf[d.kind]
  <2> DEFINE k == d.kind
  <2>1. IsBody(d.body, u, v, k, data)
    BY <1>3
  <2> HIDE DEF k
  <2>2. \/ ~Plain(u, v) /\ Parsed(h, d).command = 0
        \/ /\ Plain(u, v)
           /\ Parsed(h, d) = [mac |-> d.mac, username |-> u, hostname |-> v,
                              command |-> CommandOf[k], data |-> Taken(h, u, v, data)]
    BY <1>5, <2>1, ParsedIs
  <2> QED
    BY <1>1, <1>4, <2>2 DEF Taken, k
<1>7. Size(d, data) <= TextRoom /\ Size(d, data) \in Nat /\ TextRoom \in Nat
  BY <1>3, SizeIs, SmallFits DEF Content
<1>8. ~(Size(d, data) > TextRoom)
  BY <1>7
<1>9. Parsed(h, d).command % 256 = 32 /\ ~Contains(data, "NUL")
  BY <1>6, <1>8 DEF Overlong
<1>10. d.kind = "SENDMSG"
  BY <1>9, KindIs
<1>11. PICK t \in Texts : Typed(d, data, t)
  BY <1>3, <1>10 DEF Content
<1>12. data = t \o <<"NUL">> \o << >>
  <2>1. t \in Seq(Signs) /\ "NUL" \in Signs
    BY TextAssumption, SignAssumption DEF Strings
  <2>2. data = Append(t, "NUL")
    BY <1>10, <1>11 DEF Typed, LegacyText
  <2>3. ASSUME NEW c \in Signs PROVE t \o <<c>> \o << >> = Append(t, c)
    BY <2>1
  <2> QED
    BY <2>1, <2>2, <2>3
<1>13. Contains(data, "NUL")
  <2>1. t \in Strings /\ ~Contains(t, "NUL") /\ << >> \in Strings /\ "NUL" \in Signs
    BY TextAssumption, SignAssumption DEF Strings
  <2> QED
    BY <1>12, <2>1, FirstIs
<1> QED
  BY <1>9, <1>13

(* Which entry is copied from what it is copied to.                         *)
LEMMA OverlapsIs ==
  ASSUME NEW d, Sent(d), NEW h, Overlaps(h, Parsed(h, d))
  PROVE  /\ h \notin Legacy /\ d.kind \in Entries /\ d.by.nickname = << >>
         /\ Len(d.by.username) >= NameRoom /\ Len(d.by.hostname) >= NameRoom
<1>1. /\ h \notin Legacy /\ Parsed(h, d).command % 256 \in {1, 3} /\ CString(Parsed(h, d).data) = << >>
      /\ Len(Parsed(h, d).username) >= NameRoom /\ Len(Parsed(h, d).hostname) >= NameRoom
  BY DEF Overlaps
<1>2. Understood(h, d) /\ d.kind \in Entries
  BY <1>1, KindIs
<1>3. /\ Parsed(h, d).username = d.by.username /\ Parsed(h, d).hostname = d.by.hostname
      /\ CString(Parsed(h, d).data) = d.by.nickname
  BY <1>2, EntrySays
<1> QED
  BY <1>1, <1>2, <1>3

(* What goes wrong at a host follows from what it heard before.             *)
LEMMA FaultStep ==
  ASSUME ProtocolTypeInv, NetInv, RunInv, KnownInv, ProtocolNext, Grows,
         GarbledOnlyAcrossRestart, OverrunExplained
  PROVE  GarbledOnlyAcrossRestart' /\ OverrunExplained'
<1>1. fault = Nothing
  BY DEF ProtocolNext
<1>2. ASSUME fault' = Nothing PROVE GarbledOnlyAcrossRestart' /\ OverrunExplained'
  BY <1>2 DEF GarbledOnlyAcrossRestart, OverrunExplained, RewriteExplained, OverlongExplained, OverlapExplained
<1>3. ASSUME NEW d \in net, NEW h \in present, h \in d.to, ReceiveEntry(h, d, Parsed(h, d)),
             ~Overlaps(h, Parsed(h, d))
      PROVE  GarbledOnlyAcrossRestart' /\ OverrunExplained'
  <2> DEFINE p == d.from
             old == known[h][p]
             msg == Parsed(h, d)
  <2>1. CASE UNCHANGED fault
    BY <1>1, <1>2, <2>1
  <2>2. CASE EntryOfKnown(h, d, msg) /\ h \in Legacy
    <3>1. old # Nothing
      BY <2>2 DEF EntryOfKnown
    <3>2. PICK c \in CategoriesIn(h, msg) :
            fault' = IF Fits(User(h, msg, c, old.room), old.room) THEN Nothing
                     ELSE Fault("overrun", h, d, heard[h][p])
      BY <2>2 DEF EntryOfKnown
    <3>3. CASE Fits(User(h, msg, c, old.room), old.room)
      BY <1>2, <3>2, <3>3
    <3>4. CASE ~Fits(User(h, msg, c, old.room), old.room)
      <4>1. /\ fault'.what = "overrun" /\ fault'.at = h /\ fault'.by = d
            /\ fault'.what \notin {"garbled", "overlong", "overlaps"}
        BY <3>2, <3>4 DEF Fault
      <4>2. Sent(d) /\ IsEntry(d, h, p) /\ h \in Hosts /\ p \in Hosts
        <5>1. Sent(d) /\ Parsed(h, d).command % 256 \in {1, 3}
          BY <1>3 DEF NetInv, ReceiveEntry
        <5> QED
          BY <1>3, <5>1, KindIs DEF IsEntry, Sent, ProtocolTypeInv
      <4> HIDE DEF old, msg
      <4>3. PICK e \in net : IsEntry(e, h, p) /\ RoomFor(old.room, e, h)
        BY <3>1, <4>2 DEF KnownInv, old
      <4>4. Sent(e)
        BY DEF NetInv
      <4>5. d.kind = "ANSENTRY" \/ e.kind = "ANSENTRY" \/ e.by # d.by
        <5> SUFFICES ASSUME d.kind = "BR_ENTRY", e.kind = "BR_ENTRY", e.by = d.by PROVE FALSE
          BY <4>2, <4>3 DEF IsEntry, Entries
        <5> DEFINE room == old.room
        <5>1. RoomFor(room, e, h) /\ ~Fits(User(h, Parsed(h, d), c, room), room) /\ c \in CategoriesIn(h, Parsed(h, d))
          BY <3>4, <4>3 DEF msg
        <5> HIDE DEF room
        <5> QED
          BY <4>2, <4>3, <4>4, <5>1, RoomIs
      <4>6. \E x \in {d, e} : x.from = p /\ h \in x.to /\ (x.by # d.by \/ x.kind = "ANSENTRY")
        BY <4>2, <4>3, <4>5 DEF IsEntry
      <4>7. d \in net' /\ e \in net'
        BY DEF Grows
      <4> QED
        BY <4>1, <4>6, <4>7 DEF GarbledOnlyAcrossRestart, OverrunExplained, RewriteExplained, OverlongExplained, OverlapExplained
    <3> QED
      BY <3>3, <3>4
  <2> QED
    BY <1>3, <2>1, <2>2 DEF ReceiveEntry, EntryOfKnown, EntryOfNew
<1>4. ASSUME NEW d \in net, NEW h \in present, h \in d.to, ReceiveGroupText(h, d, Parsed(h, d))
      PROVE  GarbledOnlyAcrossRestart' /\ OverrunExplained'
  <2> DEFINE p == d.from
             mac == known[h][p].mac
             plain == Decrypt(d, Parsed(h, d), mac)
             e == heard[h][p]
  <2>1. CASE plain # Garbage
    BY <1>1, <1>2, <1>4, <2>1 DEF ReceiveGroupText
  <2>2. CASE plain = Garbage
    <3>1. fault' = Fault("garbled", h, d, e)
      BY <1>4, <2>2 DEF ReceiveGroupText
    <3>2. Sent(d) /\ Parsed(h, d).command % 256 = 35 /\ h \in Hosts /\ p \in Hosts /\ known[h][p] # Nothing
      BY <1>4 DEF NetInv, Sent, ReceiveGroupText, ProtocolTypeInv
    <3>3. e \in net /\ IsEntry(e, h, p) /\ StoredFrom(known[h][p], e, h, known[h][p].room)
      BY <3>2 DEF KnownInv
    <3>4. Sent(e)
      BY <3>3 DEF NetInv
    <3>5. mac = e.by.mac
      <4>1. Parsed(h, e).mac = e.by.mac
        BY <3>3, <3>4, EntrySays DEF IsEntry
      <4> QED
        BY <3>3, <4>1 DEF StoredFrom, User
    <3> HIDE DEF mac, e
    <3>6. d.by.mac # mac
      BY <1>4, <2>2, <3>2, GroupTextIs
    <3>7. d.run # e.run
      BY <3>3, <3>5, <3>6 DEF RunInv, IsEntry
    <3>8. /\ fault'.what = "garbled" /\ fault'.by = d /\ fault'.before = e
          /\ fault'.what \notin {"overrun", "overlong", "overlaps"}
      BY <3>1 DEF Fault
    <3> QED
      BY <3>5, <3>6, <3>7, <3>8 DEF GarbledOnlyAcrossRestart, OverrunExplained, RewriteExplained, OverlongExplained, OverlapExplained
  <2> QED
    BY <2>1, <2>2
<1>5. ASSUME NEW d \in net, NEW h \in present, ReceiveFaulty(h, d, Parsed(h, d))
      PROVE  GarbledOnlyAcrossRestart' /\ OverrunExplained'
  <2>1. Sent(d) /\ d \in net'
    BY DEF NetInv, Grows
  <2>2. CASE Overlong(h, d, Parsed(h, d)) /\ fault' = Fault("overlong", h, d, Nothing)
    <3>1. /\ fault'.what = "overlong" /\ fault'.at = h /\ fault'.by = d
          /\ fault'.what \notin {"garbled", "overrun", "overlaps"}
      BY <2>2 DEF Fault
    <3>2. h \notin Legacy /\ (LegacyText(d) \/ ~Plain(d.by.username, d.by.hostname))
      BY <2>1, <2>2, OverlongIs
    <3>3. OverlongExplained'
      BY <2>1, <3>1, <3>2 DEF OverlongExplained, LegacyText, Plain
    <3> QED
      BY <3>1, <3>3 DEF GarbledOnlyAcrossRestart, OverrunExplained, RewriteExplained, OverlapExplained
  <2>3. CASE Overlaps(h, Parsed(h, d)) /\ fault' = Fault("overlaps", h, d, Nothing)
    <3>1. /\ fault'.what = "overlaps" /\ fault'.at = h /\ fault'.by = d
          /\ fault'.what \notin {"garbled", "overrun", "overlong"}
      BY <2>3 DEF Fault
    <3>2. /\ h \notin Legacy /\ d.kind \in Entries /\ d.by.nickname = << >>
          /\ Len(d.by.username) >= NameRoom /\ Len(d.by.hostname) >= NameRoom
      BY <2>1, <2>3, OverlapsIs
    <3>3. OverlapExplained'
      BY <3>1, <3>2 DEF OverlapExplained, Entries
    <3> QED
      BY <3>1, <3>3 DEF GarbledOnlyAcrossRestart, OverrunExplained, RewriteExplained, OverlongExplained
  <2> QED
    BY <1>5, <2>2, <2>3 DEF ReceiveFaulty
<1>6. ASSUME NEW d \in net, NEW h \in present, Receive(h, d)
      PROVE  GarbledOnlyAcrossRestart' /\ OverrunExplained'
  BY <1>1, <1>2, <1>3, <1>4, <1>5, <1>6 DEF Receive, ReceiveWhole, ReceiveText
<1>7. ASSUME NEW h \in present, NEW text, fault' = Fault("typed", h, text, Nothing)
      PROVE  GarbledOnlyAcrossRestart' /\ OverrunExplained'
  <2>1. fault'.what = "typed"
    BY <1>7 DEF Fault
  <2>2. fault'.what \notin {"garbled", "overrun", "overlong", "overlaps"}
    BY <2>1
  <2> QED
    BY <2>2 DEF GarbledOnlyAcrossRestart, OverrunExplained, RewriteExplained, OverlongExplained, OverlapExplained
<1>8. ASSUME NEW h \in present, NEW q \in Hosts, NEW text \in Texts, SendText(h, q, text)
      PROVE  GarbledOnlyAcrossRestart' /\ OverrunExplained'
  <2>1. UNCHANGED fault \/ fault' = Fault("typed", h, text, Nothing)
    BY <1>8 DEF SendText, SendTextLegacy, SendTextIfc
  <2> QED
    BY <1>1, <1>2, <1>7, <2>1
<1>9. ASSUME NEW h \in present, NEW g \in GroupsOf[h], NEW text \in Texts, SendGroupText(h, g, text)
      PROVE  GarbledOnlyAcrossRestart' /\ OverrunExplained'
  <2>1. UNCHANGED fault \/ fault' = Fault("typed", h, text, Nothing)
    BY <1>9 DEF SendGroupText
  <2> QED
    BY <1>1, <1>2, <1>7, <2>1
<1>10. \A h \in present : (Restart(h) => UNCHANGED fault) /\ (Rename(h) => UNCHANGED fault)
  BY DEF Restart, Rename
<1> QED
  BY <1>1, <1>2, <1>6, <1>8, <1>9, <1>10 DEF ProtocolNext

-----------------------------------------------------------------------------
(* The programs start with an empty user list and have announced themselves.*)
LEMMA ProtocolInvInit == ProtocolInit => ProtocolInv
<1> SUFFICES ASSUME ProtocolInit PROVE ProtocolInv
  OBVIOUS
<1>1. present \subseteq Hosts
  BY NetworkAssumption DEF ProtocolInit
<1>2. profile \in [Hosts -> GoodProfiles]
  <2>1. \A h \in Hosts : profile[h] \in GoodProfiles
    BY GoodSettings DEF ProtocolInit
  <2>2. profile \in [Hosts -> UNION {ProfilesOf[h] : h \in Hosts}]
    BY DEF ProtocolInit
  <2> QED
    BY <2>1, <2>2
<1>3. boot \in [Hosts -> Nat] /\ \A h \in Hosts : boot[h] = 1
  BY DEF ProtocolInit
<1>4. ProtocolTypeInv
  BY <1>1, <1>2, <1>3 DEF ProtocolInit, ProtocolTypeInv, IsTable
<1>5. ASSUME NEW d \in net
      PROVE  Sent(d) /\ d.from \in Hosts /\ d.run = boot[d.from] /\ d.by = profile[d.from]
  <2>1. PICK h \in present : d \in Announcement(h)
    BY DEF ProtocolInit
  <2>2. \/ d = Datagram(h, Hosts, "BR_ENTRY", EntryData(h))
        \/ d = Datagram(h, Hosts, "BR_PROBE", <<"NUL">>)
        \/ \E g \in GroupsOf[h] : d = Enciphered(h, "GPINFO", Marked(g, << >>))
    BY <2>1 DEF Announcement
  <2>3. Announces(d, h, profile[h], boot[h])
    <3>1. CASE d = Datagram(h, Hosts, "BR_ENTRY", EntryData(h))
      BY <3>1 DEF Datagram, Signed, EntryData, Announces, Signature, Says, Body, Line, Announced, CategoryData
    <3>2. CASE d = Datagram(h, Hosts, "BR_PROBE", <<"NUL">>)
      BY <3>2 DEF Datagram, Signed, Announces, Signature, Says, Body, Line
    <3>3. ASSUME NEW g \in GroupsOf[h], d = Enciphered(h, "GPINFO", Marked(g, << >>))
          PROVE  Announces(d, h, profile[h], boot[h])
      BY <3>3 DEF Enciphered, Signed, Announces, Signature, Says, Body, Line
    <3> QED
      BY <2>2, <3>1, <3>2, <3>3
  <2> QED
    BY <1>1, <1>2, <1>3, <2>3, AnnouncesIs DEF Announces, Signature
<1>6. NetInv
  BY <1>5 DEF NetInv
<1>7. RunInv
  BY <1>3, <1>5 DEF RunInv
<1>8. KnownInv /\ TextAsSent
  BY DEF KnownInv, TextAsSent, ProtocolInit
<1>9. GarbledOnlyAcrossRestart /\ OverrunExplained
  BY DEF GarbledOnlyAcrossRestart, OverrunExplained, RewriteExplained, OverlongExplained, OverlapExplained, ProtocolInit
<1> QED
  BY <1>4, <1>6, <1>7, <1>8, <1>9 DEF ProtocolInv

(* Every step keeps the invariant.                                          *)
LEMMA ProtocolInvNext == ProtocolInv /\ [ProtocolNext]_protocolVars => ProtocolInv'
<1> SUFFICES ASSUME ProtocolInv, [ProtocolNext]_protocolVars PROVE ProtocolInv'
  OBVIOUS
<1>1. CASE ProtocolNext
  <2>1. ProtocolTypeInv'
    BY <1>1, ProtocolTypeStep DEF ProtocolInv
  <2>2. Grows
    BY <1>1, <2>1, GrowStep DEF ProtocolInv
  <2>3. NetInv' /\ RunInv'
    BY <2>1, <2>2, NetStep DEF ProtocolInv
  <2>4. KnownInv'
    BY <1>1, <2>2, KnownStep DEF ProtocolInv
  <2>5. TextAsSent'
    BY <1>1, <2>2, TextStep DEF ProtocolInv
  <2>6. GarbledOnlyAcrossRestart' /\ OverrunExplained'
    BY <1>1, <2>2, FaultStep DEF ProtocolInv
  <2> QED
    BY <2>1, <2>3, <2>4, <2>5, <2>6 DEF ProtocolInv
<1>2. CASE UNCHANGED protocolVars
  <2> USE <1>2 DEF protocolVars
  <2>1. ProtocolTypeInv' /\ NetInv'
    BY DEF ProtocolInv, ProtocolTypeInv, NetInv, IsTable
  <2>2. RunInv' /\ KnownInv'
    BY DEF ProtocolInv, RunInv, KnownInv
  <2>3. TextAsSent' /\ GarbledOnlyAcrossRestart' /\ OverrunExplained'
    BY DEF ProtocolInv, TextAsSent, GarbledOnlyAcrossRestart, OverrunExplained,
           RewriteExplained, OverlongExplained, OverlapExplained
  <2> QED
    BY <2>1, <2>2, <2>3 DEF ProtocolInv
<1> QED
  BY <1>1, <1>2

(* The inductive invariant: every datagram is a line of fields of settings  *)
(* that its sender had, as they fit the arrays of a msg_t; the settings of  *)
(* one run have one MAC address; and each user that is stored is what the   *)
(* entry heard last says, read through those arrays.                        *)
THEOREM ProtocolInvariance == ProtocolSpec => []ProtocolInv
<1>1. ProtocolInv /\ [ProtocolNext]_protocolVars => ProtocolInv'
  BY ProtocolInvNext
<1> QED
  BY <1>1, ProtocolInvInit, PTL DEF ProtocolSpec

(* What is stored of an entry is what its sender announced.                 *)
LEMMA KnownFollows == ProtocolInv => KnownAsAnnounced
<1> SUFFICES ASSUME ProtocolInv, NEW h \in Hosts, NEW p \in Hosts, known[h][p] # Nothing
             PROVE  LET said == heard[h][p].by  user == known[h][p] IN
                    /\ user.mac = said.mac
                    /\ user.username = Held(h, said.username, user.hostname)
                    /\ user.hostname = Held(h, said.hostname, user.nickname)
                    /\ user.nickname = IF said.nickname = << >> THEN user.username ELSE said.nickname
                    /\ IF heard[h][p].kind = "ANSENTRY" THEN user.category = NoGroup \/ h \in Legacy
                       ELSE user.category = IF said.category = << >> THEN NoGroup
                                            ELSE IF p \in Legacy THEN said.category
                                            ELSE CutTo(said.category, Header(said) + 1)
  BY DEF KnownAsAnnounced
<1> DEFINE d == heard[h][p]
           user == known[h][p]
           b == d.by
<1>1. d \in net /\ IsEntry(d, h, p) /\ StoredFrom(user, d, h, user.room)
  BY DEF ProtocolInv, KnownInv
<1>2. Sent(d) /\ Understood(h, d) /\ d.kind \in Entries /\ d.from = p
  BY <1>1 DEF ProtocolInv, NetInv, IsEntry
<1> HIDE DEF d
<1>3. PICK c \in CategoriesIn(h, Parsed(h, d)) : user = User(h, Parsed(h, d), c, user.room)
  BY <1>1 DEF StoredFrom
<1>4. Parsed(h, d).mac = b.mac
  BY <1>2, EntrySays
<1>5. /\ user.username = Username(h, b) /\ user.hostname = Hostname(h, b) /\ user.nickname = Nickname(h, b)
      /\ user.mac = b.mac /\ user.category = c
      /\ Nickname(h, b) = IF b.nickname = << >> THEN Username(h, b) ELSE b.nickname
  BY <1>1, <1>2, <1>3, <1>4, UserIs DEF User
<1>6. d.kind = "ANSENTRY" => c = NoGroup \/ h \in Legacy
  BY <1>2, <1>3, EntrySays
<1>7. d.kind # "ANSENTRY" => c = IF b.category = << >> THEN NoGroup ELSE CategorySent(p, b)
  BY <1>2, <1>3, EntrySays DEF Entries
<1> HIDE DEF user
<1>8. user.username = Held(h, b.username, user.hostname) /\ user.hostname = Held(h, b.hostname, user.nickname)
  BY <1>5 DEF Username, Hostname
<1>9. CASE d.kind = "ANSENTRY"
  BY <1>5, <1>6, <1>8, <1>9 DEF d, user
<1>10. CASE d.kind # "ANSENTRY"
  BY <1>5, <1>7, <1>8, <1>10 DEF d, user, CategorySent
<1> QED
  BY <1>9, <1>10

(* A user list of either program says of a host what that host said of      *)
(* itself in the entry that was heard last, whatever was lost, duplicated or*)
(* reordered, and a name that has a ':' is never heard of.  In ifc a user or*)
(* host name that has no room in a msg_t runs on into the field behind it,  *)
(* and of a category it sends as much as the header of its entry is long.   *)
THEOREM UsersAreKnown == ProtocolSpec => []KnownAsAnnounced
  BY ProtocolInvariance, KnownFollows, PTL

(* A text that is queued was sent by the host it is shown for, to this user *)
(* or to the group it is shown in, whichever signs it contains; it is whole *)
(* but for a private text that is longer than what the legacy listener takes*)
(* of a datagram, and no text reaches the user of ifc that does not fit the *)
(* data of a msg_t.                                                         *)
THEOREM TextsAreSent == ProtocolSpec => []TextAsSent
<1>1. ProtocolInv => TextAsSent
  BY DEF ProtocolInv
<1> QED
  BY <1>1, ProtocolInvariance, PTL

(* A group text cannot be deciphered only if its sender was restarted with  *)
(* another MAC address between its entry and the text.                      *)
THEOREM GarbledIsExplained == ProtocolSpec => []GarbledOnlyAcrossRestart
<1>1. ProtocolInv => GarbledOnlyAcrossRestart
  BY DEF ProtocolInv
<1> QED
  BY <1>1, ProtocolInvariance, PTL

(* The room of a user entry is overrun only by an entry of other settings or*)
(* by one that follows an answer; that of a msg_t only by a text of a legacy*)
(* host, or behind a name that has a ':'; and a string is copied onto itself*)
(* only for a host without a nickname whose names both do not fit.          *)
THEOREM OverrunIsExplained == ProtocolSpec => []OverrunExplained
<1>1. ProtocolInv => OverrunExplained
  BY DEF ProtocolInv
<1> QED
  BY <1>1, ProtocolInvariance, PTL
=============================================================================
