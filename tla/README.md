# Verification of iFreeChat

iFreeChat is a chat program for a local network (the FeiQ / IP Messenger
protocol over UDP, with a GTK 2 interface). The repository holds two programs:

- the **legacy** program, `src/*.c`, with one receiver thread beside GTK;
- the **ifc** program, `ifc/`, a rewrite with a memory pool, message queues and
  three threads beside GTK.

They talk to each other on the network. This directory models both in TLA+,
checks the models with TLC and proves what matters most of thirteen of them with
TLAPS. Paths below are relative to the root of the repository.

## The system

### Threads

| program | thread | code | waits for |
|---|---|---|---|
| ifc | main / GTK | `ifc/src/ifreechat.c` main, callbacks of `ifc/src/ui/` | events, the joins |
| ifc | listen | `ifc/lib/net/udp_socket.c` udp_listen_routine | datagrams, at most 100 ms |
| ifc | send | `ifc/lib/net/udp_socket.c` udp_send_routine | `send_que` |
| ifc | message loop | `ifc/src/handle_message.c` process_message_loop | `recv_que` |
| legacy | main / GTK | `src/ifreechat.c` main, callbacks of `src/window.c`, `src/treeview.c`, `src/chatbox.c` | events |
| legacy | receiver | `src/udp_socket.c` udp_listen_routine, `src/process_msg.c` | datagrams, the locks |

### Components

| component | state | operations | modules |
|---|---|---|---|
| message queue (ifc) | `queue_t`: entry, head, tail | create, put, get, destroy | `MsgQueue`, promise in `LossyFifo`, `MsgQueueProofs` |
| network threads (ifc) | two queues, two shutdown flags, the threads | start, send, receive, stop, join | `UdpNetwork`, `UdpNetworkProofs` |
| memory pool (ifc) | chunks, mutex | alloc, free, destroy | `MemPool`, `UdpNetworkProofs` |
| hash table (both) | buckets | create, insert, find, delete, destroy | `HashTable`, promise in `KeyMap`, `ContactsProofs` |
| contact list (ifc) | user list, category list, their tables, the rows of the tree | on_entry_callback | `Contacts`, `ContactsProofs` |
| presence protocol | the user list of each host, datagrams under way | announce, answer, restart | `Presence`, `PresenceProofs` |
| what datagrams say (both) | the wire format, user entries | build, parse, dispatch | `FeiqProtocol`, `ContactsProofs` |
| start and end (legacy) | socket, flags, tree, tray icon, the lock of GTK | every step of main, the receiver | `LegacyStart`, `LegacyStartProofs` |
| chat delivery (legacy) | `mlist`, `ulist`, windows, five mutexes, the GTK lock | receive, tray click, double click, close | `LegacyChat`, `LegacyChatProofs` |
| chat delivery (ifc) | `mlist`, windows, blinking | insert_chat_msg, alert, tray click, double click, close | `IfcChat`, `Dlist`, `IfcChatProofs` |
| blowfish (both) | tables, the block, the buffer | encipher, decipher, Encrypt, Decrypt | `BlowFish`, `GroupCipher` |
| emotion pictures (both) | the message, the text view | replace_emotion, insert_msg_with_emotion_to_textview | `Emotions` |
| group texts | from typing to showing | on_send_gpmessage, on_buddy_sendgpmsg | `GroupText`, `GroupTextProofs` |
| configuration (both) | the file, `ifreechat_t`, the nickname handler | read_cfg, update_cfg | `Settings`, `LegacyStartProofs` |
| groups, encodings, widgets, unused source | | | see *Not modelled* |

Datagrams go from the listen thread through `recv_que` to the message loop,
which parses them and calls a handler for their command: an entry message
changes the contact list, a chat message goes to a window or to the list of
unread messages. The GTK thread sends through `send_que`. In the legacy program
the receiver thread does all this itself and takes the lock of GTK to change
the interface.

### What is hard

- The queues have no lock: their correctness rests on the order of single
  memory accesses and on there being one producer and one consumer. When `main`
  destroys a queue it becomes a second producer, and frees memory that other
  threads are using.
- Nothing tells the caller that a full queue dropped an item, be it the NULL
  that is to wake a consumer.
- Hosts start, stop and restart at any time, with other settings, and UDP
  loses, duplicates and reorders datagrams.
- The two threads of the legacy program take the locks of the windows and of
  GTK in opposite orders, and pass messages by pointer while both use them. The
  receiver starts before there are windows and ends after they are gone.
- In the ifc program the list of unread messages has no lock at all.
- The state of a contact is spread over a list, a hash table, a counter and a
  row of the tree, which the branches of one handler update separately; the
  strings of a known user are copied over those of another length.
- A settings file is rewritten in place, and the program may end meanwhile.
- Strings are copied into arrays of fixed size without a test, from the settings,
  from what is typed and from datagrams.

## Modules

- **`LossyFifo`**: the abstract queue. `Accept`, `Refuse` (only when full),
  `Take`, and the returns of both calls.
- **`MsgQueue`**: the ring of `ifc/lib/queue/queue.c` behind
  `ifc/lib/net/msg_queue.c`. `PutCheck`, `PutWrite`, `PutAdvance` are the three
  shared accesses of queue_push, `GetPoll`, `GetRead`, `GetAdvance` those of
  queue_pop; a poll of the empty ring only sleeps. The refinement mapping reads
  the abstract fifo off the slots between head and tail.
- **`UdpNetwork`**: composes the ring (`recv_que`, with the producers listen and
  main) and the fifo (`send_que`) with the four threads, from `udp_start` to the
  return of `main`. Freed queue memory keeps being used by the other threads;
  the pool keeps its chunk until the threads are joined, so that the model keeps
  its contents.
- **`MemPool`**: the pool of `ifc/lib/mem_pool/mem_pool.c`. A call is a step,
  since all calls are made under one mutex; `outcome` records a call that
  returned without unlocking it, after which every other call waits for ever.
  Sizes and addresses are in words of a small chunk, and sums wrap round at
  `Modulus`. `FirstWords` is what callers have written into the first word of
  their data, from which mem_pool_free takes the size of the block.
- **`KeyMap`**, **`HashTable`**: the map that a hash table promises, in which a
  key may cost its rivals their entries, and the table of `hash.c`, of both
  programs. A bucket is its head and the ring behind it; `Insert` overwrites the
  head and links the new entry to itself, so that it loses what was there.
  `pooled` tells the copy that gives entries of malloc to the memory pool.
- **`Contacts`**: the contact list of the ifc program. Its tables are those of
  `HashTable` without deletion, of which a bucket is what was inserted last.
- **`Presence`**: hosts of both programs, their user lists and the datagrams
  between them, on a network that is reliable or one that loses and duplicates,
  with as many starts of each host as `network` allows.
- **`FeiqProtocol`**: every datagram that either program writes, field by field,
  and what either reads from it: names that hold the signs that end a field, an
  empty category, the group mark, the key of a group text. A host restarts with
  other settings while old datagrams of it are under way. The arrays that the
  strings go through have their size: `NameRoom` (32, of the names in a `msg_t` of
  ifc, `ifc/include/net/msg.h`), `TextRoom` (1024, of its data and of `plain` and
  `cipher` in `src/gchatbox.c`), `BodyRoom` (about 8160, what the buffer of the
  legacy listener leaves behind the version), and `Prefix` (49, the length of an
  entry of ifc without its names) is in the size with which ifc sends one
  (`ifc/src/feiq/feiq.c:75`). `Held` is what is read of a name that does not fit:
  its beginning and the field behind it, which was written later. `fault` ends a
  behaviour that copies a string over a shorter one, over the end of an array or
  over itself, or that deciphers a text with the key of another run.
- **`LegacyStart`**: the two threads of the legacy program from the first line
  of `main` to its last. `ReadCfg` to `show_window` are the steps of main, of which
  main looks at the result of read_cfg only, although others may fail; `Receive`
  to `Unlock` are those of the receiver, up to the row that it makes under the
  lock of GTK. A `fault` is the first use of a pointer that is not set.
- **`LegacyChat`**: the receiver and GTK threads of the legacy program around
  the list of unread messages, the chat windows and their locks. A run of the
  model ends at the first use of freed memory or of a user that is NULL
  (`undefined`), and the properties say when that can happen.
- **`Dlist`**, **`IfcChat`**: rings of nodes whose links two threads change, and
  the message loop and the GTK thread of the ifc program around `mlist`, the
  windows and the tray icon. Every access of one thread to what the other
  changes is a step of its own, each link of the ring included.
- **`BlowFish`**: the rounds of `blowfish.c`, one a step, with any tables and any
  function of them. **`GroupCipher`**: `Encrypt` and `Decrypt` around them, with
  the padding, the chaining and the return values; `span` is how far their
  pointers move for a block, which depends on the width of the build.
- **`Emotions`**: replace_emotion piece by piece, and the loop that inserts texts
  and pictures. **`GroupText`** composes it with `GroupCipher`: what is typed is
  enciphered, sent, deciphered, cut at its first NUL and shown.
- **`Settings`**: a settings file as its elements, read_cfg and update_cfg on it,
  and the nickname handler with the argument that it frees at its first call.
  `Start` is main up to its windows, `Rename` the handler up to xmlSaveFormatFile,
  `Saved`, `SavedPartly` and `Crash` what becomes of the file, `Freed` the rest of the
  handler with its strcpy. `ReadBack` is what XML makes of a typed nickname
  (xmlNodeSetContent takes an `&` for the begin of a reference), `TooLong` says
  which values have no room in their array, and `Part` is a value that broke off.
  The tag of a group is an element of its own, for which new_group is called.
  What was not written is `Unset`; a start that uses it may end in a fault or go on
  with what is in memory. So may one that has written over the end of an array, of
  which `overrun` keeps that nothing is known of its settings any more.

The modules whose names end in `Proofs` hold the theorems, each about the module
that it is named after. `GroupTextProofs` also has those about `Emotions`,
`GroupCipher` and `BlowFish`, which a group text goes through; `ContactsProofs`
those about `HashTable`, through which contacts are found, and about `FeiqProtocol`,
whose entry messages they come with; `LegacyStartProofs` those about `Settings`,
which main reads first; `UdpNetworkProofs` those about `MemPool`, from which the
datagrams come. The state of a C structure is a variable for
each field that matters, named like it; an action is named for the function or
for its part between two accesses of shared state, and `map` in `PROJECT.json`
gives the lines of each definition. What a property needs and the program does
not keep (what came in which order, who wrote first) is in variables of its own.

Each module also holds, marked *Mutant*, wrong variants of some of its
definitions: with one of them in place of the definition the property named
for it in `PROJECT.json` fails, which shows that the property depends on it.

## Runs

| run | instance | shows |
|---|---|---|
| `msg_queue` | ring of 3 slots, 3 items, one producer | the ring implements the fifo (safety and liveness), the threads never meet at a slot, no junk is returned |
| `udp_network` | rings of 3 slots, 2 datagrams, 3 packets, both outcomes of the second pthread_create | order, no NULL or junk dereferenced, joins before frees, one late datagram at most, shutdown completes or hangs in one named way |
| `mem_pool` | a chunk of 6 words, blocks of 2 and 3, right, small and huge first words, 2 chunks, 4 blocks held | blocks are disjoint and the room is accounted for unless a size is read too large; a free that leaves the mutex locked |
| `contacts` | 3 addresses (two share a bucket), 3 categories (two share one), 5 entry messages | counts, titles, rows and entries agree; duplicates come from collisions only |
| `contacts_rows` | the same | a violation: see *Findings* |
| `presence` | 2 legacy hosts with 2 starts each on a reliable network; 2 with 2 and 1 starts on a faulty one; 2 legacy hosts and an ifc host, of which two are of one user | discovery, with the asymmetry of the two programs; the one reason to miss a host; each host answers an address at most once, whatever is repeated |
| `legacy_start` | 3 users, 2 categories, 4 datagrams, every failure of main, memory that was zero or not | when a bad pointer is used, who has no row, that the threads keep apart, that unread messages blink, that the program ends |
| `legacy_chat` | 2 users, 1 group, 3 messages | order in the windows; the only causes of misuse, loss and hanging |
| `ifc_chat` | 2 users, 3 messages, 2 windows | the list without a lock keeps its order unless its last message is taken while another is appended; each message has one fate; the icon blinks |
| `feiq` | 2 legacy hosts, a legacy and an ifc host, or 2 ifc hosts; one restarts with other settings; a name with a `:`, a nickname with one, a text with the group mark in it; names of 2 to 4 signs where 3 are too many, a category longer than the rest of its entry, texts on both sides of 30 and of 51 | what is known of a host is what it said, as far as it fits; texts keep every sign; keys differ only across a restart; what overruns a string or an array |
| `group_text` | texts of up to 4 pieces of 9 kinds, both widths of the build, bytes of 4 bits, blocks of 2 | a text that is padded, chained, sent, cut at its NUL and replaced is shown as it was typed |
| `settings` | 4 files (as the program comes; without nickname and fields of groups; with two nicknames; with a long name), 3 nicknames (one fits, one has an `&`, one is too long), 3 starts, 3 renames, writes that end early | the file keeps what the user wrote and agrees with the program; what causes a fault |

Bounds. Six words hold three small or two large blocks, so that blocks are freed
at the bottom and in the middle in every order, and two chunks suffice for a
block of a replaced one. The ring of 3 slots is full, empty and wraps round within a few steps;
the proofs cover every size. Two datagrams fill `recv_que`, so that the NULL of
`destroy_msg_queue` is refused in some behaviours and accepted in others; three
packets overflow `send_que`. Five entry messages let a user leave a category,
come back and meet a collision. One restart of each host is what
`MissedOnlyAfterRestart` is about; two hosts suffice for it, since hosts answer
each other in pairs. Three users in two categories let two share one that came
too early while the third has a row that is written over for one of them; four
datagrams let each announce himself and one come again or send a text.
Three messages allow two of one chat and one of another on a list of unread
messages, which is what the search in the tray handlers is about; two windows
are one that is closed and one that is opened after it. The settings of the
restarting host differ in each way that the wire tells apart: the key, an empty
category, a longer one, a name with a separator. The rooms of `feiq` are 3, 30 and
51 signs, with a `Prefix` of 0 and blocks of 2, as `RoomAssumption` wants them: the
names of the ifc hosts and of the restarting one lie on both sides of the first,
the marked texts of the group on both sides of the second, with one that fits
only until it is enciphered, and the longer text fills the third. One post is
enough, since a datagram is never used up. Four pieces hold a code between
two texts and the longest number that a `#` can stand before, with one
piece over; sizes of up to six bytes are padded by a whole block and by a part of
one. A third start reads the file that the second one has changed; three
changes in a run are one with the argument of the handler, one with the freed
argument that happens to read as before, and one behind that.

`CHECK_DEADLOCK FALSE` is set where the system may stop: `UdpNetwork` when main
has returned (or hangs after a failed start), `GroupText` when the text is shown,
the others when their bounds are reached or, in `LegacyChat` and `IfcChat`, memory
was misused or the threads are deadlocked, or, in `MemPool`, the mutex stays
locked or the pool is destroyed. `LegacyStart` stops only at its end or at a
fault, where `Halted` lets it stutter, so that its deadlocks are checked.

Fairness. Threads are scheduled by the operating system, so that each has weak
fairness on its own steps; in `LegacyChat` the claims are about the GTK thread,
which waits for a mutex only while the receiver holds it. In `LegacyStart` both
threads have it; `CloseEnds` does not rest on which of them gets the lock of GTK,
since main holds it when the window is closed and does not want it again. Nobody
has to type, click, quit or send, so that those actions have none. In `Presence` a
host that started announces itself and handles what arrives. `MemPool`,
`Contacts`, `IfcChat`, `FeiqProtocol`, `GroupText` and `Settings` are checked for
safety and have none.

### Findings

`contacts_rows` is a run that ends in a violation: a user who changes category
keeps the row under the old one. The comment that announces the deletion of the
row (`ifc/src/handle_message.c`) has no code.

Other defects met on the way, which the properties name as the only exceptions
to what they claim, or which are in the hazards of `PROJECT.json`:

- on_entry_callback compares the announced category with that of the user's
  *first* entry (`ifc/src/handle_message.c:90`). A user who changes category and
  comes back is not moved back; `MovedToAnnounced` speaks of all the others.
- tray_icon_activated of the legacy program drops an unread message whenever a
  window of its kind is open (`src/window.c:130`), since the variable it tests
  for NULL is the loop variable of the search; `LostBehindWindow`.
- mem_pool_free computes the address of a block's header and then reads the size
  from the data behind it: of a packet, which the send thread gives back once it
  is sent, that is `mtime`, the seconds since 1970. It is more than the 8 MB of a
  chunk, so that the whole chunk is given out again while blocks of it are in
  use; `Disjoint` says that this, a size that is too large, is the only way to
  lose disjointness. A free of another chunk's block leaves the mutex locked.
- hash_insert overwrites its bucket; `DuplicatesByCollision`.
- Encrypt and Decrypt count blocks of 8 bytes and move by two `unsigned long`. In
  a build for 64 bits Decrypt writes behind its buffer (`src/blowfish.c:217`; the
  comment at 191 says that it may be of the size of the input), and the end of a
  text is not enciphered at all. The committed configuration is one for 32 bits.
- A user who sends longer strings than before, or an answer after an entry,
  overruns what was allocated for the first ones; `OverrunExplained`. A group text
  that arrives after its sender restarted with another MAC address is deciphered
  with the wrong key; `GarbledOnlyAcrossRestart`.
- The receiver of the legacy program starts before the windows are made and goes
  on after they are destroyed; `FaultExplained` and `RowsExplained` say what that
  costs. The lock inversion of its chat windows is in `CallbackReturns`.
- feiq_parse_packet copies the names and the text of a datagram into the arrays of
  a `msg_t` (`ifc/src/feiq/feiq.c:189`, `196`, `207`), half as long as those of the
  settings: a name of 32 bytes runs on into the next field, and a text of a legacy
  host of more than 1024 bytes, or a group text that the padding makes so long,
  writes behind the data. An entry of ifc is sent with the length of its header where that of
  its category is meant (`feiq.c:75`), so that a long category is cut. A text of
  1024 bytes overruns `data` (`ifc/src/handle_message.c:146`) in ifc and, with the
  mark of a group, `plain` in the legacy program (`src/gchatbox.c:130`).
  `KnownAsAnnounced`, `TextAsSent` and `OverrunExplained`.
- The second change of the nickname in a run uses freed memory, a nickname of 64
  bytes overruns its array (`src/window.c:76`), a file without a nickname or whose
  first group lacks its name or info makes the program use strings that nobody
  wrote, and a settings file whose writing ended early is a NULL pointer in the
  legacy program; `UndefinedExplained`.
- update_cfg hands the nickname to xmlNodeSetContent (`src/config.c:163`), which
  takes it for XML: with an `&` in it the next start has another one;
  `AgreesWithFile`.
- main of ifc hangs after a failed pthread_create, which is the one exception of
  `ShutdownCompletes`, and process_message_loop gives back an uninitialised pool
  pointer.

## Proofs

All theorems are for every value of the constants, under the assumptions that
are named. Each rests on an inductive invariant, because what it says is not
preserved by a step on its own.

**`MsgQueueProofs`**, for every `Size`, `Data` and number of items: `TypeCorrect`,
for any number of producers; and with one producer `Invariance`, from it `NoRace`
(`RaceFree`: the threads are never at one slot, and no junk is returned), and
`Refinement`: the ring implements the safety of `LossyFifo`. That the
producer at `tail` and the consumer at `head` are at different slots while
both work follows from the number of items between them, so that the invariant
says that the count stays below `Size`, that the register of a producer in
queue_push equals `tail` and the ring is not full, that the consumer in
queue_pop found it not empty, that the slots from `head` to `tail` hold items,
and that `getData` was read from the slot at `head`. The lemmas about `Wrap` and
`Dist` carry the arithmetic modulo `Size`; `ContentsLemma` says how the contents
change when one end moves.

**`ContactsProofs`** on the hash table, for every index function (`TableAssumption`):
`FindsLatest`, `LosesToCollisionsOnly`, `ReachesNoFreed`, and `ImplementsMap`, the
refinement of `KeyMap`. The invariant (`TableInv`) says that a bucket holds nothing or one entry, the one
inserted last for its key, in the bucket of its key and on the heap (`Shape`),
that no two buckets hold the same one (`Unique`), and that a key that is missed
was followed by a rival. The code is written for chains, and the proof says that
it never makes one.

**`UdpNetworkProofs`**, for queues of any size and any number of datagrams and
packets: `QueuesUsedAsQueues`, `NoNull`, `OrderedStop`, `InOrder`. That `SendQue` and
`RecvQue` are used as the queues of `LossyFifo` and `MsgQueue` is proved first
(without their fairness), and the lemmas of `MsgQueueProofs` are used for the ring.
Its theorems are not, since they want one producer and udp_stop makes `main` a
second one. So the invariant (`RecvInv`) says what the ring holds, datagrams in
order between the one handled last and the one being put, only until the user
quits; after that it says nothing of the ring, but that the loop, which tests
its flag before each packet, handles no more than the one datagram with which it
was past the test. The same goes for the send thread (`SendInv`). `ControlInv` is
where each thread can be for each place of main, and `LateInv` that the one late
datagram leaves the listen thread in front of its own test.

**`PresenceProofs`**, for any hosts of both programs, any network and any number of
starts: `AnswersOnce`, `MissedForOneReason`. A host answers only whom it has not in
its user list, in which nothing is deleted (`AnsweredIsKnown`). That a host is
missed for one reason only needs what is under way: who has heard of the run that
a host is in has sent an answer, which is on the network or was received
(`AnswerKept`), and of two hosts online the later one has announced itself to the
other (`Met`).

**`ContactsProofs`** on the contact list, for any addresses, categories and hash functions
(`BucketAssumption`) and any number of messages: `Counted`, `RowsKept`, `Moved`,
`Duplicates`. The invariant is that entries point to what exists (`PointersInv`), and
that the head of a bucket is the last of the entries that were hashed to it
(`UserTableInv`, `CategoryTableInv`), which is what makes a collision the only way
to a second entry. The counters are cardinalities, so that `Counted` uses the
theorems about finite sets for the member that comes and the one that goes.

**`ContactsProofs`** on the datagrams, for any hosts of both programs, any settings,
texts, nicknames and groups, any size of the arrays, and any number of starts and posts: `UsersAreKnown`,
`TextsAreSent`, `GarbledIsExplained`, `OverrunIsExplained`. Strings are sequences of
signs (`SignAssumption`). What is assumed of the settings is that no string of C
has a NUL inside (`TextAssumption`), that names in which a `:` moves the fields
have no piece that is the number of a command (`NameAssumption`; `atoi` would read
that piece as the command, and then nothing
holds), and that each of them fits the arrays of the settings, which are twice as
long as those of a `msg_t` and far shorter than a datagram (`RoomAssumption`). Of
the texts nothing is assumed but that they have no NUL either. Half of the proof is about sequences: where the k-th sign of a kind is
(`NthIs`, `AtNext`), that a field is found again between two of them (`FieldIs`), and
so that each datagram is read as it was meant or, with a `:` in a name, as none
(`ParsedIs`). The invariant, `ProtocolInv`, says that every datagram is a line of settings that its
sender had, as they fit the arrays they went through (`NetInv`), that those of one run have one MAC address (`RunInv`), which
is why a text that cannot be deciphered is from another run, and that a stored
user is what the entry that was heard last says, read through the arrays of a
`msg_t` if ifc reads it, in the room of an entry that was heard before (`KnownInv`).

**`UdpNetworkProofs`** on the pool, for every size of a chunk, every width of size_t
(`ChunkAssumption`), whatever is asked for and whatever callers write:
`BlocksAreDisjoint`, `RoomKept`, `UnknownExplained`. While no size was read too large,
blocks lie one below the other between the free bottom of a chunk and its top
(`PlacesInv`), and what is free, what was freed in the middle and what is held do
not exceed the chunk (`RoomInv`), so that no sum wraps round. A size that is
read too small keeps both; it only loses room, which is why the equality in
`RoomInv` asks for sizes that were right.

**`LegacyStartProofs`**, for every number of users, categories and datagrams:
`ThreadsKeepApart`, `FaultsExplained`, `RowsAreExplained`. `ControlInv` relates where
the two threads stand to who has the lock (`LockHeld`), to what is freed (`Freed`),
and to what main has made, or failed to make, by then (`Done`, `Early`). `RowsInv`
adds, for each user, where his row is in the making (`Places`, `Asked`), and that a
row without its category's is one that was asked for too early (`Orphans`,
`Appended`). `UnreadBlink` adds the alerts: the one moment at which the icon is
calm with unread messages is between the test of the list and the end of the
blinking, and then the receiver is about to raise an alert or the alert was
missed (`Calming`).

**`LegacyStartProofs`** on the settings, for whatever files the user may have
written (`FilesAssumption`: they consist of what read_cfg looks for, in sections
numbered as they come, a group names each field once, `Unset` is none of their
values, and `Part` has room), any nicknames, whatever XML makes of them and
whichever are too long, and any number of starts, renames and crashes:
`ElementsKept`, `SettingsAgree`, `UndefinedIsExplained`. `CallsInv` says where the
calls on the file are and what a fault has been; `FileInv` that the file, or the one that is being
written, is what a file of the user has become, element by element (`Turned`);
`AgreesInv` that until the first change the program has what stands in the file,
that after it its nickname is the one typed last, and for each group what stands
in its section (`HasGroups`). Of the nickname it needs no more, since update_cfg
changes the first and read_cfg takes the last: with one nickname, they
are the same, and otherwise `NicknameAgrees` claims nothing. What stands first and
last comes from the least element of a set
of indices (`LeastOf`), which is as much induction as this prover does.

**`LegacyChatProofs`**, for any users and groups (`ChatAssumption`) and any number of
messages: `MisuseIsExplained`, `WindowsInOrder`, `LossIsExplained`. The threads meet
at the messages and at the windows, and the invariant has a part for each.
Messages are numbered as they come; the receiver is at work on the last one, and
the tray handler on one that came before all that are queued (`NumbersInv`), so
that what it shows, it shows in order. The lock of a kind of windows is the
receiver's from the search to the end of the insertion, so that the window which
it found is still open (`LockInv`). A private message that is in a window before
the receiver has put it there was put by the tray handler (`TextInv`), which frees
it: so a message is shown twice only where it is also used after the free, and
there the run ends. `MisuseInv` says whose messages are freed and which have no
user, and `LossInv` that a message that is freed was shown, or that a window of its
kind is open.

**`IfcChatProofs`**, for any number of messages, windows and users:
`ListStaysIntact`, `FreedByOverlapOnly`, `IconBlinks`, `EachIsDelivered`. The list is
changed link by link by two threads without a lock, so that the invariant says
what it is between any two of their steps. `RingInv` holds until the threads meet
at the only message: forwards the ring is whole, since a message becomes unread
with the write of its forward link and ceases to be with the next one; backwards
it is whole but for the link that tray_icon_activated has already closed, or the
one by which dlist_add_tail has announced a message that is not linked yet. After
such a meeting little is left, and `ChainInv` says what: from the head one still
gets to unread messages only, in the order in which they came, so that no message
is taken twice and none that was freed. That is the invariant's key, since an
unread message is not freed, whatever became of the ring. `ListIntact` says of
dlist_foreach that it goes round the ring and ends; `WalkIs` proves it of every
ring by the first step at which a walk would differ. `FatesInv` says that a message
is in one place only, `SeenInv` that who waits to be shown came before the window
that his user has, which is why only a window opened behind a message can
cost it, and `AlertInv` that where the icon may be calm an alert is due. The bounds are
natural numbers (`BoundAssumption`), and no message or window is called `None`
(`NoneAssumption`).

**`GroupTextProofs`**. For every text, size of a block, width of the build and block
cipher that undoes itself (`BytesAssumption`, `CipherAssumption`): `DecryptsAsTyped`
(`Deciphered`). Encrypt works in place and moves by spans, so that the invariant
says of each whole span that it is still what was typed and padded, or that it
deciphers to that, chained to the span before it as that one is now (`EncryptInv`);
Decrypt turns this round, with `IV` for the one span that is already written over
(`DecryptInv`). For messages of any length: `ShownOnce` (`NothingLost`) and
`StaysInString`, from the invariant that nothing is shown before the scan begins
(`Fresh`) and that what is shown are consecutive parts that end where the next text
begins. `ShownAsWritten` (`AsWritten`) is about what those parts say, for every
message without a `#`. Its invariant (`WindowInv`) says that replace_emotion has put
the pieces one behind the other in the string (`Stand`), that the scan always stands
where one of them begins, and that what is shown and what is scanned and not yet
shown (`Seen`) are the pieces before it. That a code is found from its first `#`
(`CodeHere`) and that nothing is found where a character stands (`CharHere`) keep the
scan in step with the pieces; a `#` of the sender's would break the second.
FlattenSeq is a recursive function in the community modules; that it grows by its
last element (`FlattenGrows`) is proved from the least place at which the function
would not be what its definition says (`LeastOf`). `GroupImplementsWindow` carries all this from the window to the way of a
group text. For every set of words with a `Xor` that undoes itself (`XorAssumption`),
every table, every bf_F and every even number of rounds (`PassAssumption`):
`DecipherUndoes`, which is what `CipherAssumption` says of the cipher on one block.
The trace of the enciphering is a chain of rounds (`Rounds`), and the deciphering,
with its halves exchanged, stands in it before the round that it undoes next
(`Stands`).

`KeyMap`, `HashTable` and `BlowFish` have no run: the theorems cover what one would
show. `Contacts` has buckets of its own with what `HashTable` says of them, and
`GroupCipher` takes as a constant the cipher that `BlowFish` is.

Only model-checked are the liveness properties (`ImplementsFairFifo`,
`ShutdownCompletes`, `AcceptedIsHandled`, `FirstRunDiscovery`, `CallbackReturns`,
`CloseEnds`), which are out of the prover's reach. Every safety and action property
of the passing runs has a theorem. Neither checked nor proved is the link from the two
words of `BlowFish` to the bytes of a block in `GroupCipher`, which
`CipherAssumption` takes as given.
`NoRowLeftBehind` is false, which `contacts_rows` shows.

## Not modelled, and assumptions

- In all modules but `MemPool`, malloc and the pool succeed and return disjoint
  blocks. `MemPool` says when the pool does; as the code stands, it stops with the
  first packet that is given back (see Findings). The other
  modules show what holds on top of a pool that keeps its promise.
- The first pthread_create of the ifc program succeeds, and so do create_udp_socket
  and the epoll_create and epoll_ctl of its listen thread, each of which would
  leave the program without a listen thread.
- The build without `__USE_SIGNAL` and `USE_LOCK`, which is the default one, and
  the program order of memory accesses, that of the x86 builds of the repository.
- `IfcChat`: a call of GTK is one step. The lock of GTK holds nobody up, since
  gdk_threads_init is not called.
- `FeiqProtocol`: strings are UTF-8, so that string_validate converts none; no
  string has a NUL inside; and if the user name or the host name of a host holds a
  `:`, neither holds the number of a command (`NameAssumption`). A sign is as long
  as any other. Settings fit the arrays that read_cfg copies them into, and what
  is typed as a nickname is at most 32 characters, to which `glade/ui.glade` limits
  the entry (`RoomAssumption`; `Settings` is about those that do not fit); a private
  text is shorter than the 65535 bytes of a datagram. What a name or a category
  that is too long writes over is followed as far as the names go; the version,
  the path of the picture and the data, which has been read by then, are not kept.
- `GroupCipher`, `GroupText`: a text with its mark fits `plain` and `cipher`, the
  arrays of 1024 bytes of the sender, and those of the receiver, so that
  `DecryptsAsTyped` and `ShownAsWritten` are about such texts. `FeiqProtocol` has the
  ones that do not fit.
- `LegacyStart`: GTK refuses a NULL widget and an iterator that names no row; an
  iterator that was not initialised may name the row that it named before.
- `Emotions`: no code begins another one, none holds a `#`, and `/` is the first
  character of each and no other one, which is so for the 96 codes of the tables.
- `Settings`: three of the fields, which stand for all that are strings; a file that
  breaks off has a beginning of its elements, of which the last one may have a
  beginning of its value; a group of the file names each of its fields once; a
  string of memory that was not written is no value of a file. After an overrun
  the program may go on, and nothing is claimed of its settings.
- `Contacts`, `LegacyStart`, `FeiqProtocol`: an address is what a user is known by.

Not modelled: the dialog in which a picture is chosen, and the construction of
windows, lists and menus, which is a list of calls of GTK; the membership
functions of `src/group.c` and `ifc/src/group.c`, which have no caller (the list
of groups is a constant where it matters, and the ifc program shows none); the
group entries of ifc, whose strings nobody reads after new_group_entry has copied
them over each other; character sets and socket options (`utils.c`,
`encoding.c`), which are library calls; the delete operations of the contact
list, which have no caller; and source that the makefiles do not build
(`ifc/src/br.c`, `ifc/lib/encoding.c`).

## Plan

1. `UdpNetwork` composed with `MemPool`: what a packet that is given back costs the
   packets under way. It is of use once mem_pool_free reads the size of its block (see Findings).
