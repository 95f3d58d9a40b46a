# Formal models of eleven

eleven is a small C++ chat server and client: TLS connections, one thread per
connection, line-based commands, user accounts in a flat file, chat channels,
and an optional server of downloadable assets. This directory holds TLA+ models
of its logic, the TLC configurations that check them, and proofs for TLAPS.

Run `tlc -config <run>.cfg <module>` for a run listed below and
`tlapm <module>_proofs.tla` for the proofs. PROJECT.json maps every definition
to the source lines it stands for, and lists the hazards, the findings and the
theorems.

## 1. The system

| component | source | state it keeps | operations | models |
|---|---|---|---|---|
| chatserver | `eleven_chatserver.cpp` | listening socket, `mKeepRunning`, command table | accept, `session_thread`, dispatch, `shut_down` | UserSessions |
| session | `eleven_session.cpp` | SSL socket, `mKeepRunningFlag`, attached sessiondata, `mSessionLock` | `readln`, `sendln`, `disconnect`, attach/find/remove data | UserSessions, LineSession (bytes and lines), AssetTransfer (`read`) |
| user_session | `eleven_users.cpp` | `mCurrentUser`; shared: `loggedInUsers`, `shuttingDown`, `usersLock` | `/login`, `/adduser`, `/deleteuser`, `/retireuser`, `/blockuser`, `/makemoderator`, `/makeowner`, `/shutdown` | UserSessions |
| database_flatfile | `eleven_database_flatfile.cpp` | `mUsers`, `mNamedUsers`, `mKicklists`, the files behind them | lookups, add, delete, change flags, kick lists, load, save | Database, FlatFile (files, kick lists), Channels |
| channel | `eleven_channel.cpp` | per channel: list of members; per session: current channel | `/join`, `/leave`, `/kick`, chat | Channels |
| concurrent_queue, semaphore | `eleven_concurrent_queue.h`, `eleven_semaphore.h` | linked list, count, waiting threads | `push`, `pop`, `wait`, `signal` | ConcurrentQueue, Fifo |
| asset_server, asset_client | `eleven_asset_server.cpp`, `eleven_asset_client.cpp` | the asset; the client's cache and its metadata | `/asset_info`, `/get_asset` and their replies | AssetTransfer |
| chatclient | `eleven_chatclient.cpp` | its session, message handlers | `connect`, the listening thread | LineSession, AssetTransfer |
| ini_file | `eleven_ini_file.cpp` | settings | `open` | IniFile |
| database_mysql, password hashes, log, test certificates, Xcode project | | | | not modelled |

How they interact. `main` opens the database, registers the handlers and calls
`wait_for_connection`, which starts a detached `session_thread` per accepted
socket. A session thread reads a line, looks up the handler of its first word
and calls it. Handlers run in the thread of the session that sent the command
and act on shared state: the registry `loggedInUsers` and `shuttingDown` (under
`usersLock`), the database (under its own lock), the channels (under
`channels_lock` and one `mUserListLock` per channel), and **other sessions**,
which they send to and disconnect under those sessions' `mSessionLock`.

What is hard:

- *Locks held while waiting for a client.* `readln` keeps `mSessionLock` while
  it waits for the next byte. Whoever sends to or disconnects that session waits
  for the client to say something, often holding `usersLock`.
- *Checks outside the lock.* `log_in` tests `shuttingDown` before it takes
  `usersLock`; three handlers resolve a name before they take it.
- *Identity.* Ids of deleted users are reused, sessions remember ids, and a
  session's id is never reset when the session is disconnected by somebody else.
- *Lifetime.* `loggedInUsers` holds weak pointers that are followed without a
  test, and the destructor that should erase an entry reads a field which is
  uninitialized after a failed login.
- *Files without a transaction.* The accounts, a kick list and the metadata of a
  cached asset are rewritten in place: truncated, then written line by line. A
  crash or a full disk in between leaves what was written so far.
- *Versions that nobody compares.* A chunk of an asset does not say which version
  it is of, and the client asks for one chunk after the other while the asset may
  change.
- *Counts beside data.* The semaphore of `concurrent_queue` counts pushes, `pop`
  takes elements without it.
- *Partial failure.* A change of flags takes effect in memory although the save
  failed, and the command then reports failure and stops half way.

PROJECT.json lists these hazards one by one with their lines.

## 2. What is modelled

### Database.tla

The two maps of `database_flatfile`. `mUsers` is total over `UserIds`, with
`NoUser` (the code's `user()`) for an absent id; `mNamedUsers` is total over
`Names` with 0 for an absent name. Each operation runs under the database's own
lock and is one step: `DbAddUser` (with the search for the smallest free id and
the wrap-around that finds none), `DbDeleteUser`, `DbChangeUserFlags`, the
lookups, and `LoadUsers` for the state after startup. Whether a save succeeds is
a free choice from `SaveResults`. Password hashes are left out.

### UserSessions.tla (extends Database)

A member of `Sessions` is one connection with its thread; `pc` says what the
thread does next.

| variable | code |
|---|---|
| `open` | `mSSLSocket` not null and `mKeepRunningFlag` set |
| `line`, `target` | the command being handled, the user id it was resolved to |
| `attached` | the session owns a user_session (`USER_SESSION_DATA_ID`) |
| `mCurrentUser`, `loggedInUsers`, `usersLock`, `shuttingDown`, `mKeepRunning` | the fields of those names |
| `todo`, `warnings` | progress of a loop over `loggedInUsers`, of the countdown |
| `account`, `lost`, `spared` | history only: the name a session logged in with, sessions unregistered by somebody else's destructor, sessions left alone because the save of a ban failed |

Granularity. What the code does under one `usersLock` without waiting is one
step. A step ends where the thread may have to wait (for `usersLock`, for another
session's `mSessionLock`, for its client) and between two critical sections, so
that everything other threads can do in between is explored: `/login` is
`LoginHandler`, `LogInCheck`, `LogIn`, `EvictForLogin`, `Attach` or `Forget`;
`/blockuser` is `FindTarget`, `BlockUser`, `LogOutBanned`; `/shutdown` is
`ShutdownHandler`, `Authorize`, `Announce`, `Warn`..., `Linger`..., `Sweep`...,
`ShutDown`, with one step per registered user in each loop. `usersLock` is a
variable because it is kept across those waits. `mSessionLock` is held across
steps only by a thread in `readln`, that is when `pc[s] = "reading"`.

The end of the process. `shut_down` makes `wait_for_connection` leave its loop;
`main` returns and takes every thread with it, wherever it is. `EndProcess` is
that step, possible from `ShutDown` on, but not obliged to happen: an `accept`
that is already waiting may still return a connection (`Connect`) first, or
never return. Nothing is left of the threads, the registry and `usersLock`
afterwards; the accounts are.

The uninitialized `mCurrentUser` of a new user_session is a free choice from
`Garbage`. A user_session that was attached is never destroyed: it and its
session own each other (`End` explains it), which is what keeps entries of ended
sessions valid; `RegistryOK` states that dependence.

A client's password, confirmation or "yes" is right or wrong (`good`); the flags
an `/adduser` asks for are part of the line. `/version`, a command whose word is
unknown, and those of the channels are `OtherCommand`, which changes nothing.

### Channels.tla (extends UserSessions)

Replaces `OtherCommand`, for the commands of the channels, by the steps in which
they are carried out.

| variable | code |
|---|---|
| `members` | `mUsers` of each channel, as a set; a channel that was not created has none |
| `kicked` | `mKicklists`, as they are in memory |
| `listLock` | the thread that holds a channel's `mUserListLock` |
| `current` | `mChannelName` of the session's `current_channel` |
| `job` | the local variables of the command a thread is working on |
| `overtook` | history only: users kicked while they were between the look at the kick list and the change of `mUsers` |

A step ends where another thread can act: `/join` is `JoinHandler`,
`JoinKickList`, `JoinList`, `JoinCurrent`; `/kick` is `KickHandler`, `KickFlags`,
`KickTargetFlags`, `KickList`, then the steps of `leave_channel` for the kicked
user; whatever is said goes out in `BeginSend`, then `FindReceiver` and `Deliver`
for each member, `EndSend`. `sendln` keeps `mUserListLock` all that time, waits
for `usersLock` in `session_for_user` and for each receiver's `mSessionLock`.
`channels_lock` is held for one lookup only and needs no variable. Two pairs of
lookups are one step each: `leave_channel` finds the user's session and then that
session's current channel (`LeaveChannel`), `kick_user` puts the user on the kick
list and then looks up its own user's name (`KickList`). `EndChannels` is
`EndProcess` with what the channels have in memory.

`ImplementsUsers` states that Channels implements UserSessions: with every `pc`
inside a command of the channels read as "dispatch", each of its steps is a step
of UserSessions or changes nothing there. So the safety properties shown of
UserSessions hold of the server with its channels too. (Liveness does not carry
over that way: a channel's commands wait for more than `OtherCommand` does, which
is what `EveryoneHears` is about.)

### ConcurrentQueue.tla, Fifo.tla

`mHead`, `mTail` and `mNext` are the linked list, `mCount` the semaphore's count;
`mHeadTailMutex` is a variable because `push` holds it while it signals. A thread
asleep in the condition variable is one with `pc = "asleep"`; it may wake up
without being notified. Elements are never freed, as in the code. `linked`,
`taken` and `handed` are history: what was linked in which order, how much of it
left the list, what each callback got. `Fifo` says what a queue promises (what
goes in comes out once, in order); `IsFifo` shows that the list keeps it. The
callbacks are those of `queued_data_sender_thread` and `assets_thread`. Both
threads are switched off by `THREADED_SESSION_SENDS` and
`THREADED_ASSET_SERVER`; the model is of the queue as a component, for any users.

### FlatFile.tla (extends Database)

The same operations of the database with the files behind them. A save is a step
that truncates the file, one step per record and one that ends it, all with
`mUsersLock` held (`writing`); a crash (`Restart` with a save under way) may come
between any two, because every record is flushed. `load_kicklist` is the three
steps it really is: the look at the list in memory, the opening of the file
outside the lock, the reading under the lock. `calls` has, per thread, where it
is in a call of `kick_user_from_channel` or `is_user_kicked_from_channel`. Files
are sequences of records or ids. A record of which only the beginning reached the
disk loads as no record, or without its flags. `accountsSaved`, `kicksSaved`,
`kicked` and `expected` (the accounts as they were last changed to, which outlives
restarts) are history.

A start reads the accounts file or cannot open it (`StartUsers`): nobody looks at
the result of `load_users`, and the server runs without accounts over a file that
is full. The next save would overwrite it. That it does not come to that is due to
the callers: every function of `user_session` that changes an account looks for
the account of its own user first, an owner or a moderator that is not banned
(`eleven_users.cpp:783-841` and its like). `Asked` is that condition; with no
accounts in memory nobody meets it.

### AssetTransfer.tla

One asset, its download over one connection, the cache and the metadata file
beside it. Chunks are known by their index and the version of the asset they
belong to, which the protocol does not transmit. The client's listening thread
(`Listen`) handles one reply after the other, in the two steps between which its
process may crash: `/asset_info` truncates the metadata (`ReceiveInfo`) and
writes it (`WriteMetadata`), `/asset_chunk` writes data (`ReceiveChunk`) and the
mark (`MarkChunk`). The connection may end in order, cutting a chunk short
(`ReceiveCut`: `session::read` never returns), or fail (`ReceiveBroken`: `read`
returns less, and the handler goes on). The server answers a request in one step,
since `send_data_with_prefix_printf` keeps `mSessionLock`.

### IniFile.tla, LineSession.tla (extends IniFile)

`IniFile` is the loop of `ini_file::open`, one step per character. A file is a
sequence of characters; its lines are known by where they start (`LineStarts`),
and the last may be without a line break. `iniText`, the whole file, is history.
`LineSession` is one direction of a connection after its settings were read: the sender's
`sendln` and `printf` (with its buffer), or another client's lines; the bytes on
their way; and the two receivers, `readln` with `session_thread`'s dispatch on
the server and `listen_for_messages_thread` on the client, one step per byte.
Texts are short sequences of letters and separators, and the buffers of
`MAX_LINE_LENGTH` bytes are small. What a failed connection leaves in `readln`'s
uninitialized buffer is a choice from `Leftovers`, up to the buffer's last byte,
which always becomes the terminator (`Terminated`). Which lines a receiver should get
is a set of numbers of lines sent (`Expected`), and the place of one among those
it gets is its `Rank`. After an error other than
one of TLS both receivers read on for ever; the model stops there.

### MCUserSessions.tla, MCChannels.tla, MCFlatFile.tla, MCLineSession.tla

Accounts (an owner, a moderator, a plain user) and sets of lines for TLC.
Sessions are symmetric where no liveness is checked; users are not, because the
loops run in the order of their ids.

## 3. Runs

| run | property | what it shows |
|---|---|---|
| logins | RegistryOK | an entry of `loggedInUsers` always leads to a user_session that exists and is logged in as that user |
| | OneSessionPerUser | at most one registered session of a user is connected |
| | DatabaseConsistent | the two maps of the database are inverse to each other |
| | SessionKeepsAccount | a connected session acts for the account it logged in with, in spite of reused ids |
| | BannedIsOffline | a banned user has no connected session, unless the ban could not be saved |
| ranks | NoEscalation | without an owner's login no account rises in rank and owners' accounts stay untouched |
| | TypeOK | the type invariant |
| | CommandsFinish | every administrative command, also one that waits for the session of the user it blocks, retires or deletes with `usersLock` held, is carried out, or the process ends |
| shutdown | NobodyStays | while a shutdown's last loop runs, everybody connected and logged in is still ahead of it, except on sessions a stray destructor unregistered; at its end nobody is |
| | CommandsFinish | the same of three connections on which logins, a ban and a shutdown wait for each other |
| | ShutdownCompletes | an announced shutdown stops the server |
| rooms | EveryoneHears | a message about to be sent to a member's session is sent, although the sender waits for it holding the channel's lock |
| | CommandsFinish | every command of the channels is carried out in spite of the locks it waits for, or the process ends |
| | OwnersAreNotKicked | a moderator who is not banned meanwhile kicks no owner, although the flags of both users are read in separate steps |
| | ImplementsUsers | Channels implements UserSessions |
| kicks | KickedStaysOut | a kicked user is not a member of the channel, unless it was just joining |
| | ListKeepsStill | nobody changes the list of members a message goes out to |
| | OneAtATime | messages to one channel go out one after the other |
| | NoCircularWait | threads never wait for each other in a circle, through `usersLock`, a `mUserListLock` or a `mSessionLock` |
| | ChannelTypeOK | the type invariant of the channels |
| queue | NoLostSignal | for every element in the list a count, a consumer or a producer about to signal exists |
| | SomeoneAwake | consumers do not all sleep while there is a count to take |
| | IsFifo | the list implements Fifo |
| | EachIsHandedOut | every element reaches a callback or a caller of `pop` |
| | QueueTypeOK | the type invariant of the queue |
| assets | NeverOlder | a chunk marked as there is not older than the version of the metadata, except for one a failing connection broke |
| | IsDownloaded | an asset that is asked for, and stays, is downloaded completely while the connection lasts, unless the cache has an unfinished download of an older version or a broken chunk of this one |
| | AssetTypeOK | the type invariant |
| files | RestartKeepsAccounts | however often the server stops and starts, the accounts file has what the accounts were last changed to, unless a save is under way, was cut off or failed; the server has these accounts in memory, or none after a start that could not open the file |
| | KickIsKnown | whoever looks at the kick list knows of every kick reported so far, also after a restart and while others load the list |
| | DatabaseConsistent | the two maps stay inverse to each other through restarts from any file a crash can leave |
| | FlatFileTypeOK | the type invariant |
| lines | ArriveIntact | lines arrive complete, in order and once, up to the first that is too long |
| | FirstWordDispatches | the handler is that of the first word, else that of `*`, and gets the right remainder |
| | SettingsAsWritten | settings are the pairs of the file, the last one of a key |
| | LineTypeOK | the type invariant |
| one_session (violated) | OnlyOneSessionPerUser | the comment "Only allow one session per user at a time" fails when a failed login's destructor unregisters a live session |
| idle_client (violated) | EveryoneHears | a client that listens and says nothing is never sent what is said in its channel, and the sender never finishes |
| stale_asset (violated) | BecomesCurrent | "any file that you call /asset_info for will be downloaded [...] if it is no longer the current version" fails for an asset that became shorter during a download |

Bounds. Three connections are the fewest on which one session replaces another
of the same user while a third bans that user (logins), and on which a second
login waits for a lock a shutdown or a ban holds (shutdown). Two are enough for
ranks: one acting and one affected, or both acting; what matters there, also to
`CommandsFinish`, is the variety of commands, each of which can wait for the
session of the other. `MaxUserId = 3` with three accounts makes every deletion
lead to a reused id and every further addition meet the case of no free id.
`Garbage = {0, 3}` lets a failed login erase nobody or "bob". `Warnings = 1` runs
the countdown's loop body once and its exit once. In rooms two connections suffice
for a sender and a receiver who may also kick each other; kicks needs three: one
kicks, and the kicked user is connected twice in turn, so that a join is under way
on a connection that the registry has replaced. One channel is enough because
channels share nothing but users; a command may name the channel or rely on the
current one. Connections are not reconnected: a client that comes back is another
member of `Sessions`.

In queue, two producers are needed for one to signal while the other waits for
the list, two consumers for `notify_one` to wake the wrong one, and a popper for
counts without elements; two pushes each make the list grow and become empty
again. In assets, `MaxVersion = 3` lets an asset change twice, so that a reply of
the version before the last can be under way; `MaxChunks = 3` has a first, a
middle and a last chunk, and `InFlight = 2` two downloads of the same file. In
files, two threads load the kick list together, `MaxKicks = 2` bounds it (it may
double once), and two ids and two names make ids come back. In lines a buffer of
five bytes meets lines of up to five characters on either side of its limits, and
two lines are enough for one to be continued in the next. stale_asset needs two
versions, two chunks and no faults at all.

Fairness in queue and assets: weak fairness of threads, which the operating
system runs; a thread that waits for `mHeadTailMutex` is one of a few that take
it for a moment, and the model needs no stronger assumption. Nobody is obliged to
call `push` or `pop`, to ask for an asset or to connect; stale_asset adds
(`EagerSpec`) that the application does, which makes its violation stronger.
files and lines check safety only. lines turns the deadlock check off, because
connections end.

Fairness (ranks, shutdown and rooms; the last states it as `ChannelFairness` and
`TalkingClients`). `ThreadFairness` is strong fairness of each thread's
next step: the operating system runs every thread, and a thread waiting for a
mutex gets it if the mutex is free again and again. C++ does not promise the
latter for `std::recursive_mutex`; it is an assumption about the platform's
mutexes, without which no statement about any command is possible.
`ClientFairness` says that no client stays connected and silent for ever: it
sends a line, hangs up or is cut off. The code depends on it, because `readln`
has no timeout; idle_client shows what happens without. Nothing obliges the
process to end (`EndProcess` has no fairness), so that the commands have to finish
by themselves; when the process does end it takes them with it, and
`CommandsFinish` has nothing left to ask. `Next` allows the model to come to rest only when every
connection has ended; deadlock is checked in every run but lines.

## 4. Proofs

`Database_proofs` proves what each operation of the database does to
`DatabaseTypeOK`, `DatabaseConsistent` and to single records. It is used by
`UserSessions_proofs`, which proves for every number of connections, every set of
users and lines, and every choice of `Garbage` and `SaveResults` that satisfies
the two assumptions `DatabaseAssumption` and `SessionsAssumption`:

- `TypeCorrect`, `DatabaseCorrect`: from `TypeInv`, which adds to the types that
  the command a thread works on fits its `pc` (`LineOK`).
- `RegistryCorrect`, `OneSession`: from `RegistryInv`. Neither property is
  inductive alone. Needed besides: who holds `usersLock` and what its `pc` then is
  (`LockOK`), that a session without a user_session is not logged in
  (`NotAttached`), that a logged-in session has a user's id (`LoggedInOK`), that
  the session a thread is about to disconnect exists (`VictimOK`), and that a
  connected, logged-in session nobody unregistered is the one its user's entry
  leads to (`OpenIsRegistered`), of which `OneSession` is a consequence.
- `AccountKept`, `BannedOffline`: from `AccountInv`, which adds that a login which
  waits to disconnect its predecessor holds a name that still is its user's
  (`EvictingOK`).
- `RanksCorrect` (`NoEscalation`): from `RankInv`. That the accounts are as they
  should be is not inductive: whoever acts with an owner's rights can change them.
  Needed is that no session does (`OwnersAreAway`), although ids are handed on;
  that a session which has a name got it by logging in (`NamedOK`); and that
  whoever is about to change an account has logged in (`ActingOK`).
- `LoopsAreSafe` is about a property no run checks: the loops of a shutdown follow
  the weak pointers of `loggedInUsers` without a test (`eleven_users.cpp:334`,
  `357`), over many steps of other threads. `LoopOK` says that all they still have
  to visit is registered, because `usersLock` is held.

- `StragglersGo` (`NobodyStays`): the loop starts with the whole registry, which
  `OpenIsRegistered` says leads to every connected, logged-in session. It stays
  ahead of them all because the loop keeps `usersLock` (`LockOK`), so that no
  login, not even one that has passed its test of `shuttingDown`, registers until
  it ends. Sessions that a failed login's destructor took out of the registry
  (`lost`) are excepted; the code does not reach them.

Each proof has one step per action and cites the lemmas about the database by
name. TLC checks the same properties on the small instances above.

`Channels_proofs` builds on them:

- `ChannelsImplementUsers` is the refinement `ImplementsUsers`, step by step: with
  `UserPc` in the place of `pc`, the last step of a channel's command is
  `OtherCommand`, the steps before it are stutters, and all other steps are those
  of UserSessions with the same name. What it needs to know of the threads
  (`ThreadOK`) is that only the channels' commands are at a label of Channels.
- `ChannelsKeepUsers`: `UserSessions_proofs` is instantiated with the same mapping,
  so its theorems hold of the server with its channels: `RegistryOK`,
  `OneSessionPerUser`, `SessionKeepsAccount`, `BannedIsOffline`, `NobodyStays`,
  `NoEscalation`.
- `ChannelTypeCorrect`, `OneSender`, `ListStaysStill`: from `ListInv`, the types
  with what the local variables of a command are at each label (`JobOK`) and that
  a thread which sends holds its channel's `mUserListLock` (`SenderHoldsLock`).
- `KickedUsersStayOut`: `KickedStaysOut` says nothing about a join that has looked
  at the kick list and not joined yet. `LateJoins` does: if its user was kicked
  meanwhile, the kick has put it into `overtook`.
- `NobodyWaitsInACircle` (`NoCircularWait`), of all commands at once, shutdowns
  included, which the run kicks does not have. Besides `ListInv` it needs the
  converse of `SenderHoldsLock`, that only a thread which sends keeps a
  `mUserListLock` (`HolderSends`), and which threads may keep `usersLock`
  (`UsersLockHolder`). Then the locks have an order: who holds a `mUserListLock`
  waits at most for who holds `usersLock`, who holds `usersLock` at most for a
  thread in `readln`, and that thread only for its client. Deadlock is thereby
  excluded for any number of threads and channels; that the waiting ends is what
  `CommandsFinish` and `EveryoneHears` check, and needs the clients.
- `OwnersKeepTheirRank`: `OwnersAreNotKicked` compares records with those of the
  start, and holds only while nobody gets such a record back between the second
  look at the flags and the kick. TLC finds the counterexample when `/makeowner`
  is among the lines: an owner who was demoted, and is promoted again after the
  look, is kicked. The theorem has that as its hypothesis (`[][~Restored]`). In
  the run rooms nobody's rank changes; the theorem covers the servers on which
  ranks do.

Both proofs have one more case than the commands: the process that ends
(`EndProcessFacts`, `EndChannelsFacts`). Everything that the invariants say of a
thread, the registry or a lock holds of it because none is left.

`AssetTransfer_proofs` proves for any number of versions, chunks and downloads:

- `AssetTypeCorrect`, and `NeverOlderThanMarked` from `CacheInv`. `NeverOlder`
  speaks of the cache only; a reply on its way could break it. `InOrder` says that
  the replies on their way are in the order of their versions and none is older
  than `Floor`, which is what the metadata say, or what they are just being reset
  to. A crash may lower `Floor`; nothing else does.

`FlatFile_proofs` proves for any finite set of ids and names and any threads:

- `FlatFileTypeCorrect`: the types and `DatabaseConsistent`, also after loading
  a file that was cut off. It needs that no id and no name is in the accounts file
  twice (`Distinct`).
- `RestartsKeepAccounts`: the file alone does not make an invariant. While a save is
  under way, what is in the file and what is still to be written are the accounts
  in the order of their ids, and the accounts are those `expected`
  (`SavesAccounts`). The server has these in memory, or none after a start that
  could not open the file; then nobody can ask for a change (`Asked`), so that a
  save always writes what was expected. The lemmas behind it say that the records
  of a database, put in that order and loaded again, are that database
  (`LoadsWhatIsSaved`); as the order is that of a finite set of numbers, they
  count ids (`Ranks`).
- `KicksAreKnown`: from three facts about who has a kick when. Once the list in
  memory has an entry it has every kick; before, and whenever the last save was
  not cut off, the file has (`KicksAreKept`); a save under way completes the
  list (`SavesKicks`); at most one thread saves (`CallsOK`). So a thread may read
  the file although another has just loaded the list, and load it twice, without a
  kick being lost.

`LineSession_proofs` proves for any texts, words, files and length of the
buffers, from `LineAssumption`, `HandlersAssumption` (handlers are registered for
words without delimiters and for `*`, as both `main.cpp` do), `TextsAssumption`
(what is sent as one line has no line break or zero in it; all that eleven sends
is made of lines and C strings), `IniAssumption` (a file is a sequence of
characters) and `CharactersAssumption`:

- `LineTypeCorrect`: no receiver has more in its buffer than fits, and no line is
  longer than the buffer less a terminator. `LineInv` adds that `readln` always
  leaves the last byte free.
- `FirstWordsDispatch`: from the invariant that every line was dispatched as
  `session_thread` does it (`Dispatched`). That this is what the Readme says
  follows from what `next_word` returns (`WordEndOK`, `NextWordStartOK`) and from a
  word being the only one its line begins with (`OnlyWord`).
- `LinesArriveIntact`: from `ArriveInv`. `ArriveIntact` compares the lines that
  were handed over with those that were sent; what is inductive says where in the
  lines sent the receiver is (`Place`). Up to the first line that does not fit
  there is a number m of lines that are done with: the number of lines handed over
  is the rank of the m-th, the buffer is a beginning of the next line, with what
  the receiver makes of its bytes (`OnStream`, `InStep`), and the stream is the
  rest of that line and all lines after it (`AtLine`, `Starts`). Two places in
  between need care: the client has dealt with a line when it reads the carriage
  return and still has the line feed before it (`BehindCR`), and beyond the first
  line that does not fit nothing is claimed (`Past`). That ranks rise one by one,
  and the empty lines a client drops leave them as they are, are lemmas about the
  cardinality of `Expected` (`RankIs`, `RanksRise`).
- `SettingsFromFile`: from `ParseInv`. There is a line that `open` is in, all
  lines that start before it are in the settings (`SettingsUpTo`), and what was
  read of it is its key (`InKey`), or its key and the beginning of its value
  (`InValue`). Nothing is said of the files in which a line is no pair.

`LeastNumber` has the lemma that a set of numbers has a least one, from the
well-foundedness of the numbers: what the models choose as the first missing
chunk, delimiter or zero exists.

`ConcurrentQueue_proofs` proves for any finite sets of producers and consumers,
any callers of `pop`, and any number of calls, from `QueueAssumption`:

- `QueueTypeCorrect` and `QueueIsFifo`, the refinement `Spec => IsFifo`, from
  `QueueInv`. The types alone do not say what `pop` takes; needed is the shape of
  the list (`ListInv`): `mHead` and `mTail` are the ends of the elements that were
  linked and not taken (`Ends`), `mNext` leads from one to the next (`Chain`), a
  new element is in no list and has no successor (`Pushed`, `Once`, `Unlinked`),
  and a thread holds an element exactly between its pop and its hand-over
  (`Holding`). `Push` is then the abstract `Put`, a pop that finds something is
  `Take`, and every other step a stutter.
- `NoLostSignalCorrect`, by counting: an element that enters the list enters with
  its producer about to signal, the signal becomes a count, the count a consumer
  about to pop; a pop that finds nothing may drop its count because the list is
  empty.
- `SomeoneAwakeCorrect`, under `FALSE \notin KeepGoing`, which is what the run
  has too. It is not true without: when the callback stops the only consumer that
  is awake, a count can wait while the others sleep.

Only model-checked are the liveness properties, which need fairness and ENABLED
and are beyond TLAPS here: `CommandsFinish`, `ShutdownCompletes`, `EveryoneHears`,
`EachIsHandedOut`, `IsDownloaded`; and that the three properties of the runs which
end with a violation fail. What a recursive definition computes for every
sequence takes an induction that the provers installed cannot do. So no module
with proofs has one: lines of a file and lines to expect are sets of positions,
and `LeastExists` takes the place of the induction.

## 5. Plan

Done, in this order: Database, UserSessions and their proofs; Channels;
ConcurrentQueue and its proofs; FlatFile; AssetTransfer; IniFile and LineSession;
then the proofs of all the safety properties. Left: a run of Channels with
accounts that are deleted and ids that are reused. The proofs cover them; the runs
of Channels have fixed accounts.

## 6. Disagreements seen without a run

The runs that end with a violation show three disagreements between the code and
what it says about itself. Others were met while modelling; each is a behaviour
of the modules named, found by reading and by TLC, but has no run of its own:

- `log_in` reads `shuttingDown` before it takes `usersLock`
  (`eleven_users.cpp:385`). A login that waits there while a shutdown sweeps the
  registry succeeds afterwards and stays connected, against the comment at
  `eleven_users.cpp:329`. `NobodyStays` shows that none succeeds while the sweep
  runs, and `ShutdownCompletes` that the shutdown itself is not held up. (UserSessions, `LogInCheck` and `LogIn`)
- `/blockuser`, `/retireuser` and `/makemoderator` resolve the name to an id before
  they take `usersLock` (`eleven_users.cpp:213`). If the account is deleted in
  between and its id given to a new one, the new account is changed.
  (UserSessions, `FindTarget` and `BlockUser`)
- Kick lists and lists of members keep the id of a deleted user, and the next
  account that gets the id inherits them. (Channels)
- `kick_user` reads the flags of the two users in two critical sections
  (`eleven_channel.cpp:197`). A moderator who is banned between the two passes
  the test that protects owners. `OwnersAreNotKicked` states what remains true.
- `load_users` fails when it cannot open the accounts file
  (`eleven_database_flatfile.cpp:209`), and the constructor ignores that (line 30).
  The server then runs without accounts until it is started again, with nothing
  said to anybody. `RestartKeepsAccounts` shows that the file survives. (FlatFile,
  `StartUsers`)
- A line as long as the buffer of `readln` loses a byte, and its rest is read as
  a command; `ArriveIntact` states what arrives up to there. (LineSession)

## 7. Not modelled

- Password hashing: a password is right or wrong. Logging.
- Certificates, the TLS handshake and the socket calls that set a connection up:
  a set-up succeeds or fails.
- `database_mysql`: neither `main.cpp` nor the project's build uses it. It is a
  sequence of SQL statements to a server outside the repository, whose answers
  decide what it does.
- The threads that `THREADED_SESSION_SENDS` and `THREADED_ASSET_SERVER` switch
  on; their queue is modelled.
- `semaphore::reset`, `owner_printf`: nobody calls them.
- A `settings.ini` that cannot be opened, at which `ini_file::open` returns false
  and the database takes the default name of its accounts file.
- Empty names and passwords, which `add_user` turns away (`eleven_users.cpp:808`).
- In the metadata of an asset, a mark behind the last line (nobody who reads the
  file finds a difference), and the partial flushes of a file of more than about
  two thousand chunks: a crash leaves it empty or complete here (`WriteMetadata`).

Sending never fails in the models: the code ignores the results of `sendln` and
`printf`. Moderators can retire, delete and block other moderators although the
Readme and the comment at `eleven_users.cpp:549` say that they cannot: the models
follow the code.
