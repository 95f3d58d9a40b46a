------------------------------ MODULE FlatFile ------------------------------
(***************************************************************************)
(* The files of the flat file database (eleven_database_flatfile.cpp): the *)
(* accounts file, written anew after every change of an account, and the   *)
(* kick list of a channel, read when it is first needed and written anew   *)
(* after every kick.  Writing truncates the file and then appends one line *)
(* per record, each flushed, with mUsersLock held; the server may stop     *)
(* between any two lines and starts again with what the files have.        *)
(*                                                                         *)
(* Files may fail to open, and the disk may be full.  A record of which    *)
(* only the beginning was written loads like none, but when only its flags *)
(* are missing; numbers of several digits, of which some may be missing,   *)
(* are left out.                                                           *)
(***************************************************************************)
EXTENDS Database, Sequences, FiniteSets, Functions

CONSTANTS Threads,  \* threads of sessions that ask for the kick list
          NoFile,   \* of a file that does not exist
          NewFlags, \* the flags of new users
          Changes,  \* the changes of flags, each the flags set and cleared
          Faults,   \* which of "open", "full" and "crash" happen
          Targets,  \* the ids of users that are kicked
          MaxKicks  \* nobody is kicked when the list is as long as this

VARIABLES accountsFile, \* the records in the accounts file
          mKicklist,    \* the channel's entry in mKicklists
          kicklistFile, \* the ids in its file
          writing,      \* the file that is being written, and what is left
          calls,        \* per thread: the call of a kick list function
          accountsSaved, \* history: the last save wrote every account
          expected,     \* history: the accounts as last changed or loaded
          kicksSaved,   \* history: the same of the kick list
          kicked        \* history: users whose kick was reported as done

kickVars == <<mKicklist, kicklistFile, kicked, kicksSaved>>
accountVars == <<dbVars, accountsFile, accountsSaved, expected>>
vars == <<accountVars, kickVars, writing, calls>>

ASSUME FlatFileAssumption ==
  /\ Faults \subseteq {"open", "full", "crash"}
  /\ NewFlags \subseteq SUBSET Flags
  /\ Changes \subseteq (SUBSET Flags) \X (SUBSET Flags)
  /\ Targets \subseteq UserIds
  /\ MaxKicks \in Nat
  /\ NoFile \notin Seq(UserIds)

\* A plausible slip: lookups leave empty records in the map.
M_Records(users) == [u \in UserIds |-> users[u]]

\* The records of a map of users in the order of the map, that of the ids.
Records(users) ==
  LET ids == {u \in UserIds : users[u] # NoUser} IN
    [i \in 1 .. Cardinality(ids) |->
       users[CHOOSE u \in ids : Cardinality({w \in ids : w <= u}) = i]]

\* The loop of load_users.  No two records have the same id or name.
LoadedUsers(records) ==
  [u \in UserIds |->
     IF \E r \in Range(records) : r.mUserID = u
       THEN CHOOSE r \in Range(records) : r.mUserID = u
       ELSE NoUser]

LoadedNames(records) ==
  [n \in Names |->
     IF \E r \in Range(records) : r.mUserName = n
       THEN (CHOOSE r \in Range(records) : r.mUserName = n).mUserID
       ELSE 0]

NotWriting == [file |-> "none", rest |-> <<>>]

\* mUsersLock is free.
Unlocked == writing = NotWriting

NoCall == [at |-> "idle"]

Init ==
  /\ LoadUsers
  /\ accountsFile = Records(mUsers) /\ expected = mUsers
  /\ mKicklist = <<>> /\ kicklistFile = NoFile
  /\ writing = NotWriting
  /\ calls = [t \in Threads |-> NoCall]
  /\ accountsSaved = TRUE /\ kicksSaved = TRUE /\ kicked = {}

-----------------------------------------------------------------------------
\* A plausible slip: the accounts are saved before they are changed.
M_ToSave == Records(mUsers)

\* What the loop of save_users writes.
ToSave == Records(mUsers')

\* save_users up to the first record: the file is truncated, or cannot be
\* opened and stays as it is.
BeginSaveUsers(saved) ==
  /\ expected' = [u \in UserIds |->
       IF mUsers'[u] # mUsers[u] THEN mUsers'[u] ELSE expected[u]]
  /\ \/ /\ saved = TRUE
        /\ accountsFile' = <<>>
        /\ writing' = [file |-> "accounts", rest |-> ToSave]
        /\ UNCHANGED accountsSaved
     \/ /\ saved = FALSE /\ "open" \in Faults
        /\ accountsSaved' = FALSE
        /\ UNCHANGED <<accountsFile, writing>>

\* The functions of user_session that change an account look for their own
\* user among the accounts first, with usersLock held up to the change: it
\* has to be an owner or a moderator that is not banned.
Asked ==
  \E u \in UserIds :
    /\ mUsers[u].mUserFlags \intersect {"owner", "moderator"} # {}
    /\ mUsers[u].mUserFlags \intersect {"blocked", "retired"} = {}

AddUser(n, flags) ==
  /\ Unlocked /\ Asked
  /\ \E id \in UserIds : DbAddUser(n, flags, id)
  /\ \E saved \in BOOLEAN : BeginSaveUsers(saved)
  /\ UNCHANGED <<calls, kickVars>>

DeleteUser(id) ==
  /\ Unlocked /\ Asked /\ mUsers[id] # NoUser
  /\ DbDeleteUser(id)
  /\ \E saved \in BOOLEAN : BeginSaveUsers(saved)
  /\ UNCHANGED <<calls, kickVars>>

ChangeUserFlags(id, set, clear) ==
  /\ Unlocked /\ Asked /\ mUsers[id] # NoUser
  /\ \E saved \in BOOLEAN :
       DbChangeUserFlags(id, set, clear, saved) /\ BeginSaveUsers(saved)
  /\ UNCHANGED <<calls, kickVars>>

\* One turn of the loop of save_users.
WriteUser ==
  /\ writing.file = "accounts" /\ writing.rest # <<>>
  /\ accountsFile' = Append(accountsFile, Head(writing.rest))
  /\ writing' = [writing EXCEPT !.rest = Tail(@)]
  /\ UNCHANGED <<dbVars, calls, accountsSaved, expected, kickVars>>

\* Its end.
EndSaveUsers ==
  /\ writing.file = "accounts" /\ writing.rest = <<>>
  /\ writing' = NotWriting
  /\ accountsSaved' = TRUE
  /\ UNCHANGED <<dbVars, accountsFile, calls, expected, kickVars>>

\* When a record cannot be written, or all but its flags, the loop goes on
\* and writes no more; save_users does not notice.
DiskFullOfUsers ==
  /\ "full" \in Faults
  /\ writing.file = "accounts" /\ writing.rest # <<>>
  /\ accountsFile' \in
       {accountsFile,
        Append(accountsFile, [Head(writing.rest) EXCEPT !.mUserFlags = {}])}
  /\ writing' = NotWriting
  /\ accountsSaved' = FALSE
  /\ UNCHANGED <<dbVars, calls, expected, kickVars>>

-----------------------------------------------------------------------------
\* A plausible slip: only is_user_kicked_from_channel loads the list.
M_AfterTest(next) == IF mKicklist # <<>> \/ next = "push" THEN next ELSE "open"

\* The beginning of load_kicklist: a list that is not empty is loaded.
AfterTest(next) == IF mKicklist # <<>> THEN next ELSE "open"

\* A handler calls kick_user_from_channel or is_user_kicked_from_channel,
\* which go on at "push" or "look" when load_kicklist has returned.  For whom
\* somebody looks does not matter here.
Call(t, next, u) ==
  /\ calls[t] = NoCall /\ Unlocked
  /\ next = "push" =>
       /\ mUsers[u] # NoUser
       /\ Len(mKicklist) < MaxKicks
       /\ kicklistFile # NoFile => Len(kicklistFile) < MaxKicks
  /\ calls' = [calls EXCEPT ![t] =
       [at |-> AfterTest(next), next |-> next, user |-> u, loaded |-> TRUE]]
  /\ UNCHANGED <<accountVars, writing, kickVars>>

Goto(t, place) == calls' = [calls EXCEPT ![t].at = place]

\* Then, without the lock, it opens the file.  Its callers do not look at
\* its result.
OpenKicklist(t) ==
  /\ calls[t].at = "open"
  /\ Goto(t, IF kicklistFile # NoFile THEN "read" ELSE calls[t].next)
  /\ UNCHANGED <<accountVars, writing, kickVars>>

\* The file is there and cannot be opened: the call does not know its kicks.
OpenKicklistFails(t) ==
  /\ "open" \in Faults
  /\ calls[t].at = "open" /\ kicklistFile # NoFile
  /\ calls' = [calls EXCEPT ![t].at = calls[t].next, ![t].loaded = FALSE]
  /\ UNCHANGED <<accountVars, writing, kickVars>>

\* And it adds what is in the file to the list, under the lock again and
\* whatever the list has by now.
ReadKicklist(t) ==
  /\ calls[t].at = "read" /\ Unlocked
  /\ mKicklist' = mKicklist \o kicklistFile
  /\ Goto(t, calls[t].next)
  /\ UNCHANGED <<accountVars, writing, kicklistFile, kicked, kicksSaved>>

\* The rest of kick_user_from_channel, up to the first line that
\* save_kicklist writes.  Kicks that were not loaded are lost with the file.
Push(t) ==
  /\ calls[t].at = "push" /\ Unlocked
  /\ mKicklist' = Append(mKicklist, calls[t].user)
  /\ \/ /\ kicklistFile' = <<>>
        /\ writing' = [file |-> "kicklist", rest |-> mKicklist']
        /\ Goto(t, "save")
     \/ /\ "open" \in Faults
        /\ calls' = [calls EXCEPT ![t] = NoCall]
        /\ UNCHANGED <<kicklistFile, writing>>
  /\ kicked' = IF calls[t].loaded THEN kicked
                 ELSE kicked \intersect Range(mKicklist')
  /\ UNCHANGED <<accountVars, kicksSaved>>

WriteKick ==
  /\ writing.file = "kicklist" /\ writing.rest # <<>>
  /\ kicklistFile' = Append(kicklistFile, Head(writing.rest))
  /\ writing' = [writing EXCEPT !.rest = Tail(@)]
  /\ UNCHANGED <<accountVars, calls, mKicklist, kicked, kicksSaved>>

\* The end of save_kicklist and of the kick, which is reported as done.
EndKick(t, saved) ==
  /\ calls[t].at = "save"
  /\ writing' = NotWriting
  /\ kicksSaved' = saved
  /\ kicked' = kicked \union {calls[t].user}
  /\ calls' = [calls EXCEPT ![t] = NoCall]
  /\ UNCHANGED <<accountVars, mKicklist, kicklistFile>>

EndSaveKicklist(t) == writing.rest = <<>> /\ EndKick(t, TRUE)

DiskFullOfKicks(t) ==
  /\ "full" \in Faults
  /\ writing.rest # <<>> /\ EndKick(t, FALSE)

\* The rest of is_user_kicked_from_channel: the answer.
Look(t) ==
  /\ calls[t].at = "look" /\ Unlocked
  /\ calls' = [calls EXCEPT ![t] = NoCall]
  /\ UNCHANGED <<accountVars, writing, kickVars>>

-----------------------------------------------------------------------------
\* The accounts file has what save_users was last called to write.
Intact == accountsSaved /\ writing.file # "accounts"

\* load_users, whose result nobody looks at: it reads the file, or cannot open
\* it and leaves the maps of the new server empty.
StartUsers ==
  \/ /\ mUsers' = LoadedUsers(accountsFile)
     /\ mNamedUsers' = LoadedNames(accountsFile)
  \/ /\ "open" \in Faults
     /\ mUsers' = [u \in UserIds |-> NoUser]
     /\ mNamedUsers' = [n \in Names |-> 0]

\* The server ends, in the middle of a save only by a crash, and another one
\* starts.  What had not been written before a crash is lost.
Restart ==
  /\ Unlocked \/ "crash" \in Faults
  /\ StartUsers
  /\ expected' = IF Intact THEN expected ELSE LoadedUsers(accountsFile)
  /\ mKicklist' = <<>>
  /\ writing' = NotWriting
  /\ calls' = [t \in Threads |-> NoCall]
  /\ accountsSaved' = TRUE /\ kicksSaved' = TRUE
  /\ kicked' = IF kicksSaved /\ writing.file # "kicklist" THEN kicked
                 ELSE kicked \intersect Range(kicklistFile)
  /\ UNCHANGED <<accountsFile, kicklistFile>>

Next ==
  \/ \E n \in Names, flags \in NewFlags : AddUser(n, flags)
  \/ \E id \in UserIds : DeleteUser(id)
  \/ \E id \in UserIds, c \in Changes : ChangeUserFlags(id, c[1], c[2])
  \/ WriteUser \/ EndSaveUsers \/ DiskFullOfUsers
  \/ \E t \in Threads :
       \/ \E u \in Targets : Call(t, "push", u)
       \/ Call(t, "look", 0)
       \/ OpenKicklist(t) \/ OpenKicklistFails(t)
       \/ ReadKicklist(t) \/ Push(t) \/ Look(t)
       \/ EndSaveKicklist(t) \/ DiskFullOfKicks(t)
  \/ WriteKick
  \/ Restart

Spec == Init /\ [][Next]_vars

-----------------------------------------------------------------------------
FlatFileTypeOK ==
  /\ DatabaseTypeOK
  /\ accountsFile \in Seq(User)
  /\ expected \in [UserIds -> User \union {NoUser}]
  /\ mKicklist \in Seq(UserIds)
  /\ kicklistFile \in Seq(UserIds) \union {NoFile}
  /\ writing \in {NotWriting}
       \union [file : {"accounts"}, rest : Seq(User)]
       \union [file : {"kicklist"}, rest : Seq(UserIds)]
  /\ calls \in [Threads -> {NoCall} \union
       [at : {"open", "read", "push", "look", "save"},
        next : {"push", "look"}, user : UserIds \union {0}, loaded : BOOLEAN]]
  /\ accountsSaved \in BOOLEAN /\ kicksSaved \in BOOLEAN
  /\ kicked \in SUBSET UserIds

(***************************************************************************)
(* No restart changes an account: however often the server stops and       *)
(* starts, what load_users would read is what the accounts were last       *)
(* changed to, unless a save is under way or the last one failed to open   *)
(* the file or to write all of it.  The server has these accounts in       *)
(* memory, or none at all after a start at which the file could not be     *)
(* opened (eleven_database_flatfile.cpp:209); nobody can log in then, so   *)
(* that the server does not overwrite the file it has not read.            *)
(***************************************************************************)
RestartKeepsAccounts ==
  /\ Intact => LoadedUsers(accountsFile) = expected
  /\ mUsers = expected \/ \A u \in UserIds : mUsers[u] = NoUser

(***************************************************************************)
(* A kick that was reported as done is known to whoever looks at the kick  *)
(* list later, also after a restart and whoever else loads or extends the  *)
(* list at the same time: when load_kicklist returns to its caller, the    *)
(* list has every such kick.  Only a crash or a full disk while the list   *)
(* is written, or a file that is there and cannot be opened, lose kicks.   *)
(***************************************************************************)
KickIsKnown ==
  \A t \in Threads :
    calls[t].at \in {"push", "look"} /\ calls[t].loaded =>
      kicked \subseteq Range(mKicklist)
=============================================================================
