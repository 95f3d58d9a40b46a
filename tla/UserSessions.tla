---------------------------- MODULE UserSessions ----------------------------
(***************************************************************************)
(* The connections of the chat server and the users logged in on them:     *)
(* chatserver (accepting and the loop of a session's thread), the socket   *)
(* state of session, and user_session with all of its handlers.            *)
(*                                                                         *)
(* A member of Sessions is one connection.  Its thread runs                *)
(* chatserver::session_thread; pc says what it does next.  The threads     *)
(* share the registry loggedInUsers and the flag shuttingDown, guarded by  *)
(* usersLock, and act on each other's socket under its mSessionLock.       *)
(*                                                                         *)
(*   - usersLock is a variable because a thread may keep it while it waits *)
(*     for the mSessionLock of another session.                            *)
(*   - mSessionLock is held across steps only by a thread waiting for its  *)
(*     client in readln, that is when pc[s] = "reading"; everything else   *)
(*     it protects is one step.                                            *)
(*   - mUserSessionLock is only ever taken by a session's own thread or by *)
(*     the owner of usersLock for the time of one read, so it never adds a *)
(*     wait and has no variable.                                           *)
(***************************************************************************)
EXTENDS Database

CONSTANTS Sessions,  \* connections the server accepts in its lifetime
          NoSession, \* no connection: a free lock, an absent map entry
          Lines,     \* the commands clients send
          ChannelNames, \* the channels clients mention
          NoChannel, \* a command that names no channel
          Garbage,   \* what an uninitialized mCurrentUser may hold; any
                     \* value that is no user's id acts like 0
          Warnings   \* broadcasts of the shutdown countdown, 10 in the code

VARIABLES
  pc,            \* what each session's thread does next
  open,          \* mSSLSocket is not NULL and mKeepRunningFlag is set
  line,          \* the command the thread is working on
  target,        \* the user id the command was resolved to
  attached,      \* the session has a user_session in mSessionData
  mCurrentUser,  \* the user_session's field of that name
  loggedInUsers, \* whose user_session each user id leads to
  usersLock,     \* the session whose thread holds the lock
  todo,          \* ids the current loop over loggedInUsers has not reached
  warnings,      \* countdown broadcasts a shutdown still has to send
  shuttingDown,
  mKeepRunning,  \* the chatserver accepts connections
  account,       \* history: the name each session logged in with
  lost,          \* history: sessions another's destructor unregistered
  spared         \* history: sessions left alone after a failed save

threadVars == <<pc, line, target>>
userVars == <<attached, mCurrentUser, loggedInUsers>>
shutdownVars == <<todo, warnings, shuttingDown, mKeepRunning>>
historyVars == <<account, lost, spared>>
vars == <<dbVars, threadVars, open, userVars, usersLock, shutdownVars,
          historyVars>>

Commands == {"/login", "/adduser", "/deleteuser", "/retireuser", "/blockuser",
             "/makemoderator", "/makeowner", "/logout", "/version",
             "/shutdown", "/join", "/leave", "/kick", "*"}

\* A command line: its first word, the user and the channel it names, whether
\* the further words are as they should be (the right password, the same name
\* or password twice, "yes"), and the flags an /adduser asks for.
Line == [command : Commands, name : Names, good : BOOLEAN,
         flags : SUBSET {"owner", "moderator"},
         channel : ChannelNames \union {NoChannel}]

NoLine == [command |-> "", name |-> NoName, good |-> FALSE, flags |-> {},
           channel |-> NoChannel]

ASSUME SessionsAssumption ==
  /\ NoSession \notin Sessions
  /\ NoChannel \notin ChannelNames
  /\ Lines \subseteq Line
  /\ Garbage \subseteq UserIds \union {0}
  /\ Warnings \in Nat

Registered == {u \in UserIds : loggedInUsers[u] # NoSession}

UsersLockFree == usersLock = NoSession

\* Nobody is in readln on session s, so its mSessionLock can be taken.
SessionLockFree(s) == pc[s] # "reading"

-----------------------------------------------------------------------------
Init ==
  /\ LoadUsers
  /\ pc = [s \in Sessions |-> "unborn"]
  /\ open = [s \in Sessions |-> FALSE]
  /\ line = [s \in Sessions |-> NoLine]
  /\ target = [s \in Sessions |-> 0]
  /\ attached = [s \in Sessions |-> FALSE]
  /\ mCurrentUser = [s \in Sessions |-> 0]
  /\ loggedInUsers = [u \in UserIds |-> NoSession]
  /\ usersLock = NoSession
  /\ todo = {}
  /\ warnings = [s \in Sessions |-> 0]
  /\ shuttingDown = FALSE
  /\ mKeepRunning = TRUE
  /\ account = [s \in Sessions |-> NoName]
  /\ lost = {}
  /\ spared = {}

GoTo(s, label) == pc' = [pc EXCEPT ![s] = label]

\* The handler is done and the thread goes back to the loop of
\* session_thread.
Return(s) ==
  /\ GoTo(s, "idle")
  /\ line' = [line EXCEPT ![s] = NoLine]
  /\ target' = [target EXCEPT ![s] = 0]

\* disconnect() on session s, or force_disconnect().
Disconnect(s) == open' = [open EXCEPT ![s] = FALSE]

\* The command a dispatched thread found a handler for.
Handles(s, command) ==
  /\ pc[s] = "dispatch"
  /\ line[s].command = command

-----------------------------------------------------------------------------
(* The connection: accept, the loop of session_thread and readln.          *)

\* session's constructor: the settings, the certificate and the SSL handshake
\* are in order, or the session is not valid and its thread ends at once.
Handshake(s) ==
  \/ GoTo(s, "idle") /\ open' = [open EXCEPT ![s] = TRUE]
  \/ GoTo(s, "done") /\ UNCHANGED open

\* wait_for_connection accepts a client and starts its thread.
Connect(s) ==
  /\ pc[s] = "unborn"
  /\ mKeepRunning
  /\ Handshake(s)
  /\ UNCHANGED <<dbVars, line, target, userVars, usersLock, shutdownVars,
                 historyVars>>

\* The thread enters readln and keeps mSessionLock until a line is there.
BeginRead(s) ==
  /\ pc[s] = "idle"
  /\ open[s]
  /\ GoTo(s, "reading")
  /\ UNCHANGED <<dbVars, open, line, target, userVars, usersLock,
                 shutdownVars, historyVars>>

\* readln returns a line.  After an SSL error it has disconnected the
\* session, yet what it read so far is dispatched like any line.
ReceiveLine(s, l) ==
  /\ pc[s] = "reading"
  /\ GoTo(s, "dispatch")
  /\ line' = [line EXCEPT ![s] = l]
  /\ UNCHANGED open \/ Disconnect(s)
  /\ UNCHANGED <<dbVars, target, userVars, usersLock, shutdownVars,
                 historyVars>>

\* The client closes the connection: SSL_read returns 0, readln fails and the
\* loop is left, but the session is not disconnected yet.
HangUp(s) ==
  /\ pc[s] = "reading"
  /\ GoTo(s, "ending")
  /\ UNCHANGED <<dbVars, open, line, target, userVars, usersLock,
                 shutdownVars, historyVars>>

\* A plausible slip: an ending thread lets go of the user_session, and its
\* destructor leaves the registry alone.
M_EndDropsUser(s) ==
  /\ pc[s] = "ending" \/ (pc[s] = "idle" /\ ~open[s])
  /\ GoTo(s, "done")
  /\ Disconnect(s)
  /\ attached' = [attached EXCEPT ![s] = FALSE]
  /\ UNCHANGED <<dbVars, line, target, mCurrentUser, loggedInUsers, usersLock,
                 shutdownVars, historyVars>>

\* The thread leaves its loop, after a failed readln or because keep_running
\* is false.  A session with a user_session attached is kept alive by it: the
\* two own each other, so neither destructor runs.
End(s) ==
  /\ pc[s] = "ending" \/ (pc[s] = "idle" /\ ~open[s])
  /\ GoTo(s, "done")
  /\ Disconnect(s)
  /\ UNCHANGED <<dbVars, line, target, userVars, usersLock, shutdownVars,
                 historyVars>>

-----------------------------------------------------------------------------
(* /login                                                                  *)

\* login_handler up to the call of log_in.  The new user_session's
\* mCurrentUser is not initialized.
LoginHandler(s) ==
  /\ Handles(s, "/login")
  /\ \/ /\ shuttingDown
        /\ Disconnect(s)
        /\ Return(s)
        /\ UNCHANGED mCurrentUser
     \/ /\ ~shuttingDown
        /\ attached[s]
        /\ Return(s)
        /\ UNCHANGED <<open, mCurrentUser>>
     \/ /\ ~shuttingDown
        /\ ~attached[s]
        /\ \E g \in Garbage : mCurrentUser' = [mCurrentUser EXCEPT ![s] = g]
        /\ GoTo(s, "check")
        /\ UNCHANGED <<open, line, target>>
  /\ UNCHANGED <<dbVars, attached, loggedInUsers, usersLock, shutdownVars,
                 historyVars>>

\* log_in reads shuttingDown again, still without usersLock.
LogInCheck(s) ==
  /\ pc[s] = "check"
  /\ \/ shuttingDown /\ Disconnect(s) /\ GoTo(s, "forget")
     \/ ~shuttingDown /\ GoTo(s, "log_in") /\ UNCHANGED open
  /\ UNCHANGED <<dbVars, line, target, userVars, usersLock, shutdownVars,
                 historyVars>>

Banned(u) == u.mUserFlags \intersect {"blocked", "retired"} # {}

\* A plausible slip: a login does not look at the flags.
M_MayLogInBanned(u, good) == u.mUserID # 0 /\ good

MayLogIn(u, good) == u.mUserID # 0 /\ ~Banned(u) /\ good

\* Enter user u's session s into the registry and let go of usersLock.
Register(s, u, name) ==
  /\ loggedInUsers' = [loggedInUsers EXCEPT ![u] = s]
  /\ account' = [account EXCEPT ![s] = name]
  /\ usersLock' = NoSession
  /\ GoTo(s, "attach")

\* A plausible slip: log_in overwrites the registry entry of an earlier
\* session without disconnecting it.
M_LogInKeepsOld(s) ==
  /\ pc[s] = "log_in"
  /\ UsersLockFree
  /\ LET u == user_from_name(line[s].name) IN
     \/ /\ ~MayLogIn(u, line[s].good)
        /\ GoTo(s, "forget")
        /\ UNCHANGED <<mCurrentUser, loggedInUsers, usersLock, account>>
     \/ /\ MayLogIn(u, line[s].good)
        /\ mCurrentUser' = [mCurrentUser EXCEPT ![s] = u.mUserID]
        /\ Register(s, u.mUserID, line[s].name)
  /\ UNCHANGED <<dbVars, open, line, target, attached, shutdownVars, lost,
                 spared>>

\* log_in under usersLock.  When the user has a session already it is to be
\* disconnected first, and usersLock is kept until that is done.
LogIn(s) ==
  /\ pc[s] = "log_in"
  /\ UsersLockFree
  /\ LET u == user_from_name(line[s].name) IN
     \/ /\ ~MayLogIn(u, line[s].good)
        /\ GoTo(s, "forget")
        /\ UNCHANGED <<mCurrentUser, loggedInUsers, usersLock, account>>
     \/ /\ MayLogIn(u, line[s].good)
        /\ mCurrentUser' = [mCurrentUser EXCEPT ![s] = u.mUserID]
        /\ IF loggedInUsers[u.mUserID] = NoSession
             THEN Register(s, u.mUserID, line[s].name)
             ELSE /\ usersLock' = s
                  /\ GoTo(s, "evict")
                  /\ UNCHANGED <<loggedInUsers, account>>
  /\ UNCHANGED <<dbVars, open, line, target, attached, shutdownVars, lost,
                 spared>>

\* "Only allow one session per user at a time": disconnect the session the
\* user had, as soon as its mSessionLock is free, and take its place.
EvictForLogin(s) ==
  /\ pc[s] = "evict"
  /\ SessionLockFree(loggedInUsers[mCurrentUser[s]])
  /\ Disconnect(loggedInUsers[mCurrentUser[s]])
  /\ Register(s, mCurrentUser[s], line[s].name)
  /\ UNCHANGED <<dbVars, line, target, attached, mCurrentUser, shutdownVars,
                 lost, spared>>

\* attach_sessiondata after a successful log_in.
Attach(s) ==
  /\ pc[s] = "attach"
  /\ attached' = [attached EXCEPT ![s] = TRUE]
  /\ Return(s)
  /\ UNCHANGED <<dbVars, open, mCurrentUser, loggedInUsers, usersLock,
                 shutdownVars, historyVars>>

\* The failed login's user_session is destroyed.  Its destructor erases the
\* entry of mCurrentUser, which log_in never set.
Forget(s) ==
  /\ pc[s] = "forget"
  /\ UsersLockFree
  /\ loggedInUsers' = [u \in UserIds |->
       IF u = mCurrentUser[s] THEN NoSession ELSE loggedInUsers[u]]
  /\ lost' = lost \union
       {loggedInUsers[u] : u \in Registered \intersect {mCurrentUser[s]}}
  /\ mCurrentUser' = [mCurrentUser EXCEPT ![s] = 0]
  /\ Return(s)
  /\ UNCHANGED <<dbVars, open, attached, usersLock, shutdownVars, account,
                 spared>>

-----------------------------------------------------------------------------
(* Commands on other users                                                 *)

\* The checks every one of block_user, retire_user, delete_user, add_user and
\* change_user_flags starts with.
Acting(a) ==
  /\ a.mUserID # 0
  /\ ~Banned(a)
  /\ a.mUserFlags \intersect {"moderator", "owner"} # {}

MayBlock(a, v) ==
  /\ Acting(a)
  /\ v.mUserID # 0
  /\ ~("moderator" \in a.mUserFlags /\ "owner" \in v.mUserFlags)

\* retire_user and delete_user: nobody removes an owner.
MayRemove(a, v) == MayBlock(a, v) /\ "owner" \notin v.mUserFlags

\* A plausible slip: add_user does not look at the flags asked for.
M_MayAddAnyRank(a, flags) == Acting(a)

\* Names and passwords are not empty here; add_user turns empty ones away.
MayAdd(a, flags) ==
  /\ Acting(a)
  /\ flags \intersect {"owner", "moderator"} # {} => "owner" \in a.mUserFlags

\* The flags /makemoderator and /makeowner change are both an owner's matter.
MayChange(a, v) ==
  /\ Acting(a)
  /\ v.mUserID # 0
  /\ "owner" \in a.mUserFlags

Self(s) == user_from_id(mCurrentUser[s])

\* The first part of blockuser_handler, retireuser_handler and
\* makemoderator_handler: the name is resolved before usersLock is taken.
FindTarget(s) ==
  /\ pc[s] = "dispatch"
  /\ line[s].command \in {"/blockuser", "/retireuser", "/makemoderator"}
  /\ \/ /\ attached[s]
        /\ line[s].good \/ line[s].command = "/makemoderator"
        /\ target' = [target EXCEPT ![s] = user_from_name(line[s].name).mUserID]
        /\ GoTo(s, "act")
        /\ UNCHANGED line
     \/ /\ \/ ~attached[s]
           \/ ~line[s].good /\ line[s].command # "/makemoderator"
        /\ Return(s)
  /\ UNCHANGED <<dbVars, open, userVars, usersLock, shutdownVars,
                 historyVars>>

\* A plausible slip: the banned user's session is not disconnected.
M_BanOnly(s, id) ==
  /\ Return(s)
  /\ UNCHANGED usersLock

\* The end of block_user, retire_user and delete_user: if user id has a
\* session, keep usersLock until that session is disconnected.
LogOutUser(s, id) ==
  IF loggedInUsers[id] = NoSession
    THEN Return(s) /\ UNCHANGED usersLock
    ELSE /\ GoTo(s, "ban")
         /\ target' = [target EXCEPT ![s] = id]
         /\ usersLock' = s
         /\ UNCHANGED line

\* Set flag on user id.  When the save fails the record has changed but the
\* command is given up, and the user's session stays as it is.
Ban(s, id, flag) ==
  \E saved \in SaveResults :
    /\ DbChangeUserFlags(id, {flag}, {}, saved)
    /\ IF saved
         THEN LogOutUser(s, id) /\ UNCHANGED spared
         ELSE /\ Return(s)
              /\ spared' = spared \union ({loggedInUsers[id]} \ {NoSession})
              /\ UNCHANGED usersLock

\* What block_user and retire_user have in common.
BanUser(s, may, flag) ==
  /\ pc[s] = "act"
  /\ UsersLockFree
  /\ \/ may /\ Ban(s, target[s], flag)
     \/ ~may /\ Return(s) /\ UNCHANGED <<dbVars, usersLock, spared>>
  /\ UNCHANGED <<open, userVars, shutdownVars, account, lost>>

BlockUser(s) ==
  /\ line[s].command = "/blockuser"
  /\ BanUser(s, MayBlock(Self(s), user_from_id(target[s])), "blocked")

RetireUser(s) ==
  /\ line[s].command = "/retireuser"
  /\ BanUser(s, MayRemove(Self(s), user_from_id(target[s])), "retired")

\* deleteuser_handler and delete_user: the lookup is under usersLock too, and
\* the result of the save is ignored.
DeleteUser(s) ==
  /\ Handles(s, "/deleteuser")
  /\ UsersLockFree \/ ~attached[s] \/ ~line[s].good
  /\ LET v == user_from_name(line[s].name)
         may == attached[s] /\ line[s].good /\ MayRemove(Self(s), v)
     IN \/ may /\ DbDeleteUser(v.mUserID) /\ LogOutUser(s, v.mUserID)
        \/ ~may /\ Return(s) /\ UNCHANGED <<dbVars, usersLock>>
  /\ UNCHANGED <<open, userVars, shutdownVars, historyVars>>

\* A plausible slip: usersLock is not released after a ban that had to wait.
M_LogOutBanned(s) ==
  /\ pc[s] = "ban"
  /\ SessionLockFree(loggedInUsers[target[s]])
  /\ Disconnect(loggedInUsers[target[s]])
  /\ Return(s)
  /\ UNCHANGED <<dbVars, userVars, usersLock, shutdownVars, historyVars>>

\* Disconnect the user the command banned or deleted; the registry keeps the
\* entry.
LogOutBanned(s) ==
  /\ pc[s] = "ban"
  /\ SessionLockFree(loggedInUsers[target[s]])
  /\ Disconnect(loggedInUsers[target[s]])
  /\ usersLock' = NoSession
  /\ Return(s)
  /\ UNCHANGED <<dbVars, userVars, shutdownVars, historyVars>>

\* change_user_flags as /makemoderator and /makeowner call it.
ChangeUserFlags(s, id, flag) ==
  \/ /\ MayChange(Self(s), user_from_id(id))
     /\ \E saved \in SaveResults :
          IF line[s].good THEN DbChangeUserFlags(id, {flag}, {}, saved)
                          ELSE DbChangeUserFlags(id, {}, {flag}, saved)
  \/ /\ ~MayChange(Self(s), user_from_id(id))
     /\ UNCHANGED dbVars

MakeModerator(s) ==
  /\ pc[s] = "act"
  /\ line[s].command = "/makemoderator"
  /\ UsersLockFree
  /\ ChangeUserFlags(s, target[s], "moderator")
  /\ Return(s)
  /\ UNCHANGED <<open, userVars, usersLock, shutdownVars, historyVars>>

\* makeowner_handler resolves the name under usersLock.
MakeOwner(s) ==
  /\ Handles(s, "/makeowner")
  /\ \/ /\ attached[s]
        /\ UsersLockFree
        /\ ChangeUserFlags(s, user_from_name(line[s].name).mUserID, "owner")
     \/ /\ ~attached[s]
        /\ UNCHANGED dbVars
  /\ Return(s)
  /\ UNCHANGED <<open, userVars, usersLock, shutdownVars, historyVars>>

\* adduser_handler and add_user.
AddUser(s) ==
  /\ Handles(s, "/adduser")
  /\ UsersLockFree \/ ~attached[s] \/ ~line[s].good
  /\ LET may == /\ attached[s]
                /\ line[s].good
                /\ MayAdd(Self(s), line[s].flags)
                /\ user_from_name(line[s].name).mUserID = 0
     IN \/ /\ may
           /\ \E id \in UserIds \union {0} :
                DbAddUser(line[s].name, line[s].flags, id)
        \/ ~may /\ UNCHANGED dbVars
  /\ Return(s)
  /\ UNCHANGED <<open, userVars, usersLock, shutdownVars, historyVars>>

\* /logout, whose handler is in main.cpp.
Logout(s) ==
  /\ Handles(s, "/logout")
  /\ Disconnect(s)
  /\ Return(s)
  /\ UNCHANGED <<dbVars, userVars, usersLock, shutdownVars, historyVars>>

\* The other commands change nothing here.  What those of the channels do is
\* in the module Channels.
OtherCommand(s) ==
  /\ pc[s] = "dispatch"
  /\ line[s].command \in {"/version", "/join", "/leave", "/kick", "*"}
  /\ Return(s)
  /\ UNCHANGED <<dbVars, open, userVars, usersLock, shutdownVars,
                 historyVars>>

-----------------------------------------------------------------------------
(* /shutdown                                                               *)

\* shutdown_handler reads shuttingDown without usersLock.
ShutdownHandler(s) ==
  /\ Handles(s, "/shutdown")
  /\ \/ shuttingDown /\ Disconnect(s) /\ Return(s)
     \/ ~shuttingDown /\ ~attached[s] /\ Return(s) /\ UNCHANGED open
     \/ /\ ~shuttingDown
        /\ attached[s]
        /\ GoTo(s, "authorize")
        /\ UNCHANGED <<open, line, target>>
  /\ UNCHANGED <<dbVars, userVars, usersLock, shutdownVars, historyVars>>

\* my_user_flags, which takes usersLock for itself.
Authorize(s) ==
  /\ pc[s] = "authorize"
  /\ UsersLockFree
  /\ LET u == Self(s)
         may == u.mUserID # 0 /\ ~Banned(u) /\ "owner" \in u.mUserFlags
     IN \/ may /\ GoTo(s, "announce") /\ UNCHANGED <<line, target>>
        \/ ~may /\ Return(s)
  /\ UNCHANGED <<dbVars, open, userVars, usersLock, shutdownVars,
                 historyVars>>

\* A plausible slip: a loop leaves out the session that shuts the server down.
M_BeginLoop(s, label) ==
  /\ UsersLockFree
  /\ usersLock' = s
  /\ todo' = {u \in Registered : loggedInUsers[u] # s}
  /\ GoTo(s, label)

\* Take usersLock and start a loop over loggedInUsers.
BeginLoop(s, label) ==
  /\ UsersLockFree
  /\ usersLock' = s
  /\ todo' = Registered
  /\ GoTo(s, label)

\* The next entry of the loop, in the map's order, once the lock of its
\* session is free.
Visit(u) ==
  /\ u \in todo
  /\ \A v \in todo : u <= v
  /\ SessionLockFree(loggedInUsers[u])
  /\ todo' = todo \ {u}

\* A plausible slip: usersLock is not released when the loop is done.
M_EndLoopKeepsLock(s, label) ==
  /\ todo = {}
  /\ GoTo(s, label)
  /\ UNCHANGED <<todo, usersLock>>

\* All entries had their turn.
EndLoop(s, label) ==
  /\ todo = {}
  /\ usersLock' = NoSession
  /\ GoTo(s, label)
  /\ UNCHANGED todo

\* shuttingDown is set and the first warning goes out under one usersLock.
Announce(s) ==
  /\ pc[s] = "announce"
  /\ BeginLoop(s, "warn")
  /\ shuttingDown' = TRUE
  /\ warnings' = [warnings EXCEPT ![s] = Warnings]
  /\ UNCHANGED <<dbVars, open, line, target, userVars, mKeepRunning,
                 historyVars>>

\* broadcast_printf: one session gets the warning, or all had it.
Warn(s) ==
  /\ pc[s] = "warn"
  /\ \/ (\E u \in UserIds : Visit(u)) /\ UNCHANGED <<pc, usersLock>>
     \/ EndLoop(s, "linger")
  /\ UNCHANGED <<dbVars, open, line, target, userVars, warnings,
                 shuttingDown, mKeepRunning, historyVars>>

\* A plausible slip: the countdown runs one broadcast too far.
M_LingerPastZero(s) ==
  /\ pc[s] = "linger"
  /\ BeginLoop(s, "warn")
  /\ warnings' = [warnings EXCEPT ![s] = @ - 1]
  /\ UNCHANGED <<dbVars, open, line, target, userVars, shuttingDown,
                 mKeepRunning, historyVars>>

\* A plausible slip: the countdown does not count.
M_LingerForever(s) ==
  /\ pc[s] = "linger"
  /\ \/ warnings[s] > 0 /\ BeginLoop(s, "warn")
     \/ warnings[s] = 0 /\ BeginLoop(s, "sweep")
  /\ UNCHANGED <<dbVars, open, line, target, userVars, warnings,
                 shuttingDown, mKeepRunning, historyVars>>

\* The next broadcast of the countdown, or the loop that disconnects.
Linger(s) ==
  /\ pc[s] = "linger"
  /\ \/ /\ warnings[s] > 0
        /\ BeginLoop(s, "warn")
        /\ warnings' = [warnings EXCEPT ![s] = @ - 1]
     \/ /\ warnings[s] = 0
        /\ BeginLoop(s, "sweep")
        /\ UNCHANGED warnings
  /\ UNCHANGED <<dbVars, open, line, target, userVars, shuttingDown,
                 mKeepRunning, historyVars>>

\* "Forcibly disconnect any stragglers", one at a time.
Sweep(s) ==
  /\ pc[s] = "sweep"
  /\ \/ /\ \E u \in UserIds : Visit(u) /\ Disconnect(loggedInUsers[u])
        /\ UNCHANGED <<pc, usersLock>>
     \/ EndLoop(s, "close") /\ UNCHANGED open
  /\ UNCHANGED <<dbVars, line, target, userVars, warnings, shuttingDown,
                 mKeepRunning, historyVars>>

\* chatserver::shut_down.
ShutDown(s) ==
  /\ pc[s] = "close"
  /\ mKeepRunning' = FALSE
  /\ Return(s)
  /\ UNCHANGED <<dbVars, open, userVars, usersLock, todo, warnings,
                 shuttingDown, historyVars>>

\* Once nothing is accepted any more wait_for_connection leaves its loop, main
\* returns, and the process ends with all of its threads, wherever they are.
EndProcess ==
  /\ ~mKeepRunning
  /\ pc' = [s \in Sessions |-> "done"]
  /\ open' = [s \in Sessions |-> FALSE]
  /\ line' = [s \in Sessions |-> NoLine]
  /\ target' = [s \in Sessions |-> 0]
  /\ attached' = [s \in Sessions |-> FALSE]
  /\ mCurrentUser' = [s \in Sessions |-> 0]
  /\ loggedInUsers' = [u \in UserIds |-> NoSession]
  /\ usersLock' = NoSession
  /\ todo' = {}
  /\ UNCHANGED <<dbVars, warnings, shuttingDown, mKeepRunning, historyVars>>

-----------------------------------------------------------------------------
ClientStep(s) ==
  \/ \E l \in Lines : ReceiveLine(s, l)
  \/ HangUp(s)

LoginStep(s) ==
  \/ LoginHandler(s)
  \/ LogInCheck(s)
  \/ LogIn(s)
  \/ EvictForLogin(s)
  \/ Attach(s)
  \/ Forget(s)

AdminStep(s) ==
  \/ FindTarget(s)
  \/ BlockUser(s)
  \/ RetireUser(s)
  \/ DeleteUser(s)
  \/ LogOutBanned(s)
  \/ MakeModerator(s)
  \/ MakeOwner(s)
  \/ AddUser(s)

ShutdownStep(s) ==
  \/ ShutdownHandler(s)
  \/ Authorize(s)
  \/ Announce(s)
  \/ Warn(s)
  \/ Linger(s)
  \/ Sweep(s)
  \/ ShutDown(s)

ThreadStep(s) ==
  \/ BeginRead(s)
  \/ End(s)
  \/ LoginStep(s)
  \/ AdminStep(s)
  \/ Logout(s)
  \/ OtherCommand(s)
  \/ ShutdownStep(s)

\* Every connection there was has ended and no more can come.
Finished ==
  /\ \A s \in Sessions :
       pc[s] = "done" \/ (pc[s] = "unborn" /\ ~mKeepRunning)
  /\ UNCHANGED vars

Next ==
  \/ \E s \in Sessions : Connect(s) \/ ClientStep(s) \/ ThreadStep(s)
  \/ EndProcess
  \/ Finished

Spec == Init /\ [][Next]_vars

\* The scheduler runs every thread, and a thread that waits for a lock gets
\* it if the lock is free again and again.
ThreadFairness == \A s \in Sessions : SF_vars(ThreadStep(s))

\* No client stays connected and silent for ever.
ClientFairness == \A s \in Sessions : WF_vars(ClientStep(s))

FairSpec == Spec /\ ThreadFairness /\ ClientFairness
-----------------------------------------------------------------------------
(* Properties                                                              *)

Labels == {"unborn", "idle", "reading", "dispatch", "ending", "done",
           "check", "log_in", "evict", "attach", "forget", "act", "ban",
           "authorize", "announce", "warn", "linger", "sweep", "close"}

\* The type invariant: every variable holds a value of its type; the
\* database's part is DatabaseTypeOK.
TypeOK ==
  /\ DatabaseTypeOK
  /\ pc \in [Sessions -> Labels]
  /\ open \in [Sessions -> BOOLEAN]
  /\ line \in [Sessions -> Lines \union {NoLine}]
  /\ target \in [Sessions -> UserIds \union {0}]
  /\ attached \in [Sessions -> BOOLEAN]
  /\ mCurrentUser \in [Sessions -> UserIds \union {0}]
  /\ loggedInUsers \in [UserIds -> Sessions \union {NoSession}]
  /\ usersLock \in Sessions \union {NoSession}
  /\ todo \subseteq UserIds
  /\ warnings \in [Sessions -> 0 .. Warnings]
  /\ shuttingDown \in BOOLEAN
  /\ mKeepRunning \in BOOLEAN
  /\ account \in [Sessions -> Names \union {NoName}]
  /\ lost \subseteq Sessions
  /\ spared \subseteq Sessions

\* The session has logged in; from "attach" on the registry knows of it.
LoggedIn(s) == attached[s] \/ pc[s] = "attach"

(***************************************************************************)
(* loggedInUsers holds weak pointers, and session_for_user and the loops   *)
(* over the map follow them unchecked (eleven_users.cpp:334, 357, 860).    *)
(* An entry must therefore always lead to a user_session that still exists *)
(* and that is logged in as that user: never to one whose login failed.    *)
(***************************************************************************)
RegistryOK ==
  \A u \in Registered :
    /\ LoggedIn(loggedInUsers[u])
    /\ mCurrentUser[loggedInUsers[u]] = u

(***************************************************************************)
(* "Only allow one session per user at a time" (eleven_users.cpp:421): of  *)
(* all sessions whose entry no failed login's destructor has erased, at    *)
(* most one that is logged in as a given user is connected.                *)
(***************************************************************************)
OneSessionPerUser ==
  \A s, t \in Sessions \ lost :
    /\ open[s] /\ LoggedIn(s)
    /\ open[t] /\ LoggedIn(t)
    /\ mCurrentUser[s] = mCurrentUser[t]
    => s = t

\* A command that banned or deleted user u is about to disconnect u.
BeingLoggedOut(u) ==
  \E s \in Sessions : pc[s] = "ban" /\ target[s] = u

(***************************************************************************)
(* What delete_user and add_user make of ids, and log_in of names, never   *)
(* hands a connected session another account: its id is still that of the  *)
(* name it logged in with, unless the account was just deleted and the     *)
(* session is being disconnected.  Ids are reused, so this rests on the    *)
(* disconnect happening before usersLock is released.                      *)
(***************************************************************************)
SessionKeepsAccount ==
  \A s \in Sessions \ lost :
    open[s] /\ LoggedIn(s) =>
      \/ Self(s).mUserName = account[s]
      \/ BeingLoggedOut(mCurrentUser[s])

(***************************************************************************)
(* A blocked or retired user is offline: the session of a user who gets    *)
(* banned is disconnected by the ban (eleven_users.cpp:497, 571), and no   *)
(* login slips in between.  Sessions whose ban could not be saved are      *)
(* excepted: the code sets the flag and then gives up.                     *)
(***************************************************************************)
BannedIsOffline ==
  \A s \in Sessions \ (lost \union spared) :
    open[s] /\ LoggedIn(s) =>
      \/ ~Banned(Self(s))
      \/ BeingLoggedOut(mCurrentUser[s])

(***************************************************************************)
(* "Forcibly disconnect any stragglers (shuttingDown takes care nobody new *)
(* can log on, so does the log)" (eleven_users.cpp:329): while the last    *)
(* loop of a shutdown waits for one session after the other, everybody who *)
(* is connected and logged in is still ahead of it, so that at its end     *)
(* nobody is, except on sessions that a failed login's destructor took out *)
(* of the registry (lost).  It holds although shuttingDown alone does not  *)
(* keep logins out.                                                        *)
(***************************************************************************)
NobodyStays ==
  \A s \in Sessions : pc[s] = "sweep" =>
    \A t \in Sessions \ lost :
      open[t] /\ LoggedIn(t) => mCurrentUser[t] \in todo

HasFlag(a, flag) == flag \in a.mUserFlags

OwnerNames == {a.mUserName : a \in {b \in Accounts : HasFlag(b, "owner")}}

ModeratorNames ==
  {a.mUserName : a \in {b \in Accounts : HasFlag(b, "moderator")}}

(***************************************************************************)
(* Ranks come from owners only: as long as nobody has logged in as one of  *)
(* the owners, no account becomes an owner or a moderator, and the owners' *)
(* accounts are there, not banned.  Deleting accounts, reusing their names *)
(* and ids, and commands that outlive their session do not get around it.  *)
(***************************************************************************)
NoEscalation ==
  (\A s \in Sessions : account[s] \notin OwnerNames) =>
    /\ \A u \in UserIds :
         /\ HasFlag(mUsers[u], "owner") => mUsers[u].mUserName \in OwnerNames
         /\ HasFlag(mUsers[u], "moderator") =>
              mUsers[u].mUserName \in ModeratorNames
    /\ \A a \in Accounts : HasFlag(a, "owner") => mUsers[a.mUserID] = a

(***************************************************************************)
(* Every command is carried out: a thread that has a line to work on gets  *)
(* back to its loop, or the process ends, although the thread may have to  *)
(* wait for usersLock and, with usersLock, for another session's           *)
(* mSessionLock: that of the session a login replaces, of the user a       *)
(* command bans or deletes (eleven_users.cpp:420, 497), or of everybody    *)
(* during a shutdown.  It needs clients that do not stay silent for ever.  *)
(***************************************************************************)
CommandsFinish ==
  \A s \in Sessions :
    pc[s] = "dispatch" ~> pc[s] \in {"idle", "done"}

(***************************************************************************)
(* A shutdown that was announced is carried through: the server stops      *)
(* accepting connections (eleven_users.cpp:311-341).                       *)
(***************************************************************************)
ShutdownCompletes == shuttingDown ~> ~mKeepRunning

(***************************************************************************)
(* "Only allow one session per user at a time" (eleven_users.cpp:421), of  *)
(* all sessions.  The code does not keep it: the run one_session shows how *)
(* a failed login's destructor gets in its way.                            *)
(***************************************************************************)
OnlyOneSessionPerUser ==
  \A s, t \in Sessions :
    /\ open[s] /\ LoggedIn(s)
    /\ open[t] /\ LoggedIn(t)
    /\ mCurrentUser[s] = mCurrentUser[t]
    => s = t
=============================================================================
