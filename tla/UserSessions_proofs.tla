------------------------- MODULE UserSessions_proofs -------------------------
(***************************************************************************)
(* What holds of the sessions and users of the chat server for every set   *)
(* of connections, accounts, commands and garbage values.                  *)
(***************************************************************************)
EXTENDS UserSessions, Database_proofs

-----------------------------------------------------------------------------
(* Types                                                                   *)

\* A thread inside a handler works on a command a client sent.
LineOK ==
  \A s \in Sessions :
    pc[s] \in {"dispatch", "check", "log_in", "evict"} => line[s] \in Lines

TypeInv == TypeOK /\ DatabaseConsistent /\ LineOK

\* TypeOK without the part on the database.
SessionTypeOK ==
  /\ pc \in [Sessions -> Labels]
  /\ open \in [Sessions -> BOOLEAN]
  /\ line \in [Sessions -> Lines \union {NoLine}]
  /\ target \in [Sessions -> UserIds \union {0}]
  /\ attached \in [Sessions -> BOOLEAN]
  /\ mCurrentUser \in [Sessions -> UserIds \union {0}]
  /\ loggedInUsers \in [UserIds -> Sessions \union {NoSession}]
  /\ usersLock \in Sessions \union {NoSession}
  /\ todo \subseteq UserIds
  /\ warnings \in [Sessions -> 0 .. Warnings]
  /\ shuttingDown \in BOOLEAN
  /\ mKeepRunning \in BOOLEAN
  /\ account \in [Sessions -> Names \union {NoName}]
  /\ lost \subseteq Sessions
  /\ spared \subseteq Sessions

\* A command found in the table of handlers was sent by a client.
LEMMA CommandIsLine ==
  ASSUME TypeInv, NEW s \in Sessions, line[s].command # ""
  PROVE  line[s] \in Lines /\ line[s] \in Line
PROOF
<1>1. line[s] \in Lines \union {NoLine}
  BY DEF TypeInv, TypeOK
<1>2. NoLine.command = ""
  BY DEF NoLine
<1> QED BY <1>1, <1>2, SessionsAssumption

LEMMA LineFields ==
  ASSUME NEW l \in Lines
  PROVE  /\ l.name \in Names
         /\ l.good \in BOOLEAN
         /\ l.flags \in SUBSET Flags
         /\ l.flags \intersect {"blocked", "retired"} = {}
PROOF
<1>1. l \in Line
  BY SessionsAssumption
<1>2. /\ l.name \in Names
      /\ l.good \in BOOLEAN
      /\ l.flags \in SUBSET {"owner", "moderator"}
  BY <1>1 DEF Line
<1> QED BY <1>2 DEF Flags

\* A process that ends leaves no thread, no login and no entry behind.
LEMMA EndProcessFacts ==
  ASSUME EndProcess
  PROVE  /\ \A t \in Sessions : pc'[t] = "done" /\ ~open'[t] /\ ~LoggedIn(t)'
         /\ \A u \in UserIds : loggedInUsers'[u] = NoSession
         /\ Registered' = {}
BY DEF EndProcess, LoggedIn, Registered

\* block_user and retire_user: the database changes as change_user_flags
\* does, or not at all.
LEMMA BanUserDb ==
  ASSUME TypeInv, NEW s \in Sessions, NEW may \in BOOLEAN, NEW flag \in Flags,
         may => user_from_id(target[s]).mUserID # 0,
         BanUser(s, may, flag)
  PROVE  /\ DatabaseInv'
         /\ \/ UNCHANGED dbVars
            \/ /\ may
               /\ target[s] \in UserIds
               /\ mUsers[target[s]] \in User
               /\ mUsers'[target[s]].mUserFlags =
                    mUsers[target[s]].mUserFlags \union {flag}
               /\ mUsers'[target[s]].mUserName = mUsers[target[s]].mUserName
               /\ \A u \in UserIds : u # target[s] => mUsers'[u] = mUsers[u]
PROOF
<1>0. DatabaseInv
  BY DEF TypeInv, TypeOK, DatabaseInv
<1>1. CASE UNCHANGED dbVars
  BY <1>0, <1>1 DEF dbVars, DatabaseInv, DatabaseTypeOK, DatabaseConsistent
<1>2. CASE may /\ Ban(s, target[s], flag)
  <2>1. PICK saved \in SaveResults :
          DbChangeUserFlags(target[s], {flag}, {}, saved)
    BY <1>2 DEF Ban
  <2>2. target[s] \in UserIds /\ mUsers[target[s]] \in User
    BY <1>0, <1>2, IdOK
  <2> QED BY <1>0, <1>2, <2>1, <2>2, SetFlagOK
<1> QED BY <1>1, <1>2 DEF BanUser, dbVars

LEMMA BlockUserDb ==
  ASSUME TypeInv, NEW s \in Sessions, BlockUser(s)
  PROVE  /\ DatabaseInv'
         /\ \/ UNCHANGED dbVars
            \/ /\ MayBlock(Self(s), user_from_id(target[s]))
               /\ target[s] \in UserIds
               /\ mUsers[target[s]] \in User
               /\ mUsers'[target[s]].mUserFlags =
                    mUsers[target[s]].mUserFlags \union {"blocked"}
               /\ mUsers'[target[s]].mUserName = mUsers[target[s]].mUserName
               /\ \A u \in UserIds : u # target[s] => mUsers'[u] = mUsers[u]
PROOF
<1> DEFINE may == MayBlock(Self(s), user_from_id(target[s]))
<1>1. may \in BOOLEAN
  BY DEF MayBlock, Acting, Banned
<1>2. may => user_from_id(target[s]).mUserID # 0
  BY DEF MayBlock
<1>3. BanUser(s, may, "blocked")
  BY DEF BlockUser
<1> HIDE DEF may
<1> QED BY <1>1, <1>2, <1>3, BanUserDb DEF Flags, may

LEMMA RetireUserDb ==
  ASSUME TypeInv, NEW s \in Sessions, RetireUser(s)
  PROVE  /\ DatabaseInv'
         /\ \/ UNCHANGED dbVars
            \/ /\ MayRemove(Self(s), user_from_id(target[s]))
               /\ target[s] \in UserIds
               /\ mUsers[target[s]] \in User
               /\ mUsers'[target[s]].mUserFlags =
                    mUsers[target[s]].mUserFlags \union {"retired"}
               /\ mUsers'[target[s]].mUserName = mUsers[target[s]].mUserName
               /\ \A u \in UserIds : u # target[s] => mUsers'[u] = mUsers[u]
PROOF
<1> DEFINE may == MayRemove(Self(s), user_from_id(target[s]))
<1>1. may \in BOOLEAN
  BY DEF MayRemove, MayBlock, Acting, Banned
<1>2. may => user_from_id(target[s]).mUserID # 0
  BY DEF MayRemove, MayBlock
<1>3. BanUser(s, may, "retired")
  BY DEF RetireUser
<1> HIDE DEF may
<1> QED BY <1>1, <1>2, <1>3, BanUserDb DEF Flags, may

LEMMA DeleteUserDb ==
  ASSUME TypeInv, NEW s \in Sessions, DeleteUser(s)
  PROVE  LET v == user_from_name(line[s].name) IN
         /\ DatabaseInv'
         /\ \/ UNCHANGED dbVars
            \/ /\ MayRemove(Self(s), v)
               /\ v \in User
               /\ v.mUserID \in UserIds
               /\ mUsers[v.mUserID] = v
               /\ mUsers'[v.mUserID] = NoUser
               /\ \A u \in UserIds : u # v.mUserID => mUsers'[u] = mUsers[u]
PROOF
<1> DEFINE v == user_from_name(line[s].name)
<1>0. DatabaseInv /\ line[s].name \in Names
  BY CommandIsLine, LineFields
  DEF TypeInv, TypeOK, DatabaseInv, DeleteUser, Handles
<1>1. CASE UNCHANGED dbVars
  BY <1>0, <1>1 DEF dbVars, DatabaseInv, DatabaseTypeOK, DatabaseConsistent
<1>2. CASE MayRemove(Self(s), v) /\ DbDeleteUser(v.mUserID)
  <2>1. v.mUserID # 0
    BY <1>2 DEF MayRemove, MayBlock
  <2>2. v.mUserID \in UserIds /\ v = mUsers[v.mUserID] /\ v \in User
    BY <1>0, <2>1, LookupOK
  <2> QED BY <1>0, <1>2, <2>2, DeleteUserOK
<1> QED BY <1>1, <1>2 DEF DeleteUser

\* /makemoderator and /makeowner.
LEMMA ChangeUserFlagsDb ==
  ASSUME TypeInv, NEW s \in Sessions, NEW id,
         NEW flag \in {"owner", "moderator"}, ChangeUserFlags(s, id, flag)
  PROVE  /\ DatabaseInv'
         /\ \/ UNCHANGED dbVars
            \/ /\ MayChange(Self(s), user_from_id(id))
               /\ id \in UserIds
               /\ mUsers[id] \in User
               /\ \/ mUsers'[id].mUserFlags = mUsers[id].mUserFlags \ {flag}
                  \/ mUsers'[id].mUserFlags = mUsers[id].mUserFlags \union {flag}
               /\ mUsers'[id].mUserName = mUsers[id].mUserName
               /\ \A u \in UserIds : u # id => mUsers'[u] = mUsers[u]
PROOF
<1>0. DatabaseInv
  BY DEF TypeInv, TypeOK, DatabaseInv
<1>1. CASE UNCHANGED dbVars
  BY <1>0, <1>1 DEF dbVars, DatabaseInv, DatabaseTypeOK, DatabaseConsistent
<1>2. CASE ~UNCHANGED dbVars
  <2>1. MayChange(Self(s), user_from_id(id)) /\ flag \in Flags
    BY <1>2 DEF ChangeUserFlags, Flags
  <2>2. PICK saved \in SaveResults :
          \/ DbChangeUserFlags(id, {flag}, {}, saved)
          \/ DbChangeUserFlags(id, {}, {flag}, saved)
    BY <1>2 DEF ChangeUserFlags
  <2>3. id \in UserIds /\ mUsers[id] \in User
    BY <1>0, <2>1, IdOK DEF MayChange
  <2>4. CASE DbChangeUserFlags(id, {flag}, {}, saved)
    BY <1>0, <2>1, <2>3, <2>4, SetFlagOK
  <2>5. CASE DbChangeUserFlags(id, {}, {flag}, saved)
    BY <1>0, <2>1, <2>3, <2>5, ClearFlagOK
  <2> QED BY <2>2, <2>4, <2>5
<1> QED BY <1>1, <1>2

LEMMA AddUserDb ==
  ASSUME TypeInv, NEW s \in Sessions, AddUser(s)
  PROVE  /\ DatabaseInv'
         /\ \/ UNCHANGED dbVars
            \/ /\ UsersLockFree
               /\ line[s] \in Lines
               /\ MayAdd(Self(s), line[s].flags)
               /\ \A u \in UserIds : mUsers[u] # NoUser => mUsers'[u] = mUsers[u]
               /\ \A u \in UserIds : mUsers[u] = NoUser =>
                    \/ mUsers'[u] = NoUser
                    \/ mUsers'[u].mUserFlags = line[s].flags
PROOF
<1>0. DatabaseInv /\ line[s] \in Lines
  BY CommandIsLine DEF TypeInv, TypeOK, DatabaseInv, AddUser, Handles
<1>1. CASE UNCHANGED dbVars
  BY <1>0, <1>1 DEF dbVars, DatabaseInv, DatabaseTypeOK, DatabaseConsistent
<1>2. CASE ~UNCHANGED dbVars
  <2>1. /\ UsersLockFree
        /\ MayAdd(Self(s), line[s].flags)
    BY <1>2 DEF AddUser
  <2>2. PICK id \in UserIds \union {0} :
          DbAddUser(line[s].name, line[s].flags, id)
    BY <1>2 DEF AddUser
  <2>3. line[s].name \in Names /\ line[s].flags \in SUBSET Flags
    BY <1>0, LineFields
  <2> QED BY <1>0, <2>1, <2>2, <2>3, AddUserOK
<1> QED BY <1>1, <1>2

\* Every step keeps the database well-typed and consistent: only the handlers
\* of AdminStep change it.
LEMMA DatabaseStep ==
  ASSUME TypeInv, [Next]_vars
  PROVE  DatabaseInv'
PROOF
<1>0. DatabaseInv
  BY DEF TypeInv, TypeOK, DatabaseInv
<1>1. CASE UNCHANGED dbVars
  BY <1>0, <1>1 DEF dbVars, DatabaseInv, DatabaseTypeOK, DatabaseConsistent
<1>2. ASSUME NEW s \in Sessions, Connect(s) \/ ClientStep(s)
      PROVE  UNCHANGED dbVars
  BY <1>2 DEF Connect, Handshake, ClientStep, ReceiveLine, HangUp
<1>3. ASSUME NEW s \in Sessions, LoginStep(s)
      PROVE  UNCHANGED dbVars
  BY <1>3 DEF LoginStep, LoginHandler, LogInCheck, LogIn, EvictForLogin,
              Attach, Forget
<1>4. ASSUME NEW s \in Sessions, ShutdownStep(s)
      PROVE  UNCHANGED dbVars
  BY <1>4 DEF ShutdownStep, ShutdownHandler, Authorize, Announce, Warn,
              Linger, Sweep, ShutDown
<1>5. ASSUME NEW s \in Sessions, AdminStep(s)
      PROVE  DatabaseInv'
  <2>1. CASE FindTarget(s) \/ LogOutBanned(s)
    BY <1>1, <2>1 DEF FindTarget, LogOutBanned
  <2>2. CASE BlockUser(s)    BY <2>2, BlockUserDb
  <2>3. CASE RetireUser(s)   BY <2>3, RetireUserDb
  <2>4. CASE DeleteUser(s)   BY <2>4, DeleteUserDb
  <2>5. CASE MakeModerator(s)
    BY <2>5, ChangeUserFlagsDb DEF MakeModerator
  <2>6. CASE MakeOwner(s)
    BY <1>1, <2>6, ChangeUserFlagsDb DEF MakeOwner
  <2>7. CASE AddUser(s)      BY <2>7, AddUserDb
  <2> QED BY <1>5, <2>1, <2>2, <2>3, <2>4, <2>5, <2>6, <2>7 DEF AdminStep
<1>6. ASSUME NEW s \in Sessions, ThreadStep(s)
      PROVE  DatabaseInv'
  <2>1. CASE BeginRead(s) \/ End(s) \/ Logout(s) \/ OtherCommand(s)
    BY <1>1, <2>1 DEF BeginRead, End, Logout, OtherCommand
  <2> QED BY <1>1, <1>3, <1>4, <1>5, <1>6, <2>1 DEF ThreadStep
<1>7. UNCHANGED vars \/ EndProcess => UNCHANGED dbVars
  BY DEF vars, EndProcess
<1> QED BY <1>1, <1>2, <1>6, <1>7 DEF Next, Finished

\* The ids that the handlers put into target and mCurrentUser are of the type.
LEMMA LookupType ==
  ASSUME TypeInv, NEW s \in Sessions, line[s] \in Lines
  PROVE  user_from_name(line[s].name).mUserID \in UserIds \union {0}
PROOF
<1>1. DatabaseInv /\ line[s].name \in Names
  BY LineFields DEF TypeInv, TypeOK, DatabaseInv
<1> QED BY <1>1, LookupOK

LEMMA ReturnType ==
  ASSUME TypeInv, NEW s \in Sessions, Return(s)
  PROVE  /\ pc' \in [Sessions -> Labels]
         /\ line' \in [Sessions -> Lines \union {NoLine}]
         /\ target' \in [Sessions -> UserIds \union {0}]
BY DEF Return, GoTo, TypeInv, TypeOK, Labels

LEMMA LogOutUserType ==
  ASSUME TypeInv, NEW s \in Sessions, NEW id \in UserIds, LogOutUser(s, id)
  PROVE  /\ pc' \in [Sessions -> Labels]
         /\ line' \in [Sessions -> Lines \union {NoLine}]
         /\ target' \in [Sessions -> UserIds \union {0}]
         /\ usersLock' \in Sessions \union {NoSession}
BY ReturnType DEF LogOutUser, GoTo, TypeInv, TypeOK, Labels

LEMMA TypeStep ==
  ASSUME TypeInv, [Next]_vars
  PROVE  SessionTypeOK'
PROOF
<1> USE DEF TypeInv, SessionTypeOK, userVars, shutdownVars, historyVars, GoTo,
            Disconnect, UsersLockFree, Handles
<1>0. SessionTypeOK
  BY DEF TypeOK
<1> USE DEF Labels
<1>1. CASE UNCHANGED vars
  BY <1>0, <1>1 DEF vars, threadVars
<1>2. ASSUME NEW s \in Sessions, Connect(s)
      PROVE  SessionTypeOK'
  BY <1>0, <1>2 DEF Connect, Handshake
<1>3. ASSUME NEW s \in Sessions, NEW l \in Lines, ReceiveLine(s, l)
      PROVE  SessionTypeOK'
  BY <1>0, <1>3 DEF ReceiveLine
<1>4. ASSUME NEW s \in Sessions, HangUp(s) \/ BeginRead(s) \/ End(s)
      PROVE  SessionTypeOK'
  BY <1>0, <1>4 DEF HangUp, BeginRead, End
<1>5. ASSUME NEW s \in Sessions, LoginStep(s)
      PROVE  SessionTypeOK'
  <2>1. CASE LoginHandler(s)
    <3>1. mCurrentUser' \in [Sessions -> UserIds \union {0}]
      BY <1>0, <2>1, SessionsAssumption DEF LoginHandler
    <3>2. /\ pc' \in [Sessions -> Labels]
          /\ line' \in [Sessions -> Lines \union {NoLine}]
          /\ target' \in [Sessions -> UserIds \union {0}]
          /\ open' \in [Sessions -> BOOLEAN]
      BY <1>0, <2>1, ReturnType DEF LoginHandler
    <3> QED BY <1>0, <2>1, <3>1, <3>2 DEF LoginHandler
  <2>2. CASE LogInCheck(s)
    BY <1>0, <2>2 DEF LogInCheck
  <2>3. CASE LogIn(s)
    <3>1. line[s] \in Lines
      BY <2>3 DEF LogIn, LineOK
    <3>2. user_from_name(line[s].name).mUserID \in UserIds \union {0}
      BY <3>1, LookupType
    <3>3. line[s].name \in Names
      BY <3>1, LineFields
    <3> QED BY <1>0, <2>3, <3>2, <3>3 DEF LogIn, Register
  <2>4. CASE EvictForLogin(s)
    <3>1. line[s].name \in Names
      BY <2>4, LineFields DEF EvictForLogin, LineOK
    <3> QED BY <1>0, <2>4, <3>1 DEF EvictForLogin, Register
  <2>5. CASE Attach(s)
    BY <1>0, <2>5, ReturnType DEF Attach
  <2>6. CASE Forget(s)
    <3>1. \A u \in Registered : loggedInUsers[u] \in Sessions
      BY <1>0 DEF Registered
    <3> QED BY <1>0, <2>6, <3>1, ReturnType DEF Forget
  <2> QED BY <1>5, <2>1, <2>2, <2>3, <2>4, <2>5, <2>6 DEF LoginStep
<1>6. ASSUME NEW s \in Sessions, AdminStep(s)
      PROVE  SessionTypeOK'
  <2>1. CASE FindTarget(s)
    <3>1. line[s] \in Lines
      BY <2>1 DEF FindTarget, LineOK
    <3> QED BY <1>0, <2>1, <3>1, LookupType, ReturnType DEF FindTarget
  <2>2. ASSUME NEW may, NEW flag, BanUser(s, may, flag),
               may => target[s] \in UserIds
        PROVE  SessionTypeOK'
    <3>1. CASE may /\ Ban(s, target[s], flag)
      BY <1>0, <2>2, <3>1, LogOutUserType, ReturnType DEF BanUser, Ban
    <3>2. CASE Return(s) /\ UNCHANGED <<dbVars, usersLock, spared>>
      BY <1>0, <2>2, <3>2, ReturnType DEF BanUser
    <3> QED BY <2>2, <3>1, <3>2 DEF BanUser
  <2>3. CASE BlockUser(s)
    <3>1. MayBlock(Self(s), user_from_id(target[s])) => target[s] \in UserIds
      BY DEF MayBlock, user_from_id, NoUser
    <3> QED BY <2>2, <2>3, <3>1 DEF BlockUser
  <2>4. CASE RetireUser(s)
    <3>1. MayRemove(Self(s), user_from_id(target[s])) => target[s] \in UserIds
      BY DEF MayRemove, MayBlock, user_from_id, NoUser
    <3> QED BY <2>2, <2>4, <3>1 DEF RetireUser
  <2>5. CASE DeleteUser(s)
    <3> DEFINE v == user_from_name(line[s].name)
    <3>1. v.mUserID \in UserIds \union {0}
      BY <2>5, LookupType DEF DeleteUser, LineOK
    <3>2. MayRemove(Self(s), v) => v.mUserID \in UserIds
      BY <3>1 DEF MayRemove, MayBlock
    <3> HIDE DEF v
    <3>3. \/ v.mUserID \in UserIds /\ LogOutUser(s, v.mUserID)
          \/ Return(s) /\ UNCHANGED usersLock
      BY <2>5, <3>2 DEF DeleteUser, v
    <3> QED BY <1>0, <2>5, <3>3, LogOutUserType, ReturnType DEF DeleteUser
  <2>6. CASE LogOutBanned(s)
    BY <1>0, <2>6, ReturnType DEF LogOutBanned
  <2>7. CASE MakeModerator(s) \/ MakeOwner(s) \/ AddUser(s)
    BY <1>0, <2>7, ReturnType DEF MakeModerator, MakeOwner, AddUser
  <2> QED BY <1>6, <2>1, <2>3, <2>4, <2>5, <2>6, <2>7 DEF AdminStep
<1>7. ASSUME NEW s \in Sessions, ShutdownStep(s)
      PROVE  SessionTypeOK'
  <2>1. CASE ShutdownHandler(s) \/ Authorize(s) \/ ShutDown(s)
    BY <1>0, <2>1, ReturnType DEF ShutdownHandler, Authorize, ShutDown
  <2>2. CASE Announce(s)
    BY <1>0, <2>2, SessionsAssumption DEF Announce, BeginLoop, Registered
  <2>3. CASE Warn(s)
    BY <1>0, <2>3 DEF Warn, Visit, EndLoop
  <2>4. CASE Linger(s)
    BY <1>0, <2>4, SessionsAssumption DEF Linger, BeginLoop, Registered
  <2>5. CASE Sweep(s)
    BY <1>0, <2>5 DEF Sweep, Visit, EndLoop
  <2> QED BY <1>7, <2>1, <2>2, <2>3, <2>4, <2>5 DEF ShutdownStep
<1>8. ASSUME NEW s \in Sessions, Logout(s) \/ OtherCommand(s)
      PROVE  SessionTypeOK'
  BY <1>0, <1>8, ReturnType DEF Logout, OtherCommand
<1>9. CASE EndProcess
  BY <1>0, <1>9 DEF EndProcess
<1> QED BY <1>1, <1>2, <1>3, <1>4, <1>5, <1>6, <1>7, <1>8, <1>9
        DEF Next, ClientStep, ThreadStep, Finished

LEMMA LineStep ==
  ASSUME TypeInv, [Next]_vars
  PROVE  LineOK'
PROOF
<1> USE DEF TypeInv, LineOK, GoTo, Return, Handles
<1>0. /\ pc \in [Sessions -> Labels]
      /\ line \in [Sessions -> Lines \union {NoLine}]
  BY DEF TypeOK
<1>1. CASE UNCHANGED <<pc, line>>
  BY <1>1
<1>2. ASSUME NEW s \in Sessions, NEW l \in Lines, ReceiveLine(s, l)
      PROVE  LineOK'
  BY <1>0, <1>2 DEF ReceiveLine
<1>3. ASSUME NEW s \in Sessions, Return(s)
      PROVE  LineOK'
  BY <1>0, <1>3
\* Whatever else a thread does, it stays with the line it has.
<1>4. ASSUME NEW s \in Sessions, NEW label, GoTo(s, label),
             line[s] \in Lines \/ label \notin {"dispatch", "check", "log_in", "evict"},
             UNCHANGED line
      PROVE  LineOK'
  BY <1>0, <1>4
<1>5. ASSUME NEW s \in Sessions, LoginStep(s)
      PROVE  LineOK'
  <2>1. CASE LoginHandler(s)
    BY <1>3, <1>4, <2>1 DEF LoginHandler
  <2>2. CASE LogInCheck(s)
    BY <1>4, <2>2 DEF LogInCheck
  <2>3. CASE LogIn(s)
    BY <1>4, <2>3 DEF LogIn, Register
  <2>4. CASE EvictForLogin(s)
    BY <1>4, <2>4 DEF EvictForLogin, Register
  <2>5. CASE Attach(s) \/ Forget(s)
    BY <1>3, <2>5 DEF Attach, Forget
  <2> QED BY <1>5, <2>1, <2>2, <2>3, <2>4, <2>5 DEF LoginStep
<1>6. ASSUME NEW s \in Sessions, AdminStep(s)
      PROVE  LineOK'
  <2>1. CASE FindTarget(s)
    BY <1>3, <1>4, <2>1 DEF FindTarget
  <2>2. CASE BlockUser(s) \/ RetireUser(s) \/ DeleteUser(s)
    BY <1>3, <1>4, <2>2
    DEF BlockUser, RetireUser, DeleteUser, BanUser, Ban, LogOutUser
  <2>3. CASE LogOutBanned(s) \/ MakeModerator(s) \/ MakeOwner(s) \/ AddUser(s)
    BY <1>3, <2>3 DEF LogOutBanned, MakeModerator, MakeOwner, AddUser
  <2> QED BY <1>6, <2>1, <2>2, <2>3 DEF AdminStep
<1>7. ASSUME NEW s \in Sessions, ShutdownStep(s)
      PROVE  LineOK'
  <2>1. CASE ShutdownHandler(s) \/ Authorize(s) \/ ShutDown(s)
    BY <1>3, <1>4, <2>1 DEF ShutdownHandler, Authorize, ShutDown
  <2>2. CASE Announce(s) \/ Warn(s) \/ Linger(s) \/ Sweep(s)
    BY <1>1, <1>4, <2>2
    DEF Announce, Warn, Linger, Sweep, BeginLoop, EndLoop
  <2> QED BY <1>7, <2>1, <2>2 DEF ShutdownStep
<1>8. ASSUME NEW s \in Sessions,
             Connect(s) \/ HangUp(s) \/ BeginRead(s) \/ End(s)
      PROVE  LineOK'
  BY <1>4, <1>8 DEF Connect, Handshake, HangUp, BeginRead, End
<1>9. ASSUME NEW s \in Sessions, Logout(s) \/ OtherCommand(s)
      PROVE  LineOK'
  BY <1>3, <1>9 DEF Logout, OtherCommand
<1>10. UNCHANGED vars => UNCHANGED <<pc, line>>
  BY DEF vars, threadVars
<1>11. CASE EndProcess
  BY <1>11, EndProcessFacts
<1> QED BY <1>1, <1>2, <1>5, <1>6, <1>7, <1>8, <1>9, <1>10, <1>11
        DEF Next, ClientStep, ThreadStep, Finished

LEMMA InitTypeInv == Init => TypeInv
PROOF
<1> SUFFICES ASSUME Init PROVE TypeInv
  OBVIOUS
<1>1. DatabaseInv
  BY LoadUsersOK DEF Init
<1>2. SessionTypeOK
  <2>1. 0 \in 0 .. Warnings
    BY SessionsAssumption
  <2> QED BY <2>1 DEF Init, SessionTypeOK, Labels
<1>3. LineOK
  BY DEF Init, LineOK
<1> QED BY <1>1, <1>2, <1>3 DEF TypeInv, TypeOK, SessionTypeOK, DatabaseInv

LEMMA TypeInvStep == TypeInv /\ [Next]_vars => TypeInv'
PROOF
<1> SUFFICES ASSUME TypeInv, [Next]_vars PROVE TypeInv'
  OBVIOUS
<1>1. DatabaseInv' /\ SessionTypeOK' /\ LineOK'
  BY DatabaseStep, TypeStep, LineStep
<1> QED BY <1>1 DEF TypeInv, TypeOK, SessionTypeOK, DatabaseInv

LEMMA TypeInvariant == Spec => []TypeInv
BY InitTypeInv, TypeInvStep, PTL DEF Spec

\* Every variable keeps its type, whatever clients do.
THEOREM TypeCorrect == Spec => []TypeOK
PROOF
<1>1. TypeInv => TypeOK
  BY DEF TypeInv
<1> QED BY <1>1, TypeInvariant, PTL

\* The two maps of the user database stay inverse to each other, whatever
\* users are added, deleted and changed by whom.
THEOREM DatabaseCorrect == Spec => []DatabaseConsistent
PROOF
<1>1. TypeInv => DatabaseConsistent
  BY DEF TypeInv
<1> QED BY <1>1, TypeInvariant, PTL

-----------------------------------------------------------------------------
(* The registry                                                            *)

\* Where a thread keeps usersLock from one step to the next.
Holding == {"evict", "ban", "warn", "sweep"}

LockOK == \A s \in Sessions : pc[s] \in Holding <=> usersLock = s

\* A connection without a user_session: it is new or still logging in.
NotAttached ==
  \A s \in Sessions :
    pc[s] \in {"unborn", "check", "log_in", "evict", "attach", "forget"} =>
      ~attached[s]

\* A logged-in session has a user and came in under a name.
LoggedInOK ==
  \A s \in Sessions :
    LoggedIn(s) => mCurrentUser[s] \in UserIds /\ account[s] \in Names

\* The entry whose session a thread waits to disconnect is in the registry.
VictimOK ==
  \A s \in Sessions :
    /\ pc[s] = "evict" => mCurrentUser[s] \in Registered
    /\ pc[s] = "ban" => target[s] \in Registered

\* A connected and logged-in session is the one the registry has for its
\* user, unless a failed login's destructor erased its entry.  This is what
\* makes OneSessionPerUser inductive.
OpenIsRegistered ==
  \A s \in Sessions \ lost :
    open[s] /\ LoggedIn(s) => loggedInUsers[mCurrentUser[s]] = s

RegistryInv ==
  /\ LockOK
  /\ NotAttached
  /\ LoggedInOK
  /\ VictimOK
  /\ RegistryOK
  /\ OpenIsRegistered

\* A step of s that leaves the registry and the lock alone, disconnects
\* sessions at most, and neither begins nor ends a login.
QuietStep(s) ==
  /\ pc[s] \notin Holding \union {"attach", "done"}
  /\ \E label \in Labels :
       /\ pc' = [pc EXCEPT ![s] = label]
       /\ label \notin Holding \union {"attach", "unborn"}
       /\ label \in {"check", "log_in", "forget"} =>
            pc[s] \in {"check", "log_in"}
  /\ UNCHANGED <<userVars, usersLock, account, lost>>
  /\ \A t \in Sessions : open'[t] => open[t]
  /\ \A t \in Sessions : t # s => target'[t] = target[t]

LEMMA QuietStepOK ==
  ASSUME TypeInv, RegistryInv, NEW s \in Sessions, QuietStep(s)
  PROVE  RegistryInv'
PROOF
<1> USE DEF userVars, RegistryInv, Labels
<1>0. /\ pc \in [Sessions -> Labels]
      /\ loggedInUsers \in [UserIds -> Sessions \union {NoSession}]
  BY DEF TypeInv, TypeOK
<1>1. PICK label \in Labels :
        /\ pc' = [pc EXCEPT ![s] = label]
        /\ label \notin Holding \union {"attach", "unborn"}
        /\ label \in {"check", "log_in", "forget"} =>
             pc[s] \in {"check", "log_in"}
  BY DEF QuietStep
<1>2. /\ UNCHANGED <<userVars, usersLock, account, lost>>
      /\ pc[s] \notin Holding \union {"attach", "done"}
      /\ \A t \in Sessions : open'[t] => open[t]
      /\ \A t \in Sessions : t # s => target'[t] = target[t]
  BY DEF QuietStep
<1>3. \A t \in Sessions : LoggedIn(t)' = LoggedIn(t)
  BY <1>0, <1>1, <1>2 DEF LoggedIn
<1>4. LockOK'
  BY <1>0, <1>1, <1>2 DEF LockOK
<1>5. NotAttached'
  BY <1>0, <1>1, <1>2 DEF NotAttached, Holding
<1>6. LoggedInOK'
  BY <1>2, <1>3 DEF LoggedInOK
<1>9. OpenIsRegistered'
  BY <1>2, <1>3 DEF OpenIsRegistered
<1>7. VictimOK'
  BY <1>0, <1>1, <1>2 DEF VictimOK, Registered, Holding
<1>8. RegistryOK'
  BY <1>0, <1>2, <1>3 DEF RegistryOK, Registered
<1> QED BY <1>4, <1>5, <1>6, <1>7, <1>8, <1>9

\* Most steps are quiet.
LEMMA QuietSteps ==
  ASSUME TypeInv, NEW s \in Sessions,
         \/ BeginRead(s) \/ End(s) \/ HangUp(s) \/ LogInCheck(s)
         \/ \E l \in Lines : ReceiveLine(s, l)
         \/ FindTarget(s) \/ MakeModerator(s) \/ MakeOwner(s) \/ AddUser(s)
         \/ Logout(s) \/ OtherCommand(s)
         \/ ShutdownHandler(s) \/ Authorize(s) \/ ShutDown(s)
  PROVE  QuietStep(s)
PROOF
<1> USE DEF GoTo, Return, Disconnect, Handles, userVars, historyVars, Holding,
            Labels, QuietStep
<1>0. /\ pc \in [Sessions -> Labels]
      /\ open \in [Sessions -> BOOLEAN]
      /\ target \in [Sessions -> UserIds \union {0}]
  BY DEF TypeInv, TypeOK
<1>1. CASE BeginRead(s) \/ End(s) \/ HangUp(s)
  BY <1>0, <1>1 DEF BeginRead, End, HangUp
<1>2. CASE LogInCheck(s)
  BY <1>0, <1>2 DEF LogInCheck
<1>3. CASE \E l \in Lines : ReceiveLine(s, l)
  BY <1>0, <1>3 DEF ReceiveLine
<1>4. CASE FindTarget(s)
  BY <1>0, <1>4 DEF FindTarget
<1>5. CASE MakeModerator(s) \/ MakeOwner(s) \/ AddUser(s)
  BY <1>0, <1>5 DEF MakeModerator, MakeOwner, AddUser
<1>6. CASE Logout(s) \/ OtherCommand(s)
  BY <1>0, <1>6 DEF Logout, OtherCommand
<1>7. CASE ShutdownHandler(s) \/ Authorize(s) \/ ShutDown(s)
  BY <1>0, <1>7 DEF ShutdownHandler, Authorize, ShutDown
<1> QED BY <1>1, <1>2, <1>3, <1>4, <1>5, <1>6, <1>7

LEMMA ConnectRegistry ==
  ASSUME TypeInv, RegistryInv, NEW s \in Sessions, Connect(s)
  PROVE  RegistryInv'
PROOF
<1> USE DEF Connect, Handshake, GoTo, userVars, historyVars, RegistryInv, Holding
<1>0. /\ pc \in [Sessions -> Labels]
      /\ open \in [Sessions -> BOOLEAN]
      /\ loggedInUsers \in [UserIds -> Sessions \union {NoSession}]
  BY DEF TypeInv, TypeOK
<1>1. ~LoggedIn(s) /\ ~LoggedIn(s)'
  BY <1>0 DEF LoggedIn, NotAttached
<1>2. \A t \in Sessions : LoggedIn(t)' = LoggedIn(t)
  BY <1>0, <1>1 DEF LoggedIn
<1>3. \A t \in Sessions : t # s => open'[t] = open[t]
  BY <1>0
<1>4. LockOK'
  BY <1>0 DEF LockOK
<1>5. NotAttached'
  BY <1>0 DEF NotAttached
<1>6. LoggedInOK'
  BY <1>2 DEF LoggedInOK
<1>7. VictimOK'
  BY <1>0 DEF VictimOK, Registered
<1>8. RegistryOK'
  BY <1>0, <1>2 DEF RegistryOK, Registered
<1>9. OpenIsRegistered'
  BY <1>1, <1>2, <1>3 DEF OpenIsRegistered
<1> QED BY <1>4, <1>5, <1>6, <1>7, <1>8, <1>9

\* login_handler may put garbage into the mCurrentUser of a session that is
\* not logged in.
LEMMA LoginHandlerRegistry ==
  ASSUME TypeInv, RegistryInv, NEW s \in Sessions, LoginHandler(s)
  PROVE  RegistryInv'
PROOF
<1> USE DEF GoTo, Handles, historyVars
<1>0. /\ pc \in [Sessions -> Labels]
      /\ open \in [Sessions -> BOOLEAN]
      /\ target \in [Sessions -> UserIds \union {0}]
      /\ mCurrentUser \in [Sessions -> UserIds \union {0}]
      /\ loggedInUsers \in [UserIds -> Sessions \union {NoSession}]
  BY DEF TypeInv, TypeOK
<1>1. CASE UNCHANGED mCurrentUser /\ Return(s)
  <2>1. QuietStep(s)
    BY <1>0, <1>1
    DEF LoginHandler, QuietStep, Return, Disconnect, userVars, Holding, Labels
  <2> QED BY <2>1, QuietStepOK
<1>2. CASE /\ ~attached[s]
           /\ \E g \in Garbage : mCurrentUser' = [mCurrentUser EXCEPT ![s] = g]
           /\ GoTo(s, "check")
           /\ UNCHANGED <<open, line, target>>
  <2> USE DEF RegistryInv, Holding
  <2>1. UNCHANGED <<attached, loggedInUsers, usersLock, account, lost, open,
                    target>>
    BY <1>2 DEF LoginHandler
  <2>2. pc[s] = "dispatch" /\ pc'[s] = "check"
    BY <1>0, <1>2 DEF LoginHandler
  <2>3. \A t \in Sessions : t # s =>
          pc'[t] = pc[t] /\ mCurrentUser'[t] = mCurrentUser[t]
    BY <1>0, <1>2
  <2>4. ~LoggedIn(s) /\ ~LoggedIn(s)'
    BY <1>2, <2>1, <2>2 DEF LoggedIn
  <2>5. \A t \in Sessions : LoggedIn(t)' = LoggedIn(t)
    BY <2>1, <2>3, <2>4 DEF LoggedIn
  <2>6. \A u \in Registered : loggedInUsers[u] # s
    BY <2>4 DEF RegistryOK
  <2>7. LockOK'
    BY <2>1, <2>2, <2>3 DEF LockOK
  <2>8. NotAttached'
    BY <1>2, <2>1, <2>3 DEF NotAttached
  <2>9. LoggedInOK'
    BY <2>1, <2>3, <2>4, <2>5 DEF LoggedInOK
  <2>10. VictimOK'
    BY <2>1, <2>2, <2>3 DEF VictimOK, Registered
  <2>11. RegistryOK'
    BY <1>0, <2>1, <2>3, <2>5, <2>6 DEF RegistryOK, Registered
  <2>12. OpenIsRegistered'
    BY <2>1, <2>3, <2>4, <2>5 DEF OpenIsRegistered
  <2> QED BY <2>7, <2>8, <2>9, <2>10, <2>11, <2>12
<1> QED BY <1>1, <1>2 DEF LoginHandler

\* Entering session s as user u, when the session u had is disconnected.
LEMMA RegisterRegistry ==
  ASSUME TypeInv, RegistryInv, NEW s \in Sessions, NEW u \in UserIds,
         NEW name \in Names, Register(s, u, name),
         pc[s] \in {"log_in", "evict"},
         usersLock \in {s, NoSession},
         mCurrentUser' = [mCurrentUser EXCEPT ![s] = u],
         UNCHANGED <<target, attached, lost>>,
         \A t \in Sessions : open'[t] => open[t],
         \A t \in Sessions : t = loggedInUsers[u] => ~open'[t]
  PROVE  RegistryInv'
PROOF
<1> USE DEF Register, GoTo, RegistryInv, Holding
<1>0. /\ pc \in [Sessions -> Labels]
      /\ mCurrentUser \in [Sessions -> UserIds \union {0}]
      /\ account \in [Sessions -> Names \union {NoName}]
      /\ loggedInUsers \in [UserIds -> Sessions \union {NoSession}]
  BY DEF TypeInv, TypeOK
<1>1. \A t \in Sessions : t # s => pc[t] \notin Holding
  BY SessionsAssumption DEF LockOK
<1>2. /\ pc'[s] = "attach" /\ mCurrentUser'[s] = u /\ account'[s] = name
      /\ loggedInUsers'[u] = s
      /\ usersLock' = NoSession
  BY <1>0
<1>3. \A t \in Sessions : t # s =>
        /\ pc'[t] = pc[t]
        /\ mCurrentUser'[t] = mCurrentUser[t]
        /\ account'[t] = account[t]
  BY <1>0
<1>4. \A v \in UserIds : v # u => loggedInUsers'[v] = loggedInUsers[v]
  BY <1>0
<1>5. ~LoggedIn(s) /\ LoggedIn(s)'
  BY <1>2 DEF LoggedIn, NotAttached
<1>6. \A t \in Sessions : t # s => LoggedIn(t)' = LoggedIn(t)
  BY <1>3 DEF LoggedIn
<1>7. \A v \in Registered : loggedInUsers[v] # s
  BY <1>5 DEF RegistryOK
<1>8. LockOK'
  BY <1>1, <1>2, <1>3, SessionsAssumption DEF LockOK
<1>9. NotAttached'
  BY <1>3 DEF NotAttached
<1>10. LoggedInOK'
  BY <1>2, <1>3, <1>6 DEF LoggedInOK
<1>11. VictimOK'
  BY <1>1, <1>2, <1>3 DEF VictimOK
<1>12. RegistryOK'
  <2> SUFFICES ASSUME NEW v \in UserIds, loggedInUsers'[v] # NoSession
               PROVE  /\ LoggedIn(loggedInUsers[v])'
                      /\ mCurrentUser'[loggedInUsers'[v]] = v
    BY DEF RegistryOK, Registered
  <2>1. CASE v = u
    BY <1>2, <1>5, <2>1
  <2>2. CASE v # u
    <3>1. v \in Registered /\ loggedInUsers'[v] = loggedInUsers[v]
      BY <1>4, <2>2 DEF Registered
    <3>2. loggedInUsers[v] \in Sessions \ {s}
      BY <1>0, <1>7, <3>1 DEF Registered
    <3> QED BY <1>3, <1>6, <3>1, <3>2 DEF RegistryOK
  <2> QED BY <2>1, <2>2
<1>13. OpenIsRegistered'
  <2> SUFFICES ASSUME NEW t \in Sessions \ lost, open'[t], LoggedIn(t)'
               PROVE  loggedInUsers'[mCurrentUser'[t]] = t
    BY DEF OpenIsRegistered
  <2>1. CASE t = s
    BY <1>2, <2>1
  <2>2. CASE t # s
    <3>1. open[t] /\ LoggedIn(t) /\ mCurrentUser'[t] = mCurrentUser[t]
      BY <1>3, <1>6, <2>2
    <3>2. loggedInUsers[mCurrentUser[t]] = t /\ mCurrentUser[t] \in UserIds
      BY <3>1 DEF OpenIsRegistered, LoggedInOK
    <3>3. mCurrentUser[t] # u
      BY <3>2
    <3> QED BY <1>4, <3>1, <3>2, <3>3
  <2> QED BY <2>1, <2>2
<1> QED BY <1>8, <1>9, <1>10, <1>11, <1>12, <1>13

\* A step of s that takes usersLock, keeps it, or lets go of it, and leaves
\* the registry as it is.
LockStep(s) ==
  /\ usersLock \in {s, NoSession}
  /\ usersLock' \in {s, NoSession}
  /\ \E label \in Labels :
       /\ pc' = [pc EXCEPT ![s] = label]
       /\ label \in Holding <=> usersLock' = s
       /\ label \notin {"unborn", "check", "log_in", "attach", "forget"}
       /\ label = "ban" => target'[s] \in Registered
       /\ label = "evict" => mCurrentUser'[s] \in Registered /\ ~attached[s]
  /\ pc[s] \notin {"attach", "done"}
  /\ \/ UNCHANGED mCurrentUser
     \/ /\ pc[s] \in {"log_in", "evict"}
        /\ \E u : mCurrentUser' = [mCurrentUser EXCEPT ![s] = u]
  /\ UNCHANGED <<attached, loggedInUsers, account, lost>>
  /\ \A t \in Sessions : open'[t] => open[t]

LEMMA LockStepOK ==
  ASSUME TypeInv, RegistryInv, NEW s \in Sessions, LockStep(s)
  PROVE  RegistryInv'
PROOF
<1> USE DEF RegistryInv, LockStep
<1>0. /\ pc \in [Sessions -> Labels]
      /\ mCurrentUser \in [Sessions -> UserIds \union {0}]
      /\ loggedInUsers \in [UserIds -> Sessions \union {NoSession}]
  BY DEF TypeInv, TypeOK
<1>1. PICK label \in Labels :
        /\ pc' = [pc EXCEPT ![s] = label]
        /\ label \in Holding <=> usersLock' = s
        /\ label \notin {"unborn", "check", "log_in", "attach", "forget"}
        /\ label = "ban" => target'[s] \in Registered
        /\ label = "evict" => mCurrentUser'[s] \in Registered /\ ~attached[s]
  OBVIOUS
<1>2. pc'[s] = label /\ \A t \in Sessions : t # s => pc'[t] = pc[t]
  BY <1>0, <1>1
<1>3. \A t \in Sessions : t # s =>
        pc[t] \notin Holding /\ mCurrentUser'[t] = mCurrentUser[t]
  BY <1>0, SessionsAssumption DEF LockOK
<1>4. LoggedIn(s) => UNCHANGED mCurrentUser
  BY DEF LoggedIn, NotAttached
<1>5. \A t \in Sessions : LoggedIn(t)' = LoggedIn(t)
  BY <1>1, <1>2 DEF LoggedIn
<1>6. \A t \in Sessions : LoggedIn(t) => mCurrentUser'[t] = mCurrentUser[t]
  BY <1>3, <1>4
<1>7. LockOK'
  BY <1>1, <1>2, <1>3, SessionsAssumption DEF LockOK
<1>8. NotAttached'
  BY <1>1, <1>2 DEF NotAttached
<1>9. LoggedInOK'
  BY <1>5, <1>6 DEF LoggedInOK
<1>10. VictimOK'
  BY <1>1, <1>2, <1>3 DEF VictimOK, Registered, Holding
<1>11. RegistryOK'
  BY <1>0, <1>5, <1>6 DEF RegistryOK, Registered
<1>12. OpenIsRegistered'
  BY <1>5, <1>6 DEF OpenIsRegistered
<1> QED BY <1>7, <1>8, <1>9, <1>10, <1>11, <1>12

LEMMA LockSteps ==
  ASSUME TypeInv, RegistryInv, NEW s \in Sessions,
         \/ BlockUser(s) \/ RetireUser(s) \/ DeleteUser(s) \/ LogOutBanned(s)
         \/ Announce(s) \/ Warn(s) \/ Linger(s) \/ Sweep(s)
  PROVE  LockStep(s) \/ QuietStep(s)
PROOF
<1> USE DEF GoTo, Return, Disconnect, Handles, UsersLockFree, userVars,
            historyVars, Holding, Labels, LockStep
<1>0. /\ pc \in [Sessions -> Labels]
      /\ open \in [Sessions -> BOOLEAN]
      /\ target \in [Sessions -> UserIds \union {0}]
      /\ loggedInUsers \in [UserIds -> Sessions \union {NoSession}]
      /\ NoSession \notin Sessions
  BY SessionsAssumption DEF TypeInv, TypeOK
<1>1. pc[s] \in Holding => usersLock = s
  BY DEF RegistryInv, LockOK
<1>2. ASSUME NEW id \in UserIds, LogOutUser(s, id), usersLock = NoSession,
             UNCHANGED <<open, userVars, account, lost>>, pc[s] \notin {"attach", "done"}
      PROVE  LockStep(s)
  BY <1>0, <1>2 DEF LogOutUser, Registered
<1>3. ASSUME Return(s), usersLock = NoSession,
             UNCHANGED <<open, userVars, usersLock, account, lost>>,
             pc[s] \notin {"attach", "done"}
      PROVE  LockStep(s)
  BY <1>0, <1>3
<1>4. ASSUME NEW may, NEW flag, BanUser(s, may, flag),
             may => target[s] \in UserIds
      PROVE  LockStep(s)
  <2>1. /\ usersLock = NoSession
        /\ pc[s] \notin {"attach", "done"}
        /\ UNCHANGED <<open, userVars, account, lost>>
    BY <1>4 DEF BanUser
  <2>2. CASE may /\ Ban(s, target[s], flag)
    BY <1>2, <1>3, <1>4, <2>1, <2>2 DEF Ban
  <2>3. CASE Return(s) /\ UNCHANGED <<dbVars, usersLock, spared>>
    BY <1>3, <2>1, <2>3
  <2> QED BY <1>4, <2>2, <2>3 DEF BanUser
<1>5. CASE BlockUser(s)
  <2>1. MayBlock(Self(s), user_from_id(target[s])) => target[s] \in UserIds
    BY DEF MayBlock, user_from_id, NoUser
  <2> QED BY <1>4, <1>5, <2>1 DEF BlockUser
<1>6. CASE RetireUser(s)
  <2>1. MayRemove(Self(s), user_from_id(target[s])) => target[s] \in UserIds
    BY DEF MayRemove, MayBlock, user_from_id, NoUser
  <2> QED BY <1>4, <1>6, <2>1 DEF RetireUser
<1>7. CASE DeleteUser(s)
  <2> DEFINE v == user_from_name(line[s].name)
  <2>1. v.mUserID \in UserIds \union {0}
    BY <1>7, LookupType DEF DeleteUser, TypeInv, LineOK
  <2>2. MayRemove(Self(s), v) => v.mUserID \in UserIds
    BY <2>1 DEF MayRemove, MayBlock
  <2> HIDE DEF v
  <2>3. UNCHANGED <<open, userVars, account, lost>> /\ pc[s] \notin {"attach", "done"}
    BY <1>7 DEF DeleteUser
  <2>4. CASE v.mUserID \in UserIds /\ LogOutUser(s, v.mUserID)
             /\ usersLock = NoSession
    BY <1>2, <2>3, <2>4
  <2>5. CASE Return(s) /\ UNCHANGED usersLock
    <3>1. pc[s] = "dispatch"
      BY <1>7 DEF DeleteUser
    <3> QED BY <1>0, <2>3, <2>5, <3>1 DEF QuietStep
  <2> QED BY <1>7, <2>2, <2>4, <2>5 DEF DeleteUser, v
<1>8. CASE LogOutBanned(s)
  BY <1>0, <1>1, <1>8 DEF LogOutBanned
<1>9. CASE Announce(s)
  BY <1>0, <1>9 DEF Announce, BeginLoop
<1>10. CASE Warn(s)
  <2>1. usersLock = s
    BY <1>1, <1>10 DEF Warn
  <2>2. CASE UNCHANGED <<pc, usersLock>>
    <3>1. pc' = [pc EXCEPT ![s] = "warn"]
      BY <1>0, <1>10, <2>2 DEF Warn
    <3> QED BY <1>0, <1>10, <2>1, <2>2, <3>1 DEF Warn
  <2>3. CASE EndLoop(s, "linger")
    BY <1>0, <1>10, <2>1, <2>3 DEF Warn, EndLoop
  <2> QED BY <1>10, <2>2, <2>3 DEF Warn
<1>11. CASE Linger(s)
  BY <1>0, <1>11 DEF Linger, BeginLoop
<1>12. CASE Sweep(s)
  <2>1. usersLock = s
    BY <1>1, <1>12 DEF Sweep
  <2>2. CASE UNCHANGED <<pc, usersLock>>
    <3>1. pc' = [pc EXCEPT ![s] = "sweep"]
      BY <1>0, <1>12, <2>2 DEF Sweep
    <3>2. \A t \in Sessions : open'[t] => open[t]
      BY <1>0, <1>12 DEF Sweep
    <3> QED BY <1>0, <1>12, <2>1, <2>2, <3>1, <3>2 DEF Sweep
  <2>3. CASE EndLoop(s, "close") /\ UNCHANGED open
    BY <1>0, <1>12, <2>1, <2>3 DEF Sweep, EndLoop
  <2> QED BY <1>12, <2>2, <2>3 DEF Sweep
<1> QED BY <1>5, <1>6, <1>7, <1>8, <1>9, <1>10, <1>11, <1>12

LEMMA AttachRegistry ==
  ASSUME TypeInv, RegistryInv, NEW s \in Sessions, Attach(s)
  PROVE  RegistryInv'
PROOF
<1> USE DEF Attach, GoTo, Return, historyVars, RegistryInv, Holding
<1>0. /\ pc \in [Sessions -> Labels]
      /\ attached \in [Sessions -> BOOLEAN]
      /\ loggedInUsers \in [UserIds -> Sessions \union {NoSession}]
      /\ target \in [Sessions -> UserIds \union {0}]
  BY DEF TypeInv, TypeOK
<1>1. pc'[s] = "idle" /\ attached'[s]
  BY <1>0
<1>2. \A t \in Sessions : t # s =>
        pc'[t] = pc[t] /\ attached'[t] = attached[t] /\ target'[t] = target[t]
  BY <1>0
<1>3. \A t \in Sessions : LoggedIn(t)' = LoggedIn(t)
  BY <1>1, <1>2 DEF LoggedIn
<1>4. LockOK'
  BY <1>1, <1>2 DEF LockOK
<1>5. NotAttached'
  BY <1>1, <1>2 DEF NotAttached
<1>6. LoggedInOK'
  BY <1>3 DEF LoggedInOK
<1>7. VictimOK'
  BY <1>1, <1>2 DEF VictimOK, Registered
<1>8. RegistryOK'
  BY <1>0, <1>3 DEF RegistryOK, Registered
<1>9. OpenIsRegistered'
  BY <1>3 DEF OpenIsRegistered
<1> QED BY <1>4, <1>5, <1>6, <1>7, <1>8, <1>9

\* The destructor of a user_session whose login failed: the session whose
\* entry it erases becomes lost, and no victim is being waited for, because
\* the destructor needs usersLock.
LEMMA ForgetRegistry ==
  ASSUME TypeInv, RegistryInv, NEW s \in Sessions, Forget(s)
  PROVE  RegistryInv'
PROOF
<1> USE DEF Forget, GoTo, Return, UsersLockFree, RegistryInv, Holding
<1>0. /\ pc \in [Sessions -> Labels]
      /\ mCurrentUser \in [Sessions -> UserIds \union {0}]
      /\ loggedInUsers \in [UserIds -> Sessions \union {NoSession}]
      /\ target \in [Sessions -> UserIds \union {0}]
  BY DEF TypeInv, TypeOK
<1>1. pc'[s] = "idle" /\ pc[s] = "forget"
  BY <1>0
<1>2. \A t \in Sessions : t # s =>
        pc'[t] = pc[t] /\ mCurrentUser'[t] = mCurrentUser[t]
  BY <1>0
<1>3. ~LoggedIn(s) /\ ~LoggedIn(s)'
  BY <1>1 DEF LoggedIn, NotAttached
<1>4. \A t \in Sessions : LoggedIn(t)' = LoggedIn(t)
  BY <1>2, <1>3 DEF LoggedIn
<1>5. \A t \in Sessions : pc'[t] \notin Holding
  BY <1>1, <1>2, SessionsAssumption DEF LockOK
<1>6. \A u \in Registered : loggedInUsers[u] # s
  BY <1>3 DEF RegistryOK
<1>7. LockOK'
  BY <1>5, SessionsAssumption DEF LockOK
<1>8. NotAttached'
  BY <1>1, <1>2 DEF NotAttached
<1>9. LoggedInOK'
  BY <1>2, <1>3, <1>4 DEF LoggedInOK
<1>10. VictimOK'
  BY <1>5 DEF VictimOK
<1>11. RegistryOK'
  <2> SUFFICES ASSUME NEW u \in UserIds, loggedInUsers'[u] # NoSession
               PROVE  /\ LoggedIn(loggedInUsers[u])'
                      /\ mCurrentUser'[loggedInUsers'[u]] = u
    BY DEF RegistryOK, Registered
  <2>1. u \in Registered /\ loggedInUsers'[u] = loggedInUsers[u]
    BY DEF Registered
  <2>2. loggedInUsers[u] \in Sessions \ {s}
    BY <1>0, <1>6, <2>1 DEF Registered
  <2> QED BY <1>2, <1>4, <2>1, <2>2 DEF RegistryOK
<1>12. OpenIsRegistered'
  <2> SUFFICES ASSUME NEW t \in Sessions \ lost', open'[t], LoggedIn(t)'
               PROVE  loggedInUsers'[mCurrentUser'[t]] = t
    BY DEF OpenIsRegistered
  <2>1. t # s /\ t \notin lost /\ open[t] /\ LoggedIn(t)
        /\ mCurrentUser'[t] = mCurrentUser[t]
    BY <1>2, <1>3, <1>4
  <2>2. loggedInUsers[mCurrentUser[t]] = t /\ mCurrentUser[t] \in UserIds
    BY <2>1 DEF OpenIsRegistered, LoggedInOK
  <2>3. mCurrentUser[t] \in Registered
    BY <2>2, SessionsAssumption DEF Registered
  <2>4. mCurrentUser[t] # mCurrentUser[s]
    BY <2>2, <2>3
  <2> QED BY <2>1, <2>2, <2>4
<1> QED BY <1>7, <1>8, <1>9, <1>10, <1>11, <1>12

LEMMA LogInRegistry ==
  ASSUME TypeInv, RegistryInv, NEW s \in Sessions, LogIn(s)
  PROVE  RegistryInv'
PROOF
<1> USE DEF UsersLockFree
<1> DEFINE u == user_from_name(line[s].name)
<1>0. /\ pc \in [Sessions -> Labels]
      /\ open \in [Sessions -> BOOLEAN]
      /\ line[s] \in Lines
      /\ line[s].name \in Names
      /\ u.mUserID \in UserIds \union {0}
      /\ NoSession \notin Sessions
  BY LineFields, LookupType, SessionsAssumption
  DEF TypeInv, TypeOK, LogIn, LineOK
<1> HIDE DEF u
<1>1. UNCHANGED <<open, line, target, attached, lost>>
      /\ pc[s] = "log_in" /\ usersLock = NoSession
  BY DEF LogIn
<1>2. CASE GoTo(s, "forget")
           /\ UNCHANGED <<mCurrentUser, loggedInUsers, usersLock, account>>
  <2>1. QuietStep(s)
    BY <1>0, <1>1, <1>2 DEF QuietStep, GoTo, userVars, Holding, Labels
  <2> QED BY <2>1, QuietStepOK
<1>3. CASE /\ u.mUserID \in UserIds
           /\ mCurrentUser' = [mCurrentUser EXCEPT ![s] = u.mUserID]
           /\ loggedInUsers[u.mUserID] = NoSession
           /\ Register(s, u.mUserID, line[s].name)
  <2> DEFINE id == u.mUserID
  <2>1. /\ id \in UserIds
        /\ mCurrentUser' = [mCurrentUser EXCEPT ![s] = id]
        /\ Register(s, id, line[s].name)
        /\ \A t \in Sessions : t = loggedInUsers[id] => ~open'[t]
        /\ \A t \in Sessions : open'[t] => open[t]
        /\ pc[s] \in {"log_in", "evict"} /\ usersLock \in {s, NoSession}
        /\ UNCHANGED <<target, attached, lost>>
    BY <1>0, <1>1, <1>3
  <2> HIDE DEF id
  <2> QED BY <1>0, <2>1, RegisterRegistry
<1>4. CASE /\ u.mUserID \in UserIds
           /\ mCurrentUser' = [mCurrentUser EXCEPT ![s] = u.mUserID]
           /\ loggedInUsers[u.mUserID] # NoSession
           /\ usersLock' = s
           /\ GoTo(s, "evict")
           /\ UNCHANGED <<loggedInUsers, account>>
  <2>1. mCurrentUser'[s] = u.mUserID
    BY <1>4 DEF TypeInv, TypeOK
  <2>2. ~attached[s]
    BY <1>1 DEF RegistryInv, NotAttached
  <2>3. \E label \in Labels :
          /\ pc' = [pc EXCEPT ![s] = label]
          /\ label \in Holding <=> usersLock' = s
          /\ label \notin {"unborn", "check", "log_in", "attach", "forget"}
          /\ label = "ban" => target'[s] \in Registered
          /\ label = "evict" => mCurrentUser'[s] \in Registered /\ ~attached[s]
    <3>1. "evict" \in Labels
      BY DEF Labels
    <3> WITNESS "evict" \in Labels
    <3> QED BY <1>4, <2>1, <2>2 DEF GoTo, Holding, Registered
  <2>4. LockStep(s)
    BY <1>1, <1>4, <2>3 DEF LockStep
  <2> QED BY <2>4, LockStepOK
<1>5. MayLogIn(u, line[s].good) => u.mUserID \in UserIds
  BY <1>0 DEF MayLogIn
<1> QED BY <1>2, <1>3, <1>4, <1>5 DEF LogIn, u

LEMMA EvictRegistry ==
  ASSUME TypeInv, RegistryInv, NEW s \in Sessions, EvictForLogin(s)
  PROVE  RegistryInv'
PROOF
<1> USE DEF EvictForLogin, Disconnect
<1>1. /\ open \in [Sessions -> BOOLEAN]
      /\ line[s].name \in Names
  BY LineFields DEF TypeInv, TypeOK, LineOK
<1>2. mCurrentUser[s] \in UserIds /\ usersLock = s
  BY DEF RegistryInv, VictimOK, LockOK, Registered, Holding
<1>3. mCurrentUser' = [mCurrentUser EXCEPT ![s] = mCurrentUser[s]]
  BY DEF TypeInv, TypeOK
<1>4. /\ \A t \in Sessions : open'[t] => open[t]
      /\ \A t \in Sessions : t = loggedInUsers[mCurrentUser[s]] => ~open'[t]
  BY <1>1
<1> QED BY <1>1, <1>2, <1>3, <1>4, RegisterRegistry

LEMMA RegistryStep ==
  ASSUME TypeInv, RegistryInv, [Next]_vars
  PROVE  RegistryInv'
PROOF
<1>1. CASE UNCHANGED vars
  BY <1>1
  DEF vars, threadVars, userVars, historyVars, RegistryInv, LockOK, NotAttached,
      LoggedInOK, VictimOK, RegistryOK, OpenIsRegistered, LoggedIn, Registered
<1>2. ASSUME NEW s \in Sessions, Connect(s) \/ ClientStep(s)
      PROVE  RegistryInv'
  BY <1>2, ConnectRegistry, QuietSteps, QuietStepOK DEF ClientStep
<1>3. ASSUME NEW s \in Sessions, LoginStep(s)
      PROVE  RegistryInv'
  BY <1>3, LoginHandlerRegistry, QuietSteps, QuietStepOK, LogInRegistry,
     EvictRegistry, AttachRegistry, ForgetRegistry
  DEF LoginStep
<1>4. ASSUME NEW s \in Sessions, AdminStep(s)
      PROVE  RegistryInv'
  BY <1>4, LockSteps, LockStepOK, QuietSteps, QuietStepOK DEF AdminStep
<1>5. ASSUME NEW s \in Sessions, ShutdownStep(s)
      PROVE  RegistryInv'
  BY <1>5, LockSteps, LockStepOK, QuietSteps, QuietStepOK DEF ShutdownStep
<1>6. ASSUME NEW s \in Sessions,
             BeginRead(s) \/ End(s) \/ Logout(s) \/ OtherCommand(s)
      PROVE  RegistryInv'
  BY <1>6, QuietSteps, QuietStepOK
<1>7. CASE EndProcess
  <2>1. LockOK'
    BY <1>7, EndProcessFacts, SessionsAssumption DEF EndProcess, LockOK, Holding
  <2>2. NotAttached' /\ VictimOK'
    BY <1>7, EndProcessFacts DEF NotAttached, VictimOK
  <2>3. LoggedInOK' /\ OpenIsRegistered'
    BY <1>7, EndProcessFacts DEF LoggedInOK, OpenIsRegistered
  <2>4. RegistryOK'
    BY <1>7, EndProcessFacts DEF RegistryOK
  <2> QED BY <2>1, <2>2, <2>3, <2>4 DEF RegistryInv
<1> QED BY <1>1, <1>2, <1>3, <1>4, <1>5, <1>6, <1>7
        DEF Next, ThreadStep, Finished

LEMMA InitRegistryInv == Init => RegistryInv
BY SessionsAssumption
DEF Init, RegistryInv, LockOK, NotAttached, LoggedInOK, VictimOK, RegistryOK,
    OpenIsRegistered, LoggedIn, Registered, Holding

LEMMA RegistryInvariant == Spec => [](TypeInv /\ RegistryInv)
PROOF
<1>1. TypeInv /\ RegistryInv /\ [Next]_vars => RegistryInv'
  BY RegistryStep
<1> QED BY <1>1, InitRegistryInv, TypeInvariant, PTL DEF Spec

(***************************************************************************)
(* loggedInUsers never leads to a user_session that is gone or that is     *)
(* logged in as somebody else, so following its weak pointers unchecked is *)
(* safe.                                                                   *)
(***************************************************************************)
THEOREM RegistryCorrect == Spec => []RegistryOK
PROOF
<1>1. RegistryInv => RegistryOK
  BY DEF RegistryInv
<1> QED BY <1>1, RegistryInvariant, PTL

(***************************************************************************)
(* Of the sessions whose entry no failed login has erased, at most one is  *)
(* connected for each user.                                                *)
(***************************************************************************)
THEOREM OneSession == Spec => []OneSessionPerUser
PROOF
<1>1. RegistryInv => OneSessionPerUser
  BY DEF RegistryInv, OpenIsRegistered, OneSessionPerUser
<1> QED BY <1>1, RegistryInvariant, PTL

-----------------------------------------------------------------------------
(* The loops over the registry                                             *)

\* What a loop has still to visit is in the registry, and only the thread
\* that holds usersLock is in a loop.
LoopOK ==
  /\ todo \subseteq Registered
  /\ todo # {} => usersLock \in Sessions /\ pc[usersLock] \in {"warn", "sweep"}

\* While a loop has entries to visit, no other thread gets in its way.
LEMMA OutsideLoopOK ==
  ASSUME RegistryInv, LoopOK, NEW s \in Sessions,
         UNCHANGED todo,
         pc[s] \notin {"warn", "sweep"},
         \A t \in Sessions : t # s => pc'[t] = pc[t],
         usersLock \in Sessions /\ usersLock # s =>
           UNCHANGED <<usersLock, loggedInUsers>>
  PROVE  LoopOK'
BY DEF LoopOK, Registered

LEMMA LoopStep ==
  ASSUME TypeInv, RegistryInv, LoopOK, [Next]_vars
  PROVE  LoopOK'
PROOF
<1> USE DEF GoTo, Return, Handles, UsersLockFree, userVars, shutdownVars,
            historyVars
<1>0. /\ pc \in [Sessions -> Labels]
      /\ loggedInUsers \in [UserIds -> Sessions \union {NoSession}]
      /\ NoSession \notin Sessions
  BY SessionsAssumption DEF TypeInv, TypeOK
<1>1. CASE UNCHANGED vars
  BY <1>1 DEF vars, threadVars, LoopOK, Registered
<1>2. ASSUME NEW s \in Sessions,
             \/ Connect(s) \/ ClientStep(s) \/ BeginRead(s) \/ End(s)
             \/ Logout(s) \/ OtherCommand(s)
      PROVE  LoopOK'
  <2>1. /\ UNCHANGED <<todo, usersLock, loggedInUsers>>
        /\ pc[s] \notin {"warn", "sweep"}
        /\ \A t \in Sessions : t # s => pc'[t] = pc[t]
    BY <1>0, <1>2 DEF Connect, Handshake, ClientStep, ReceiveLine, HangUp,
                      BeginRead, End, Logout, OtherCommand
  <2> QED BY <2>1, OutsideLoopOK
<1>3. ASSUME NEW s \in Sessions, LoginStep(s)
      PROVE  LoopOK'
  <2>1. UNCHANGED todo
    BY <1>3 DEF LoginStep, LoginHandler, LogInCheck, LogIn, EvictForLogin,
                Attach, Forget
  <2>2. /\ pc[s] \notin {"warn", "sweep"}
        /\ \A t \in Sessions : t # s => pc'[t] = pc[t]
    BY <1>0, <1>3 DEF LoginStep, LoginHandler, LogInCheck, LogIn,
                      EvictForLogin, Register, Attach, Forget
  <2>3. pc[s] = "evict" => usersLock = s
    BY DEF RegistryInv, LockOK, Holding
  <2>4. usersLock \in Sessions /\ usersLock # s =>
          UNCHANGED <<usersLock, loggedInUsers>>
    BY <1>0, <1>3, <2>3 DEF LoginStep, LoginHandler, LogInCheck, LogIn,
                            EvictForLogin, Attach, Forget
  <2> QED BY <2>1, <2>2, <2>4, OutsideLoopOK
<1>4. ASSUME NEW s \in Sessions, AdminStep(s)
      PROVE  LoopOK'
  <2>1. UNCHANGED <<todo, loggedInUsers>>
    BY <1>4 DEF AdminStep, FindTarget, BlockUser, RetireUser, BanUser,
                DeleteUser, LogOutBanned, MakeModerator, MakeOwner, AddUser
  <2>2. /\ pc[s] \notin {"warn", "sweep"}
        /\ \A t \in Sessions : t # s => pc'[t] = pc[t]
    BY <1>0, <1>4 DEF AdminStep, FindTarget, BlockUser, RetireUser, BanUser,
                      Ban, LogOutUser, DeleteUser, LogOutBanned,
                      MakeModerator, MakeOwner, AddUser
  <2>3. pc[s] = "ban" => usersLock = s
    BY DEF RegistryInv, LockOK, Holding
  <2>4. usersLock \in Sessions /\ usersLock # s => UNCHANGED usersLock
    BY <1>0, <1>4, <2>3
    DEF AdminStep, FindTarget, BlockUser, RetireUser, BanUser, DeleteUser,
        LogOutBanned, MakeModerator, MakeOwner, AddUser
  <2> QED BY <2>1, <2>2, <2>4, OutsideLoopOK
<1>5. ASSUME NEW s \in Sessions, ShutdownStep(s)
      PROVE  LoopOK'
  <2>1. CASE ShutdownHandler(s) \/ Authorize(s) \/ ShutDown(s)
    <3>1. /\ UNCHANGED <<todo, usersLock, loggedInUsers>>
          /\ pc[s] \notin {"warn", "sweep"}
          /\ \A t \in Sessions : t # s => pc'[t] = pc[t]
      BY <1>0, <2>1 DEF ShutdownHandler, Authorize, ShutDown
    <3> QED BY <3>1, OutsideLoopOK
  <2>2. CASE Announce(s) \/ Linger(s)
    <3>1. /\ todo' = Registered /\ usersLock' = s
          /\ pc'[s] \in {"warn", "sweep"}
          /\ UNCHANGED loggedInUsers
      BY <1>0, <2>2 DEF Announce, Linger, BeginLoop
    <3> QED BY <3>1 DEF LoopOK, Registered
  <2>3. CASE Warn(s) \/ Sweep(s)
    <3>1. usersLock = s /\ pc[s] \in {"warn", "sweep"}
      BY <2>3 DEF Warn, Sweep, RegistryInv, LockOK, Holding
    <3>2. UNCHANGED loggedInUsers
      BY <2>3 DEF Warn, Sweep
    <3>3. \/ todo' \subseteq todo /\ UNCHANGED <<pc, usersLock>>
          \/ todo' = {}
      BY <2>3 DEF Warn, Sweep, Visit, EndLoop
    <3> QED BY <3>1, <3>2, <3>3 DEF LoopOK, Registered
  <2> QED BY <1>5, <2>1, <2>2, <2>3 DEF ShutdownStep
<1>6. CASE EndProcess
  BY <1>6 DEF EndProcess, LoopOK
<1> QED BY <1>1, <1>2, <1>3, <1>4, <1>5, <1>6 DEF Next, ThreadStep, Finished

LEMMA InitLoopOK == Init => LoopOK
BY DEF Init, LoopOK

LEMMA LoopInvariant == Spec => []LoopOK
PROOF
<1>1. TypeInv /\ RegistryInv /\ LoopOK /\ [Next]_vars => LoopOK'
  BY LoopStep
<1> QED BY <1>1, InitLoopOK, RegistryInvariant, PTL DEF Spec

(***************************************************************************)
(* A shutdown's broadcasts and its forced disconnects follow the weak      *)
(* pointers of loggedInUsers unchecked (eleven_users.cpp:334, 357), over   *)
(* many steps of other threads: every entry they still have to visit leads *)
(* to a user_session that exists.                                          *)
(***************************************************************************)
THEOREM LoopsAreSafe ==
  Spec => [](\A u \in todo : LoggedIn(loggedInUsers[u]))
PROOF
<1>1. RegistryInv /\ LoopOK => \A u \in todo : LoggedIn(loggedInUsers[u])
  BY DEF RegistryInv, RegistryOK, LoopOK
<1> QED BY <1>1, LoopInvariant, RegistryInvariant, PTL

-----------------------------------------------------------------------------
(* Sessions and accounts                                                   *)

\* The account a login found does not change while the login waits, with
\* usersLock, to disconnect the user's other session.
EvictingOK ==
  \A s \in Sessions :
    pc[s] = "evict" =>
      /\ mUsers[mCurrentUser[s]].mUserName = line[s].name
      /\ ~Banned(mUsers[mCurrentUser[s]])

AccountInv == EvictingOK /\ SessionKeepsAccount /\ BannedIsOffline

\* While usersLock is free nobody is being logged out and no login waits.
LEMMA LockFreeOK ==
  ASSUME RegistryInv, UsersLockFree
  PROVE  /\ \A u : ~BeingLoggedOut(u)
         /\ \A t \in Sessions : pc[t] \notin {"ban", "evict"}
BY SessionsAssumption
DEF RegistryInv, LockOK, UsersLockFree, BeingLoggedOut, Holding

\* A logged-in session's account is that of its user id.
LEMMA SelfIs ==
  ASSUME RegistryInv, NEW s \in Sessions, LoggedIn(s)
  PROVE  /\ mCurrentUser[s] \in UserIds
         /\ Self(s) = mUsers[mCurrentUser[s]]
BY DEF RegistryInv, LoggedInOK, Self, user_from_id

\* A step that changes no account, logs nobody in and interrupts no thread
\* that waits for a session to be disconnected.
StillStep ==
  /\ UNCHANGED <<dbVars, spared>>
  /\ lost \subseteq lost'
  /\ \A t \in Sessions : LoggedIn(t)' =>
       /\ LoggedIn(t)
       /\ mCurrentUser'[t] = mCurrentUser[t]
       /\ account'[t] = account[t]
       /\ open'[t] => open[t]
  /\ \A t \in Sessions : pc[t] = "ban" => pc'[t] = "ban" /\ target'[t] = target[t]
  /\ \A t \in Sessions : pc'[t] = "evict" =>
       pc[t] = "evict" /\ mCurrentUser'[t] = mCurrentUser[t] /\ line'[t] = line[t]

LEMMA StillStepOK ==
  ASSUME RegistryInv, AccountInv, StillStep
  PROVE  AccountInv'
PROOF
<1> USE DEF StillStep, AccountInv, dbVars
<1>1. EvictingOK'
  BY DEF EvictingOK, Banned
<1>2. \A u : BeingLoggedOut(u) => BeingLoggedOut(u)'
  BY DEF BeingLoggedOut
<1>3. \A t \in Sessions : LoggedIn(t)' => Self(t)' = Self(t)
  BY DEF Self, user_from_id
<1>4. SessionKeepsAccount'
  <2> SUFFICES ASSUME NEW t \in Sessions \ lost', open'[t], LoggedIn(t)'
               PROVE  \/ Self(t)'.mUserName = account'[t]
                      \/ BeingLoggedOut(mCurrentUser[t])'
    BY DEF SessionKeepsAccount
  <2>1. Self(t).mUserName = account[t] \/ BeingLoggedOut(mCurrentUser[t])
    BY DEF SessionKeepsAccount
  <2>2. /\ BeingLoggedOut(mCurrentUser[t]) => BeingLoggedOut(mCurrentUser[t])'
        /\ Self(t)' = Self(t) /\ account'[t] = account[t]
    BY <1>3 DEF BeingLoggedOut
  <2> QED BY <2>1, <2>2
<1>5. BannedIsOffline'
  <2> SUFFICES ASSUME NEW t \in Sessions \ (lost' \union spared'), open'[t],
                      LoggedIn(t)'
               PROVE  \/ ~Banned(Self(t))'
                      \/ BeingLoggedOut(mCurrentUser[t])'
    BY DEF BannedIsOffline
  <2>1. ~Banned(Self(t)) \/ BeingLoggedOut(mCurrentUser[t])
    BY DEF BannedIsOffline
  <2>2. /\ BeingLoggedOut(mCurrentUser[t]) => BeingLoggedOut(mCurrentUser[t])'
        /\ Self(t)' = Self(t)
    BY <1>3 DEF BeingLoggedOut
  <2> QED BY <2>1, <2>2 DEF Banned
<1> QED BY <1>1, <1>4, <1>5

\* block_user, retire_user and delete_user: one account changes and its user
\* is logged out, or spared because the save failed.
LEMMA BanStepOK ==
  ASSUME TypeInv, RegistryInv, AccountInv, UsersLockFree,
         NEW s \in Sessions, NEW id \in UserIds,
         \A u \in UserIds : u # id => mUsers'[u] = mUsers[u],
         UNCHANGED <<open, userVars, account, lost>>, pc[s] # "attach",
         \/ LogOutUser(s, id) /\ UNCHANGED spared
         \/ /\ Return(s)
            /\ spared' = spared \union ({loggedInUsers[id]} \ {NoSession})
            /\ mUsers'[id].mUserName = mUsers[id].mUserName
  PROVE  AccountInv'
PROOF
<1> USE DEF userVars, AccountInv
<1>0. /\ pc \in [Sessions -> Labels]
      /\ target \in [Sessions -> UserIds \union {0}]
      /\ NoSession \notin Sessions
  BY SessionsAssumption DEF TypeInv, TypeOK
<1>1. /\ \A u : ~BeingLoggedOut(u)
      /\ \A t \in Sessions : pc[t] \notin {"ban", "evict"}
  BY LockFreeOK
<1>2. /\ \A t \in Sessions : t # s => pc'[t] = pc[t]
      /\ pc'[s] \in {"ban", "idle"}
  BY <1>0 DEF LogOutUser, Return, GoTo
<1>3. \A t \in Sessions : LoggedIn(t)' = LoggedIn(t)
  BY <1>2 DEF LoggedIn
<1>4. EvictingOK'
  BY <1>1, <1>2 DEF EvictingOK
<1>5. ASSUME NEW t \in Sessions \ lost, open[t], LoggedIn(t),
             mCurrentUser[t] = id
      PROVE  /\ \/ BeingLoggedOut(mCurrentUser[t])'
                \/ mUsers'[id].mUserName = mUsers[id].mUserName
             /\ BeingLoggedOut(mCurrentUser[t])' \/ t \in spared'
  <2>1. loggedInUsers[id] = t
    BY <1>5 DEF RegistryInv, OpenIsRegistered
  <2>2. CASE LogOutUser(s, id)
    <3>1. pc'[s] = "ban" /\ target'[s] = id
      BY <1>0, <2>1, <2>2 DEF LogOutUser, GoTo
    <3> QED BY <1>5, <3>1 DEF BeingLoggedOut
  <2>3. CASE ~LogOutUser(s, id)
    BY <1>0, <2>1, <2>3
  <2> QED BY <2>2, <2>3
<1>6. ASSUME NEW t \in Sessions, LoggedIn(t)'
      PROVE  /\ LoggedIn(t)
             /\ mCurrentUser[t] \in UserIds
             /\ Self(t) = mUsers[mCurrentUser[t]]
             /\ Self(t)' = mUsers'[mCurrentUser[t]]
  BY <1>3, <1>6, SelfIs DEF Self, user_from_id
<1>7. SessionKeepsAccount'
  <2> SUFFICES ASSUME NEW t \in Sessions \ lost, open[t], LoggedIn(t)'
               PROVE  \/ Self(t)'.mUserName = account[t]
                      \/ BeingLoggedOut(mCurrentUser[t])'
    BY DEF SessionKeepsAccount
  <2>1. Self(t).mUserName = account[t]
    BY <1>1, <1>6 DEF SessionKeepsAccount
  <2> QED BY <1>5, <1>6, <2>1
<1>8. BannedIsOffline'
  <2> SUFFICES ASSUME NEW t \in Sessions \ (lost \union spared'), open[t],
                      LoggedIn(t)'
               PROVE  \/ ~Banned(Self(t))'
                      \/ BeingLoggedOut(mCurrentUser[t])'
    BY DEF BannedIsOffline
  <2>1. ~Banned(Self(t))
    BY <1>1, <1>6 DEF BannedIsOffline
  <2>2. CASE mCurrentUser[t] = id
    BY <1>5, <1>6, <2>2
  <2>3. CASE mCurrentUser[t] # id
    BY <1>6, <2>1, <2>3 DEF Banned
  <2> QED BY <2>2, <2>3
<1> QED BY <1>4, <1>7, <1>8

\* /adduser, /makemoderator, /makeowner: no account in use changes its name
\* or becomes banned.
LEMMA OtherDbStepOK ==
  ASSUME TypeInv, RegistryInv, AccountInv, UsersLockFree,
         NEW s \in Sessions, QuietStep(s), UNCHANGED spared,
         \A u \in UserIds : mUsers[u] # NoUser =>
           /\ mUsers'[u].mUserName = mUsers[u].mUserName
           /\ Banned(mUsers[u])' => Banned(mUsers[u])
  PROVE  AccountInv'
PROOF
<1> USE DEF AccountInv
<1>0. pc \in [Sessions -> Labels]
  BY DEF TypeInv, TypeOK
<1>1. /\ \A u : ~BeingLoggedOut(u)
      /\ \A t \in Sessions : pc[t] \notin {"ban", "evict"}
  BY LockFreeOK
<1>2. \A t \in Sessions :
        /\ pc'[t] # "evict"
        /\ LoggedIn(t)' => LoggedIn(t)
  BY <1>0, <1>1 DEF QuietStep, LoggedIn, Holding, userVars
<1>3. EvictingOK'
  BY <1>2 DEF EvictingOK
<1>4. ASSUME NEW t \in Sessions \ lost, open'[t], LoggedIn(t)'
      PROVE  /\ open[t]
             /\ LoggedIn(t)
             /\ mUsers[mCurrentUser[t]] # NoUser
             /\ mCurrentUser[t] \in UserIds
             /\ Self(t) = mUsers[mCurrentUser[t]]
             /\ Self(t)' = mUsers'[mCurrentUser[t]]
             /\ Self(t).mUserName = account[t]
             /\ account'[t] = account[t]
  <2>1. open[t] /\ LoggedIn(t) /\ mCurrentUser[t] \in UserIds
        /\ Self(t) = mUsers[mCurrentUser[t]]
    BY <1>2, <1>4, SelfIs DEF QuietStep
  <2>2. Self(t)' = mUsers'[mCurrentUser[t]] /\ account'[t] = account[t]
    BY <2>1 DEF Self, user_from_id, QuietStep, userVars
  <2>3. Self(t).mUserName = account[t]
    BY <1>1, <2>1 DEF SessionKeepsAccount
  <2>4. account[t] \in Names
    BY <2>1 DEF RegistryInv, LoggedInOK
  <2>5. mUsers[mCurrentUser[t]] # NoUser
    BY <2>1, <2>3, <2>4, DatabaseAssumption DEF NoUser
  <2> QED BY <2>1, <2>2, <2>3, <2>5
<1>5. lost' = lost
  BY DEF QuietStep
<1>6. SessionKeepsAccount'
  BY <1>4, <1>5 DEF SessionKeepsAccount
<1>7. BannedIsOffline'
  <2> SUFFICES ASSUME NEW t \in Sessions \ (lost \union spared), open'[t],
                      LoggedIn(t)'
               PROVE  ~Banned(Self(t))'
    BY <1>5 DEF BannedIsOffline
  <2>1. ~Banned(Self(t))
    BY <1>1, <1>4 DEF BannedIsOffline
  <2> QED BY <1>4, <2>1 DEF Banned
<1> QED BY <1>3, <1>6, <1>7

\* A session enters the registry as the user whose name it gave.
LEMMA RegisterAccount ==
  ASSUME TypeInv, RegistryInv, AccountInv, NEW s \in Sessions,
         NEW u \in UserIds, Register(s, u, mUsers[u].mUserName),
         ~Banned(mUsers[u]),
         usersLock \in {s, NoSession}, pc[s] # "ban",
         mCurrentUser' = [mCurrentUser EXCEPT ![s] = u],
         UNCHANGED <<dbVars, attached, lost, spared>>,
         \A t \in Sessions : open'[t] => open[t]
  PROVE  AccountInv'
PROOF
<1> USE DEF Register, GoTo, AccountInv, dbVars
<1>0. /\ pc \in [Sessions -> Labels]
      /\ mCurrentUser \in [Sessions -> UserIds \union {0}]
      /\ account \in [Sessions -> Names \union {NoName}]
  BY DEF TypeInv, TypeOK
<1>1. /\ \A v : ~BeingLoggedOut(v)
      /\ \A t \in Sessions : t # s => pc[t] # "evict"
  BY SessionsAssumption DEF RegistryInv, LockOK, Holding, BeingLoggedOut
<1>2. /\ pc'[s] = "attach" /\ mCurrentUser'[s] = u
      /\ account'[s] = mUsers[u].mUserName
      /\ Self(s)' = mUsers[u]
  BY <1>0 DEF Self, user_from_id
<1>3. \A t \in Sessions : t # s =>
        /\ pc'[t] = pc[t] /\ mCurrentUser'[t] = mCurrentUser[t]
        /\ account'[t] = account[t]
        /\ LoggedIn(t)' = LoggedIn(t)
        /\ Self(t)' = Self(t)
  BY <1>0 DEF LoggedIn, Self, user_from_id
<1>4. EvictingOK'
  BY <1>1, <1>2, <1>3 DEF EvictingOK
<1>5. SessionKeepsAccount'
  BY <1>1, <1>2, <1>3 DEF SessionKeepsAccount
<1>6. BannedIsOffline'
  <2> SUFFICES ASSUME NEW t \in Sessions \ (lost \union spared), open'[t],
                      LoggedIn(t)'
               PROVE  ~Banned(Self(t))'
    BY DEF BannedIsOffline
  <2>1. CASE t = s
    BY <1>2, <2>1 DEF Banned
  <2>2. CASE t # s
    <3>1. ~Banned(Self(t))
      BY <1>1, <1>3, <2>2 DEF BannedIsOffline
    <3> QED BY <1>3, <2>2, <3>1 DEF Banned
  <2> QED BY <2>1, <2>2
<1> QED BY <1>4, <1>5, <1>6

\* The user a ban was about is disconnected, so the ban is over.
LEMMA LogOutBannedAccount ==
  ASSUME TypeInv, RegistryInv, AccountInv, NEW s \in Sessions, LogOutBanned(s)
  PROVE  AccountInv'
PROOF
<1> USE DEF LogOutBanned, GoTo, Return, Disconnect, AccountInv, userVars,
            historyVars, dbVars
<1>0. /\ pc \in [Sessions -> Labels]
      /\ open \in [Sessions -> BOOLEAN]
  BY DEF TypeInv, TypeOK
<1>1. /\ target[s] \in Registered
      /\ \A t \in Sessions : t # s => pc[t] \notin {"ban", "evict"}
  BY SessionsAssumption DEF RegistryInv, VictimOK, LockOK, Holding
<1>2. /\ pc'[s] = "idle"
      /\ \A t \in Sessions : t # s => pc'[t] = pc[t]
  BY <1>0
<1>3. \A t \in Sessions : LoggedIn(t)' = LoggedIn(t)
  BY <1>2 DEF LoggedIn
<1>4. \A t \in Sessions : open'[t] => open[t]
  BY <1>0
<1>5. EvictingOK'
  BY <1>1, <1>2 DEF EvictingOK
<1>6. ASSUME NEW t \in Sessions \ lost, open'[t], LoggedIn(t)'
      PROVE  ~BeingLoggedOut(mCurrentUser[t])
  <2> SUFFICES ASSUME BeingLoggedOut(mCurrentUser[t]) PROVE FALSE
    OBVIOUS
  <2>1. target[s] = mCurrentUser[t]
    BY <1>1 DEF BeingLoggedOut
  <2>2. loggedInUsers[target[s]] = t
    BY <1>3, <1>4, <1>6, <2>1 DEF RegistryInv, OpenIsRegistered
  <2> QED BY <1>0, <1>6, <2>2
<1>7. \A t \in Sessions : Self(t)' = Self(t)
  BY DEF Self, user_from_id
<1>8. SessionKeepsAccount'
  BY <1>3, <1>4, <1>6, <1>7 DEF SessionKeepsAccount
<1>9. BannedIsOffline'
  <2> SUFFICES ASSUME NEW t \in Sessions \ (lost \union spared), open'[t],
                      LoggedIn(t)'
               PROVE  ~Banned(Self(t))'
    BY DEF BannedIsOffline
  <2>1. ~Banned(Self(t))
    BY <1>3, <1>4, <1>6 DEF BannedIsOffline
  <2> QED BY <1>7, <2>1 DEF Banned
<1> QED BY <1>5, <1>8, <1>9

\* A quiet step that changes no account is still.
LEMMA QuietIsStill ==
  ASSUME TypeInv, NEW s \in Sessions, QuietStep(s),
         UNCHANGED <<dbVars, spared>>,
         \A t \in Sessions : t # s => line'[t] = line[t]
  PROVE  StillStep
PROOF
<1>0. pc \in [Sessions -> Labels]
  BY DEF TypeInv, TypeOK
<1> QED BY <1>0 DEF QuietStep, StillStep, LoggedIn, Holding, userVars

LEMMA StillSteps ==
  ASSUME TypeInv, RegistryInv, NEW s \in Sessions,
         \/ Connect(s) \/ BeginRead(s) \/ End(s) \/ HangUp(s)
         \/ \E l \in Lines : ReceiveLine(s, l)
         \/ LoginHandler(s) \/ LogInCheck(s) \/ Attach(s) \/ Forget(s)
         \/ FindTarget(s) \/ Logout(s) \/ OtherCommand(s)
         \/ ShutdownStep(s)
  PROVE  StillStep
PROOF
<1> USE DEF GoTo, Return, Disconnect, Handles, userVars, historyVars
<1>0. /\ pc \in [Sessions -> Labels]
      /\ open \in [Sessions -> BOOLEAN]
      /\ line \in [Sessions -> Lines \union {NoLine}]
      /\ target \in [Sessions -> UserIds \union {0}]
      /\ attached \in [Sessions -> BOOLEAN]
      /\ mCurrentUser \in [Sessions -> UserIds \union {0}]
  BY DEF TypeInv, TypeOK
<1>1. CASE Connect(s)
  <2>1. ~attached[s]
    BY <1>1 DEF Connect, Handshake, RegistryInv, NotAttached
  <2> QED BY <1>0, <1>1, <2>1 DEF Connect, Handshake, StillStep, LoggedIn
<1>2. CASE \/ BeginRead(s) \/ End(s) \/ HangUp(s) \/ Logout(s)
           \/ OtherCommand(s)
  <2>1. QuietStep(s)
    BY <1>2, QuietSteps
  <2> QED BY <1>0, <1>2, <2>1, QuietIsStill
          DEF BeginRead, End, HangUp, Logout, OtherCommand
<1>3. CASE \E l \in Lines : ReceiveLine(s, l)
  <2>1. QuietStep(s)
    BY <1>3, QuietSteps
  <2> QED BY <1>0, <1>3, <2>1, QuietIsStill DEF ReceiveLine
<1>4. CASE LoginHandler(s)
  <2>1. pc[s] = "dispatch" /\ (~attached[s] \/ UNCHANGED mCurrentUser)
    BY <1>4 DEF LoginHandler
  <2>2. /\ pc'[s] \in {"idle", "check"}
        /\ \A t \in Sessions : t # s =>
             /\ pc'[t] = pc[t] /\ target'[t] = target[t] /\ line'[t] = line[t]
             /\ mCurrentUser'[t] = mCurrentUser[t]
        /\ \A t \in Sessions : open'[t] => open[t]
    BY <1>0, <1>4 DEF LoginHandler
  <2>3. UNCHANGED <<dbVars, attached, account, lost, spared>>
    BY <1>4 DEF LoginHandler
  <2> QED BY <2>1, <2>2, <2>3 DEF StillStep, LoggedIn
<1>5. CASE LogInCheck(s) \/ FindTarget(s)
  <2>1. QuietStep(s)
    BY <1>5, QuietSteps
  <2> QED BY <1>0, <1>5, <2>1, QuietIsStill DEF LogInCheck, FindTarget
<1>6. CASE Attach(s)
  <2>1. /\ pc[s] = "attach" /\ pc'[s] = "idle"
        /\ \A t \in Sessions : t # s =>
             /\ pc'[t] = pc[t] /\ target'[t] = target[t] /\ line'[t] = line[t]
             /\ attached'[t] = attached[t]
        /\ UNCHANGED <<open, mCurrentUser, dbVars, account, lost, spared>>
    BY <1>0, <1>6 DEF Attach
  <2> QED BY <2>1 DEF StillStep, LoggedIn
<1>7. CASE Forget(s)
  <2>1. /\ pc[s] = "forget" /\ pc'[s] = "idle" /\ ~attached[s]
        /\ \A t \in Sessions : t # s =>
             /\ pc'[t] = pc[t] /\ target'[t] = target[t] /\ line'[t] = line[t]
             /\ mCurrentUser'[t] = mCurrentUser[t]
        /\ UNCHANGED <<open, attached, dbVars, account, spared>>
        /\ lost \subseteq lost'
    BY <1>0, <1>7 DEF Forget, RegistryInv, NotAttached
  <2> QED BY <2>1 DEF StillStep, LoggedIn
<1>8. CASE ShutdownHandler(s) \/ Authorize(s) \/ ShutDown(s)
  <2>1. QuietStep(s)
    BY <1>8, QuietSteps
  <2> QED BY <1>0, <1>8, <2>1, QuietIsStill
          DEF ShutdownHandler, Authorize, ShutDown
<1>9. CASE Announce(s) \/ Warn(s) \/ Linger(s) \/ Sweep(s)
  <2>1. /\ pc[s] \notin {"ban", "attach"} /\ pc'[s] \notin {"attach", "evict"}
        /\ \A t \in Sessions : t # s => pc'[t] = pc[t]
    BY <1>0, <1>9
    DEF Announce, Warn, Linger, Sweep, BeginLoop, EndLoop
  <2>2. /\ UNCHANGED <<line, target, userVars, dbVars, historyVars>>
        /\ \A t \in Sessions : open'[t] => open[t]
    BY <1>0, <1>9 DEF Announce, Warn, Linger, Sweep
  <2> QED BY <2>1, <2>2 DEF StillStep, LoggedIn
<1> QED BY <1>1, <1>2, <1>3, <1>4, <1>5, <1>6, <1>7, <1>8, <1>9
        DEF ShutdownStep

LEMMA LogInAccount ==
  ASSUME TypeInv, RegistryInv, AccountInv, NEW s \in Sessions, LogIn(s)
  PROVE  AccountInv'
PROOF
<1> USE DEF UsersLockFree
<1> DEFINE u == user_from_name(line[s].name)
<1>0. /\ pc \in [Sessions -> Labels]
      /\ DatabaseInv
      /\ line[s].name \in Names
      /\ pc[s] = "log_in" /\ usersLock = NoSession
      /\ UNCHANGED <<dbVars, open, line, target, attached, lost, spared>>
  BY LineFields DEF TypeInv, TypeOK, DatabaseInv, LogIn, LineOK
<1>1. ASSUME MayLogIn(u, line[s].good)
      PROVE  /\ u.mUserID \in UserIds
             /\ u = mUsers[u.mUserID]
             /\ u.mUserName = line[s].name
             /\ ~Banned(u)
  BY <1>0, <1>1, LookupOK DEF MayLogIn
<1> HIDE DEF u
<1>2. CASE GoTo(s, "forget")
           /\ UNCHANGED <<mCurrentUser, loggedInUsers, usersLock, account>>
  <2>1. StillStep
    BY <1>0, <1>2 DEF StillStep, GoTo, LoggedIn
  <2> QED BY <2>1, StillStepOK
<1>3. CASE /\ MayLogIn(u, line[s].good)
           /\ mCurrentUser' = [mCurrentUser EXCEPT ![s] = u.mUserID]
           /\ Register(s, u.mUserID, line[s].name)
  <2> DEFINE id == u.mUserID
  <2>1. /\ id \in UserIds
        /\ Register(s, id, mUsers[id].mUserName)
        /\ ~Banned(mUsers[id])
        /\ mCurrentUser' = [mCurrentUser EXCEPT ![s] = id]
    BY <1>1, <1>3
  <2>2. /\ \A t \in Sessions : open'[t] => open[t]
        /\ usersLock \in {s, NoSession} /\ pc[s] # "ban"
        /\ UNCHANGED <<dbVars, attached, lost, spared>>
    BY <1>0
  <2> HIDE DEF id
  <2> QED BY <2>1, <2>2, RegisterAccount
<1>4. CASE /\ MayLogIn(u, line[s].good)
           /\ mCurrentUser' = [mCurrentUser EXCEPT ![s] = u.mUserID]
           /\ GoTo(s, "evict")
           /\ UNCHANGED <<loggedInUsers, account>>
  <2>1. /\ mCurrentUser'[s] = u.mUserID
        /\ \A t \in Sessions : t # s => mCurrentUser'[t] = mCurrentUser[t]
    BY <1>4 DEF TypeInv, TypeOK
  <2>2. /\ pc'[s] = "evict"
        /\ \A t \in Sessions : t # s => pc'[t] = pc[t]
    BY <1>0, <1>4 DEF GoTo
  <2>3. ~LoggedIn(s) /\ ~LoggedIn(s)'
    BY <1>0, <2>2 DEF LoggedIn, RegistryInv, NotAttached
  <2>4. \A t \in Sessions : t # s =>
          LoggedIn(t)' = LoggedIn(t) /\ Self(t)' = Self(t)
    BY <1>0, <2>1, <2>2 DEF LoggedIn, Self, user_from_id, dbVars
  <2>5. \A v : BeingLoggedOut(v)' = BeingLoggedOut(v)
    BY <1>0, <2>2 DEF BeingLoggedOut
  <2>6. EvictingOK'
    BY <1>0, <1>1, <1>4, <2>1, <2>2 DEF EvictingOK, AccountInv, Banned, dbVars
  <2>7. SessionKeepsAccount'
    <3> SUFFICES ASSUME NEW t \in Sessions \ lost, open[t], LoggedIn(t)'
                 PROVE  Self(t)'.mUserName = account[t]
      BY <1>0, <1>4 DEF SessionKeepsAccount
    <3>1. t # s
      BY <2>3
    <3>2. ~BeingLoggedOut(mCurrentUser[t])
      BY <1>0, LockFreeOK
    <3> QED BY <2>4, <3>1, <3>2 DEF AccountInv, SessionKeepsAccount
  <2>8. BannedIsOffline'
    <3> SUFFICES ASSUME NEW t \in Sessions \ (lost \union spared), open[t],
                        LoggedIn(t)'
                 PROVE  ~Banned(Self(t))'
      BY <1>0 DEF BannedIsOffline
    <3>1. t # s
      BY <2>3
    <3>2. ~BeingLoggedOut(mCurrentUser[t])
      BY <1>0, LockFreeOK
    <3>3. ~Banned(Self(t))
      BY <2>4, <3>1, <3>2 DEF AccountInv, BannedIsOffline
    <3> QED BY <2>4, <3>1, <3>3 DEF Banned
  <2> QED BY <2>6, <2>7, <2>8 DEF AccountInv
<1> QED BY <1>2, <1>3, <1>4 DEF LogIn, u

LEMMA EvictAccount ==
  ASSUME TypeInv, RegistryInv, AccountInv, NEW s \in Sessions,
         EvictForLogin(s)
  PROVE  AccountInv'
PROOF
<1> DEFINE u == mCurrentUser[s]
<1>1. /\ u \in UserIds
      /\ usersLock = s /\ pc[s] # "ban"
  BY DEF EvictForLogin, RegistryInv, VictimOK, LockOK, Registered, Holding
<1>2. Register(s, u, mUsers[u].mUserName) /\ ~Banned(mUsers[u])
  BY DEF EvictForLogin, AccountInv, EvictingOK
<1>3. mCurrentUser' = [mCurrentUser EXCEPT ![s] = u]
  BY DEF EvictForLogin, TypeInv, TypeOK
<1>4. \A t \in Sessions : open'[t] => open[t]
  BY DEF EvictForLogin, Disconnect, TypeInv, TypeOK
<1>5. UNCHANGED <<dbVars, attached, lost, spared>>
  BY DEF EvictForLogin
<1> HIDE DEF u
<1> QED BY <1>1, <1>2, <1>3, <1>4, <1>5, RegisterAccount

LEMMA AdminAccount ==
  ASSUME TypeInv, RegistryInv, AccountInv, NEW s \in Sessions,
         \/ BlockUser(s) \/ RetireUser(s) \/ DeleteUser(s)
         \/ MakeModerator(s) \/ MakeOwner(s) \/ AddUser(s)
  PROVE  AccountInv'
PROOF
<1>1. ASSUME UNCHANGED <<dbVars, spared>>, QuietStep(s),
             \A t \in Sessions : t # s => line'[t] = line[t]
      PROVE  AccountInv'
  BY <1>1, QuietIsStill, StillStepOK
<1>2. ASSUME NEW may, NEW flag, BanUser(s, may, flag),
             UNCHANGED dbVars \/ target[s] \in UserIds,
             may => target[s] \in UserIds,
             \/ UNCHANGED dbVars
             \/ /\ mUsers'[target[s]].mUserName = mUsers[target[s]].mUserName
                /\ \A u \in UserIds : u # target[s] => mUsers'[u] = mUsers[u]
      PROVE  AccountInv'
  <2>1. /\ UsersLockFree /\ pc[s] = "act"
        /\ UNCHANGED <<open, userVars, account, lost>>
    BY <1>2 DEF BanUser
  <2>2. CASE may /\ Ban(s, target[s], flag)
    <3>1. /\ \A u \in UserIds : u # target[s] => mUsers'[u] = mUsers[u]
          /\ mUsers'[target[s]].mUserName = mUsers[target[s]].mUserName
      BY <1>2 DEF dbVars
    <3>2. \/ LogOutUser(s, target[s]) /\ UNCHANGED spared
          \/ /\ Return(s)
             /\ spared' = spared \union ({loggedInUsers[target[s]]} \ {NoSession})
      BY <2>2 DEF Ban
    <3> QED BY <1>2, <2>1, <2>2, <3>1, <3>2, BanStepOK
  <2>3. CASE Return(s) /\ UNCHANGED <<dbVars, usersLock, spared>>
    <3>1. QuietStep(s) /\ \A t \in Sessions : t # s => line'[t] = line[t]
      BY <2>1, <2>3
      DEF QuietStep, Return, GoTo, Holding, Labels, userVars, TypeInv, TypeOK
    <3> QED BY <1>1, <2>3, <3>1
  <2> QED BY <1>2, <2>2, <2>3 DEF BanUser
<1>3. CASE BlockUser(s)
  <2> DEFINE may == MayBlock(Self(s), user_from_id(target[s]))
  <2>1. BanUser(s, may, "blocked")
    BY <1>3 DEF BlockUser
  <2>2. may => target[s] \in UserIds
    BY DEF MayBlock, user_from_id, NoUser
  <2> HIDE DEF may
  <2> QED BY <1>2, <1>3, <2>1, <2>2, BlockUserDb
<1>4. CASE RetireUser(s)
  <2> DEFINE may == MayRemove(Self(s), user_from_id(target[s]))
  <2>1. BanUser(s, may, "retired")
    BY <1>4 DEF RetireUser
  <2>2. may => target[s] \in UserIds
    BY DEF MayRemove, MayBlock, user_from_id, NoUser
  <2> HIDE DEF may
  <2> QED BY <1>2, <1>4, <2>1, <2>2, RetireUserDb
<1>5. CASE DeleteUser(s)
  <2> DEFINE v == user_from_name(line[s].name)
             may == attached[s] /\ line[s].good /\ MayRemove(Self(s), v)
  <2>1. /\ pc[s] = "dispatch"
        /\ UNCHANGED <<open, userVars, account, lost, spared>>
        /\ \/ may /\ DbDeleteUser(v.mUserID) /\ LogOutUser(s, v.mUserID)
           \/ ~may /\ Return(s) /\ UNCHANGED <<dbVars, usersLock>>
        /\ may => UsersLockFree
    BY <1>5 DEF DeleteUser, Handles, historyVars
  <2>2. CASE may /\ DbDeleteUser(v.mUserID) /\ LogOutUser(s, v.mUserID)
    <3>1. DatabaseInv /\ line[s].name \in Names /\ v.mUserID # 0
      BY <1>5, <2>2, CommandIsLine, LineFields
      DEF TypeInv, TypeOK, DatabaseInv, DeleteUser, Handles, MayRemove, MayBlock
    <3>2. v.mUserID \in UserIds
      BY <3>1, LookupOK
    <3>3. \A u \in UserIds : u # v.mUserID => mUsers'[u] = mUsers[u]
      BY <2>2, <3>1, <3>2, DeleteUserOK
    <3> DEFINE id == v.mUserID
    <3>4. /\ id \in UserIds
          /\ \A u \in UserIds : u # id => mUsers'[u] = mUsers[u]
          /\ LogOutUser(s, id)
      BY <2>2, <3>2, <3>3
    <3> HIDE DEF id
    <3> QED BY <2>1, <2>2, <3>4, BanStepOK
  <2>3. CASE Return(s) /\ UNCHANGED <<dbVars, usersLock>>
    <3>1. QuietStep(s) /\ \A t \in Sessions : t # s => line'[t] = line[t]
      BY <2>1, <2>3
      DEF QuietStep, Return, GoTo, Holding, Labels, userVars, TypeInv, TypeOK
    <3> QED BY <1>1, <2>1, <2>3, <3>1
  <2> QED BY <2>1, <2>2, <2>3
<1>6. CASE MakeModerator(s) \/ MakeOwner(s)
  <2>1. QuietStep(s)
    BY <1>6, QuietSteps
  <2>2. UNCHANGED spared /\ \A t \in Sessions : t # s => line'[t] = line[t]
    BY <1>6
    DEF MakeModerator, MakeOwner, historyVars, Return, TypeInv, TypeOK
  <2>3. CASE UNCHANGED dbVars
    BY <1>1, <2>1, <2>2, <2>3
  <2>4. ASSUME NEW id, NEW flag \in {"owner", "moderator"},
               ChangeUserFlags(s, id, flag), UsersLockFree
        PROVE  AccountInv'
    <3>1. CASE UNCHANGED dbVars
      BY <2>3, <3>1
    <3>2. CASE ~UNCHANGED dbVars
      <4>1. /\ id \in UserIds
            /\ mUsers'[id].mUserName = mUsers[id].mUserName
            /\ \/ mUsers'[id].mUserFlags = mUsers[id].mUserFlags \ {flag}
               \/ mUsers'[id].mUserFlags = mUsers[id].mUserFlags \union {flag}
            /\ \A u \in UserIds : u # id => mUsers'[u] = mUsers[u]
        BY <2>4, <3>2, ChangeUserFlagsDb
      <4>2. flag \notin {"blocked", "retired"}
        BY <2>4
      <4>3. Banned(mUsers[id])' => Banned(mUsers[id])
        BY <4>1, <4>2 DEF Banned
      <4>4. \A u \in UserIds :
              /\ mUsers'[u].mUserName = mUsers[u].mUserName
              /\ Banned(mUsers[u])' => Banned(mUsers[u])
        BY <4>1, <4>3 DEF Banned
      <4> QED BY <2>1, <2>2, <2>4, <4>4, OtherDbStepOK
    <3> QED BY <3>1, <3>2
  <2> QED BY <1>6, <2>3, <2>4 DEF MakeModerator, MakeOwner
<1>7. CASE AddUser(s)
  <2>1. QuietStep(s)
    BY <1>7, QuietSteps
  <2>2. UNCHANGED spared /\ \A t \in Sessions : t # s => line'[t] = line[t]
    BY <1>7 DEF AddUser, historyVars, Return, TypeInv, TypeOK
  <2>3. CASE UNCHANGED dbVars
    BY <1>1, <2>1, <2>2, <2>3
  <2>4. CASE ~UNCHANGED dbVars
    <3>1. /\ UsersLockFree
          /\ \A u \in UserIds : mUsers[u] # NoUser => mUsers'[u] = mUsers[u]
      BY <1>7, <2>4, AddUserDb
    <3>2. \A u \in UserIds : mUsers[u] # NoUser =>
            /\ mUsers'[u].mUserName = mUsers[u].mUserName
            /\ Banned(mUsers[u])' => Banned(mUsers[u])
      BY <3>1 DEF Banned
    <3> QED BY <2>1, <2>2, <3>1, <3>2, OtherDbStepOK
  <2> QED BY <2>3, <2>4
<1> QED BY <1>3, <1>4, <1>5, <1>6, <1>7

LEMMA AccountStep ==
  ASSUME TypeInv, RegistryInv, AccountInv, [Next]_vars
  PROVE  AccountInv'
PROOF
<1>1. CASE UNCHANGED vars
  <2>1. StillStep
    BY <1>1 DEF vars, threadVars, userVars, historyVars, StillStep, LoggedIn
  <2> QED BY <2>1, StillStepOK
<1>2. ASSUME NEW s \in Sessions, Connect(s) \/ ClientStep(s)
      PROVE  AccountInv'
  BY <1>2, StillSteps, StillStepOK DEF ClientStep
<1>3. ASSUME NEW s \in Sessions, LoginStep(s)
      PROVE  AccountInv'
  BY <1>3, StillSteps, StillStepOK, LogInAccount, EvictAccount DEF LoginStep
<1>4. ASSUME NEW s \in Sessions, AdminStep(s)
      PROVE  AccountInv'
  BY <1>4, StillSteps, StillStepOK, AdminAccount, LogOutBannedAccount
  DEF AdminStep
<1>5. ASSUME NEW s \in Sessions,
             \/ BeginRead(s) \/ End(s) \/ Logout(s) \/ OtherCommand(s)
             \/ ShutdownStep(s)
      PROVE  AccountInv'
  BY <1>5, StillSteps, StillStepOK
<1>6. CASE EndProcess
  BY <1>6, EndProcessFacts
  DEF AccountInv, EvictingOK, SessionKeepsAccount, BannedIsOffline
<1> QED BY <1>1, <1>2, <1>3, <1>4, <1>5, <1>6 DEF Next, ThreadStep, Finished

LEMMA InitAccountInv == Init => AccountInv
BY DEF Init, AccountInv, EvictingOK, SessionKeepsAccount, BannedIsOffline,
       LoggedIn

LEMMA AccountInvariant == Spec => []AccountInv
PROOF
<1>1. TypeInv /\ RegistryInv /\ AccountInv /\ [Next]_vars => AccountInv'
  BY AccountStep
<1> QED BY <1>1, InitAccountInv, RegistryInvariant, PTL DEF Spec

(***************************************************************************)
(* Although ids are reused, a connected session that no stray destructor   *)
(* unregistered always acts for the account it logged in to, or is about   *)
(* to be disconnected by the thread that deleted the account.              *)
(***************************************************************************)
THEOREM AccountKept == Spec => []SessionKeepsAccount
PROOF
<1>1. AccountInv => SessionKeepsAccount
  BY DEF AccountInv
<1> QED BY <1>1, AccountInvariant, PTL

(***************************************************************************)
(* A user who is blocked or retired has no connected session, except one   *)
(* about to be disconnected, one that a stray destructor unregistered, or  *)
(* one that was spared because the ban could not be saved.                 *)
(***************************************************************************)
THEOREM BannedOffline == Spec => []BannedIsOffline
PROOF
<1>1. AccountInv => BannedIsOffline
  BY DEF AccountInv
<1> QED BY <1>1, AccountInvariant, PTL

-----------------------------------------------------------------------------
(* The last loop of a shutdown                                             *)

\* What a step must not do while a thread is in that loop.
NobodyComesIn ==
  /\ lost \subseteq lost'
  /\ \A t \in Sessions : open'[t] /\ LoggedIn(t)' =>
       open[t] /\ LoggedIn(t) /\ mCurrentUser'[t] = mCurrentUser[t]

\* A step of a thread that is not in the loop and stays out of it.
LEMMA OutsideSweepOK ==
  ASSUME NobodyStays, NEW s \in Sessions,
         UNCHANGED todo,
         pc'[s] # "sweep",
         \A t \in Sessions : t # s => pc'[t] = pc[t],
         (\E r \in Sessions : pc[r] = "sweep") => NobodyComesIn
  PROVE  NobodyStays'
BY DEF NobodyStays, NobodyComesIn

LEMMA StillBringsNobody ==
  StillStep => NobodyComesIn
BY DEF StillStep, NobodyComesIn

LEMMA NobodyStaysStep ==
  ASSUME TypeInv, RegistryInv, NobodyStays, [Next]_vars
  PROVE  NobodyStays'
PROOF
<1> USE DEF GoTo, Return, Handles, UsersLockFree, userVars, shutdownVars,
            historyVars
<1>0. /\ pc \in [Sessions -> Labels]
      /\ open \in [Sessions -> BOOLEAN]
      /\ loggedInUsers \in [UserIds -> Sessions \union {NoSession}]
      /\ NoSession \notin Sessions
  BY SessionsAssumption DEF TypeInv, TypeOK
<1>1. CASE UNCHANGED vars
  BY <1>1 DEF vars, threadVars, NobodyStays, LoggedIn
<1>2. ASSUME NEW s \in Sessions,
             \/ Connect(s) \/ ClientStep(s) \/ BeginRead(s) \/ End(s)
             \/ Logout(s) \/ OtherCommand(s)
      PROVE  NobodyStays'
  <2>1. UNCHANGED todo /\ pc'[s] # "sweep"
        /\ \A t \in Sessions : t # s => pc'[t] = pc[t]
    BY <1>0, <1>2 DEF Connect, Handshake, ClientStep, ReceiveLine, HangUp,
                      BeginRead, End, Logout, OtherCommand
  <2>2. StillStep
    BY <1>2, StillSteps DEF ClientStep
  <2> QED BY <2>1, <2>2, StillBringsNobody, OutsideSweepOK
<1>3. ASSUME NEW s \in Sessions, LoginStep(s)
      PROVE  NobodyStays'
  <2>1. UNCHANGED todo /\ pc'[s] # "sweep"
        /\ \A t \in Sessions : t # s => pc'[t] = pc[t]
    BY <1>0, <1>3 DEF LoginStep, LoginHandler, LogInCheck, LogIn,
                      EvictForLogin, Register, Attach, Forget
  <2>2. ASSUME NEW r \in Sessions, pc[r] = "sweep"
        PROVE  ~LogIn(s) /\ ~EvictForLogin(s)
    <3>1. usersLock = r
      BY <2>2 DEF RegistryInv, LockOK, Holding
    <3>2. pc[s] = "evict" => usersLock = s
      BY DEF RegistryInv, LockOK, Holding
    <3> QED BY <1>0, <2>2, <3>1, <3>2 DEF LogIn, EvictForLogin
  <2>3. ~LogIn(s) /\ ~EvictForLogin(s) => StillStep
    BY <1>3, StillSteps DEF LoginStep
  <2> QED BY <2>1, <2>2, <2>3, StillBringsNobody, OutsideSweepOK
<1>4. ASSUME NEW s \in Sessions, AdminStep(s)
      PROVE  NobodyStays'
  <2>1. UNCHANGED <<todo, attached, mCurrentUser, lost>>
    BY <1>4 DEF AdminStep, FindTarget, BlockUser, RetireUser, BanUser,
                DeleteUser, LogOutBanned, MakeModerator, MakeOwner, AddUser
  <2>2. /\ pc'[s] \notin {"sweep", "attach"}
        /\ \A t \in Sessions : t # s => pc'[t] = pc[t]
    BY <1>0, <1>4 DEF AdminStep, FindTarget, BlockUser, RetireUser, BanUser,
                      Ban, LogOutUser, DeleteUser, LogOutBanned,
                      MakeModerator, MakeOwner, AddUser
  <2>3. \A t \in Sessions : open'[t] => open[t]
    BY <1>0, <1>4
    DEF AdminStep, FindTarget, BlockUser, RetireUser, BanUser, DeleteUser,
        LogOutBanned, Disconnect, MakeModerator, MakeOwner, AddUser
  <2>4. NobodyComesIn
    BY <2>1, <2>2, <2>3 DEF NobodyComesIn, LoggedIn
  <2> QED BY <2>1, <2>2, <2>4, OutsideSweepOK
<1>5. ASSUME NEW s \in Sessions, ShutdownStep(s)
      PROVE  NobodyStays'
  <2>1. StillStep
    BY <1>5, StillSteps
  <2>2. CASE ShutdownHandler(s) \/ Authorize(s) \/ ShutDown(s)
    <3>1. UNCHANGED todo /\ pc'[s] # "sweep"
          /\ \A t \in Sessions : t # s => pc'[t] = pc[t]
      BY <1>0, <2>2 DEF ShutdownHandler, Authorize, ShutDown
    <3> QED BY <2>1, <3>1, StillBringsNobody, OutsideSweepOK
  <2>3. CASE Announce(s) \/ Linger(s)
    <3>1. todo' = Registered /\ UNCHANGED <<loggedInUsers, lost>>
      BY <2>3 DEF Announce, Linger, BeginLoop
    <3>2. ASSUME NEW t \in Sessions \ lost, open'[t], LoggedIn(t)'
          PROVE  mCurrentUser'[t] \in Registered
      <4>1. open[t] /\ LoggedIn(t) /\ mCurrentUser'[t] = mCurrentUser[t]
        BY <2>1, <3>2 DEF StillStep
      <4>2. mCurrentUser[t] \in UserIds /\ loggedInUsers[mCurrentUser[t]] = t
        BY <4>1 DEF RegistryInv, LoggedInOK, OpenIsRegistered
      <4> QED BY <1>0, <4>1, <4>2 DEF Registered
    <3> QED BY <3>1, <3>2 DEF NobodyStays
  <2>4. CASE Warn(s)
    <3>1. pc[s] = "warn" /\ usersLock = s
      BY <2>4 DEF Warn, RegistryInv, LockOK, Holding
    <3>2. \A t \in Sessions : pc[t] # "sweep"
      BY <3>1 DEF RegistryInv, LockOK, Holding
    <3>3. \A t \in Sessions : pc'[t] # "sweep"
      BY <1>0, <2>4, <3>2 DEF Warn, EndLoop
    <3> QED BY <3>3 DEF NobodyStays
  <2>5. CASE Sweep(s)
    <3>1. pc[s] = "sweep" /\ usersLock = s
      BY <2>5 DEF Sweep, RegistryInv, LockOK, Holding
    <3>2. \A t \in Sessions : pc[t] = "sweep" => t = s
      BY <3>1 DEF RegistryInv, LockOK, Holding
    <3>3. CASE EndLoop(s, "close")
      BY <1>0, <3>2, <3>3 DEF EndLoop, NobodyStays
    <3>4. CASE \E u \in UserIds : Visit(u) /\ Disconnect(loggedInUsers[u])
      <4>1. PICK u \in UserIds : Visit(u) /\ Disconnect(loggedInUsers[u])
        BY <3>4
      <4>2. ASSUME NEW t \in Sessions \ lost, open'[t], LoggedIn(t)'
            PROVE  mCurrentUser'[t] \in todo'
        <5>1. /\ open[t] /\ LoggedIn(t)
              /\ mCurrentUser'[t] = mCurrentUser[t]
          BY <2>1, <4>2 DEF StillStep
        <5>2. /\ mCurrentUser[t] \in todo
              /\ loggedInUsers[mCurrentUser[t]] = t
          BY <3>1, <5>1 DEF NobodyStays, RegistryInv, OpenIsRegistered
        <5>3. mCurrentUser[t] # u
          BY <1>0, <4>1, <4>2, <5>2 DEF Disconnect
        <5> QED BY <4>1, <5>1, <5>2, <5>3 DEF Visit
      <4>3. lost' = lost
        BY <2>5 DEF Sweep
      <4> QED BY <4>2, <4>3 DEF NobodyStays
    <3> QED BY <2>5, <3>3, <3>4 DEF Sweep
  <2> QED BY <1>5, <2>2, <2>3, <2>4, <2>5 DEF ShutdownStep
<1>6. CASE EndProcess
  BY <1>6, EndProcessFacts DEF NobodyStays
<1> QED BY <1>1, <1>2, <1>3, <1>4, <1>5, <1>6 DEF Next, ThreadStep, Finished

(***************************************************************************)
(* While the last loop of a shutdown runs, everybody connected and logged  *)
(* in is still ahead of it, so that at its end nobody is, except on        *)
(* sessions that a failed login's destructor has taken out of the          *)
(* registry: no login, however far it has come, gets in between the steps  *)
(* of the loop (eleven_users.cpp:329-338).                                 *)
(***************************************************************************)
THEOREM StragglersGo == Spec => []NobodyStays
PROOF
<1>1. Init => NobodyStays
  BY DEF Init, NobodyStays
<1>2. TypeInv /\ RegistryInv /\ NobodyStays /\ [Next]_vars => NobodyStays'
  BY NobodyStaysStep
<1> QED BY <1>1, <1>2, RegistryInvariant, PTL DEF Spec

-----------------------------------------------------------------------------
(* Ranks                                                                   *)

\* Nobody has logged in as one of the owners so far.
NoOwnerYet == \A s \in Sessions : account[s] \notin OwnerNames

\* What NoEscalation says of the accounts.
RanksKept ==
  /\ \A u \in UserIds :
       /\ HasFlag(mUsers[u], "owner") => mUsers[u].mUserName \in OwnerNames
       /\ HasFlag(mUsers[u], "moderator") =>
            mUsers[u].mUserName \in ModeratorNames
  /\ \A a \in Accounts : HasFlag(a, "owner") => mUsers[a.mUserID] = a

\* No session acts for an owner: neither the user it logged in as has become
\* one, nor has its id been handed on to one.
OwnersAreAway ==
  \A s \in Sessions :
    LoggedIn(s) => ~HasFlag(mUsers[mCurrentUser[s]], "owner")

\* A session that has a name has logged in, and stays so as long as the
\* process lives.
NamedOK ==
  \A s \in Sessions : account[s] # NoName => LoggedIn(s) \/ pc[s] = "done"

\* Whoever is about to change another user's account has logged in.
ActingOK == \A s \in Sessions : pc[s] = "act" => attached[s]

RankInv ==
  /\ NamedOK
  /\ ActingOK
  /\ NoOwnerYet => RanksKept /\ OwnersAreAway

\* Nobody logs in or becomes another user, and what is over stays over.
SameLogins ==
  /\ UNCHANGED account
  /\ \A t \in Sessions : pc[t] = "done" => pc'[t] = "done"
  /\ \A t \in Sessions : LoggedIn(t)' = LoggedIn(t)
  /\ \A t \in Sessions : LoggedIn(t) => mCurrentUser'[t] = mCurrentUser[t]

\* Account u gets no rank, and it is left alone if it is an owner's.
NoPromotion(u) ==
  \/ mUsers'[u] = mUsers[u]
  \/ /\ ~HasFlag(mUsers[u], "owner")
     /\ ~HasFlag(mUsers'[u], "owner")
     /\ HasFlag(mUsers'[u], "moderator") =>
          /\ HasFlag(mUsers[u], "moderator")
          /\ mUsers'[u].mUserName = mUsers[u].mUserName

LEMMA OwnerFacts ==
  /\ NoName \notin OwnerNames
  /\ \A a \in Accounts : a.mUserID \in UserIds
PROOF
<1>1. \A a \in Accounts : a \in User
  BY DatabaseAssumption
<1> QED BY <1>1, DatabaseAssumption DEF User, OwnerNames

\* A step without a login keeps the ranks if it promotes nobody.
LEMMA SameLoginsOK ==
  ASSUME RegistryInv, RankInv, SameLogins, ActingOK',
         NoOwnerYet => \A u \in UserIds : NoPromotion(u)
  PROVE  RankInv'
PROOF
<1>1. NamedOK'
  BY DEF RankInv, NamedOK, SameLogins
<1>2. ASSUME NoOwnerYet'
      PROVE  RanksKept' /\ OwnersAreAway'
  <2>1. NoOwnerYet
    BY <1>2 DEF NoOwnerYet, SameLogins
  <2>2. RanksKept /\ OwnersAreAway /\ \A u \in UserIds : NoPromotion(u)
    BY <2>1 DEF RankInv
  <2>3. ASSUME NEW u \in UserIds
        PROVE  /\ HasFlag(mUsers'[u], "owner") =>
                    mUsers'[u].mUserName \in OwnerNames
               /\ HasFlag(mUsers'[u], "moderator") =>
                    mUsers'[u].mUserName \in ModeratorNames
    BY <2>2 DEF RanksKept, NoPromotion
  <2>4. ASSUME NEW a \in Accounts, HasFlag(a, "owner")
        PROVE  mUsers'[a.mUserID] = a
    <3>1. a.mUserID \in UserIds /\ mUsers[a.mUserID] = a
      BY <2>2, <2>4, OwnerFacts DEF RanksKept
    <3> QED BY <2>2, <2>4, <3>1 DEF NoPromotion
  <2>5. RanksKept'
    BY <2>3, <2>4 DEF RanksKept, HasFlag
  <2>6. OwnersAreAway'
    <3> SUFFICES ASSUME NEW t \in Sessions, LoggedIn(t)'
                 PROVE  ~HasFlag(mUsers'[mCurrentUser'[t]], "owner")
      BY DEF OwnersAreAway, HasFlag
    <3>1. LoggedIn(t) /\ mCurrentUser'[t] = mCurrentUser[t]
      BY DEF SameLogins
    <3>2. mCurrentUser[t] \in UserIds
      BY <3>1 DEF RegistryInv, LoggedInOK
    <3> QED BY <2>2, <3>1, <3>2 DEF OwnersAreAway, NoPromotion
  <2> QED BY <2>5, <2>6
<1> QED BY <1>1, <1>2 DEF RankInv

LEMMA QuietSameLogins ==
  ASSUME TypeInv, NEW s \in Sessions, QuietStep(s)
  PROVE  SameLogins
BY DEF QuietStep, SameLogins, LoggedIn, userVars, Holding, TypeInv, TypeOK

LEMMA LockSameLogins ==
  ASSUME TypeInv, RegistryInv, NEW s \in Sessions, LockStep(s)
  PROVE  SameLogins
PROOF
<1>0. /\ pc \in [Sessions -> Labels]
      /\ mCurrentUser \in [Sessions -> UserIds \union {0}]
  BY DEF TypeInv, TypeOK
<1>1. PICK label \in Labels \ {"attach"} : pc' = [pc EXCEPT ![s] = label]
  BY DEF LockStep
<1>2. UNCHANGED <<attached, account>> /\ pc[s] \notin {"attach", "done"}
  BY DEF LockStep
<1>3. \A t \in Sessions : LoggedIn(t)' = LoggedIn(t)
  BY <1>0, <1>1, <1>2 DEF LoggedIn
<1>4. LoggedIn(s) => UNCHANGED mCurrentUser
  BY DEF LockStep, LoggedIn, RegistryInv, NotAttached
<1>5. \A t \in Sessions : LoggedIn(t) => mCurrentUser'[t] = mCurrentUser[t]
  BY <1>0, <1>4 DEF LockStep
<1>6. \A t \in Sessions : pc[t] = "done" => pc'[t] = "done"
  BY <1>0, <1>1, <1>2
<1> QED BY <1>2, <1>3, <1>5, <1>6 DEF SameLogins

\* Only a login brings a session in, and only FindTarget leads to "act".
LEMMA SameLoginSteps ==
  ASSUME TypeInv, RegistryInv, RankInv, NEW s \in Sessions,
         \/ Connect(s) \/ ClientStep(s) \/ BeginRead(s) \/ End(s)
         \/ LoginHandler(s) \/ LogInCheck(s) \/ Attach(s) \/ Forget(s)
         \/ AdminStep(s) \/ Logout(s) \/ OtherCommand(s) \/ ShutdownStep(s)
  PROVE  SameLogins /\ ActingOK'
PROOF
<1> USE DEF GoTo, Return, Handles, userVars, historyVars
<1>0. /\ pc \in [Sessions -> Labels]
      /\ mCurrentUser \in [Sessions -> UserIds \union {0}]
      /\ attached \in [Sessions -> BOOLEAN]
      /\ line \in [Sessions -> Lines \union {NoLine}]
      /\ target \in [Sessions -> UserIds \union {0}]
      /\ ActingOK
  BY DEF TypeInv, TypeOK, RankInv
<1>1. ASSUME pc'[s] # "act", \A t \in Sessions : t # s => pc'[t] = pc[t],
             \A t \in Sessions : attached[t] => attached'[t]
      PROVE  ActingOK'
  BY <1>0, <1>1 DEF ActingOK
<1>2. CASE Connect(s) \/ LoginHandler(s) \/ Forget(s)
  <2>1. LoggedIn(s) => UNCHANGED mCurrentUser
    BY <1>2 DEF LoggedIn, RegistryInv, NotAttached, Connect, Handshake,
                LoginHandler, Forget
  <2>2. CASE Connect(s)
    BY <1>0, <1>1, <2>1, <2>2 DEF Connect, Handshake, SameLogins, LoggedIn
  <2>3. CASE LoginHandler(s)
    <3>1. /\ pc[s] = "dispatch" /\ pc'[s] \in {"idle", "check"}
          /\ UNCHANGED <<attached, account>>
          /\ \A t \in Sessions : t # s =>
               pc'[t] = pc[t] /\ mCurrentUser'[t] = mCurrentUser[t]
      BY <1>0, <2>3 DEF LoginHandler
    <3> QED BY <1>1, <2>1, <3>1 DEF SameLogins, LoggedIn
  <2>4. CASE Forget(s)
    BY <1>0, <1>1, <2>1, <2>4 DEF Forget, SameLogins, LoggedIn
  <2> QED BY <1>2, <2>2, <2>3, <2>4
<1>3. CASE Attach(s)
  BY <1>0, <1>1, <1>3 DEF Attach, SameLogins, LoggedIn
<1>4. CASE \/ ClientStep(s) \/ BeginRead(s) \/ End(s) \/ LogInCheck(s)
           \/ Logout(s) \/ OtherCommand(s) \/ ShutdownStep(s)
  <2>1. SameLogins
    BY <1>4, QuietSteps, LockSteps, QuietSameLogins, LockSameLogins
    DEF ClientStep, ShutdownStep
  <2>2. /\ pc'[s] # "act"
        /\ \A t \in Sessions : t # s => pc'[t] = pc[t]
        /\ UNCHANGED attached
    <3>1. CASE \/ ClientStep(s) \/ BeginRead(s) \/ End(s) \/ LogInCheck(s)
               \/ Logout(s) \/ OtherCommand(s)
      BY <1>0, <3>1 DEF ClientStep, ReceiveLine, HangUp, BeginRead, End,
                        LogInCheck, Logout, OtherCommand
    <3>2. CASE ShutdownStep(s)
      BY <1>0, <3>2 DEF ShutdownStep, ShutdownHandler, Authorize, Announce,
                        Warn, Linger, Sweep, ShutDown, BeginLoop, EndLoop
    <3> QED BY <1>4, <3>1, <3>2
  <2> QED BY <1>1, <2>1, <2>2
<1>5. CASE AdminStep(s)
  <2>1. SameLogins
    BY <1>5, QuietSteps, LockSteps, QuietSameLogins, LockSameLogins
    DEF AdminStep
  <2>2. CASE FindTarget(s)
    BY <1>0, <2>1, <2>2 DEF FindTarget, ActingOK
  <2>3. CASE BlockUser(s) \/ RetireUser(s) \/ DeleteUser(s)
    <3>1. /\ pc'[s] # "act" /\ \A t \in Sessions : t # s => pc'[t] = pc[t]
          /\ UNCHANGED attached
      BY <1>0, <2>3
      DEF BlockUser, RetireUser, DeleteUser, BanUser, Ban, LogOutUser
    <3> QED BY <1>1, <2>1, <3>1
  <2>4. CASE LogOutBanned(s) \/ MakeModerator(s) \/ MakeOwner(s) \/ AddUser(s)
    BY <1>0, <1>1, <2>1, <2>4 DEF LogOutBanned, MakeModerator, MakeOwner, AddUser
  <2> QED BY <1>5, <2>1, <2>2, <2>3, <2>4 DEF AdminStep
<1> QED BY <1>2, <1>3, <1>4, <1>5

\* The handlers that change accounts promote nobody as long as no owner is
\* there: whoever gets past their checks is a moderator.
LEMMA AdminPromotesNobody ==
  ASSUME TypeInv, RegistryInv, RankInv, NEW s \in Sessions, AdminStep(s),
         NoOwnerYet, NEW u \in UserIds
  PROVE  NoPromotion(u)
PROOF
<1>1. CASE UNCHANGED dbVars
  BY <1>1 DEF dbVars, NoPromotion
<1>2. ASSUME attached[s]
      PROVE  "owner" \notin Self(s).mUserFlags
  <2>1. LoggedIn(s)
    BY <1>2 DEF LoggedIn
  <2>2. Self(s) = mUsers[mCurrentUser[s]]
    BY <2>1, SelfIs
  <2> QED BY <2>1, <2>2 DEF RankInv, OwnersAreAway, HasFlag
<1>3. ASSUME attached[s], Acting(Self(s))
      PROVE  "moderator" \in Self(s).mUserFlags
  BY <1>2, <1>3 DEF Acting
<1>4. CASE BlockUser(s) \/ RetireUser(s)
  <2>1. attached[s]
    BY <1>4 DEF BlockUser, RetireUser, BanUser, RankInv, ActingOK
  <2>2. CASE UNCHANGED dbVars
    BY <1>1, <2>2
  <2>3. CASE ~UNCHANGED dbVars
    <3> DEFINE v == user_from_id(target[s])
    <3>1. /\ MayBlock(Self(s), v)
          /\ target[s] \in UserIds
          /\ v = mUsers[target[s]]
          /\ \E flag \in {"blocked", "retired"} :
               mUsers'[target[s]].mUserFlags =
                 mUsers[target[s]].mUserFlags \union {flag}
          /\ mUsers'[target[s]].mUserName = mUsers[target[s]].mUserName
          /\ u # target[s] => mUsers'[u] = mUsers[u]
      BY <1>4, <2>3, BlockUserDb, RetireUserDb DEF MayRemove, user_from_id
    <3>2. "owner" \notin mUsers[target[s]].mUserFlags
      BY <1>3, <2>1, <3>1 DEF MayBlock
    <3> HIDE DEF v
    <3> QED BY <3>1, <3>2 DEF NoPromotion, HasFlag
  <2> QED BY <2>2, <2>3
<1>5. CASE DeleteUser(s)
  <2> DEFINE v == user_from_name(line[s].name)
  <2>1. CASE UNCHANGED dbVars
    BY <1>1, <2>1
  <2>2. CASE ~UNCHANGED dbVars
    <3>1. /\ MayRemove(Self(s), v)
          /\ mUsers[v.mUserID] = v
          /\ mUsers'[v.mUserID] = NoUser
          /\ u # v.mUserID => mUsers'[u] = mUsers[u]
      BY <1>5, <2>2, DeleteUserDb
    <3> HIDE DEF v
    <3> QED BY <3>1 DEF MayRemove, NoPromotion, HasFlag, NoUser
  <2> QED BY <2>1, <2>2
<1>6. CASE MakeModerator(s) \/ MakeOwner(s)
  <2>1. CASE UNCHANGED dbVars
    BY <1>1, <2>1
  <2>2. CASE ~UNCHANGED dbVars
    <3>1. attached[s]
      BY <1>6, <2>2 DEF MakeModerator, MakeOwner, RankInv, ActingOK
    <3>2. \A v : ~MayChange(Self(s), v)
      BY <1>2, <3>1 DEF MayChange
    <3> QED BY <1>6, <2>2, <3>2, ChangeUserFlagsDb
            DEF MakeModerator, MakeOwner
  <2> QED BY <2>1, <2>2
<1>7. CASE AddUser(s)
  <2>1. CASE UNCHANGED dbVars
    BY <1>1, <2>1
  <2>2. CASE ~UNCHANGED dbVars
    <3>1. attached[s]
      BY <1>7, <2>2 DEF AddUser
    <3>2. /\ MayAdd(Self(s), line[s].flags)
          /\ mUsers[u] # NoUser => mUsers'[u] = mUsers[u]
          /\ mUsers[u] = NoUser =>
               \/ mUsers'[u] = NoUser
               \/ mUsers'[u].mUserFlags = line[s].flags
      BY <1>7, <2>2, AddUserDb
    <3>3. "owner" \notin line[s].flags /\ "moderator" \notin line[s].flags
      BY <1>2, <3>1, <3>2 DEF MayAdd
    <3> QED BY <3>2, <3>3 DEF NoPromotion, HasFlag, NoUser
  <2> QED BY <2>1, <2>2
<1>8. CASE FindTarget(s) \/ LogOutBanned(s)
  BY <1>1, <1>8 DEF FindTarget, LogOutBanned
<1> QED BY <1>4, <1>5, <1>6, <1>7, <1>8 DEF AdminStep

\* A login as an owner ends the case NoEscalation is about; any other adds a
\* session of a user without that rank.
LEMMA RegisterRanks ==
  ASSUME TypeInv, RegistryInv, RankInv, NEW s \in Sessions, NEW u \in UserIds,
         Register(s, u, mUsers[u].mUserName),
         pc[s] \in {"log_in", "evict"},
         mCurrentUser' = [mCurrentUser EXCEPT ![s] = u],
         UNCHANGED <<dbVars, attached>>
  PROVE  RankInv'
PROOF
<1>0. /\ pc \in [Sessions -> Labels]
      /\ mCurrentUser \in [Sessions -> UserIds \union {0}]
      /\ account \in [Sessions -> Names \union {NoName}]
  BY DEF TypeInv, TypeOK
<1>1. /\ pc'[s] = "attach" /\ mCurrentUser'[s] = u
      /\ account'[s] = mUsers[u].mUserName
      /\ \A t \in Sessions : t # s =>
           /\ pc'[t] = pc[t]
           /\ mCurrentUser'[t] = mCurrentUser[t]
           /\ account'[t] = account[t]
  BY <1>0 DEF Register, GoTo
<1>2. LoggedIn(s)' /\ \A t \in Sessions : t # s => LoggedIn(t)' = LoggedIn(t)
  BY <1>1 DEF LoggedIn
<1>3. account[s] = NoName
  BY DEF RankInv, NamedOK, LoggedIn, RegistryInv, NotAttached
<1>4. NamedOK'
  BY <1>1, <1>2 DEF RankInv, NamedOK
<1>5. ActingOK'
  BY <1>1 DEF RankInv, ActingOK
<1>6. ASSUME NoOwnerYet'
      PROVE  RanksKept' /\ OwnersAreAway'
  <2>1. NoOwnerYet
    BY <1>1, <1>3, <1>6, OwnerFacts DEF NoOwnerYet
  <2>2. RanksKept /\ OwnersAreAway
    BY <2>1 DEF RankInv
  <2>3. ~HasFlag(mUsers[u], "owner")
    BY <1>1, <1>6, <2>2 DEF RanksKept, NoOwnerYet
  <2> QED BY <1>1, <1>2, <2>2, <2>3
          DEF RanksKept, OwnersAreAway, HasFlag, dbVars
<1> QED BY <1>4, <1>5, <1>6 DEF RankInv

LEMMA LogInRanks ==
  ASSUME TypeInv, RegistryInv, RankInv, NEW s \in Sessions, LogIn(s)
  PROVE  RankInv'
PROOF
<1> DEFINE u == user_from_name(line[s].name)
<1>0. /\ pc \in [Sessions -> Labels]
      /\ mCurrentUser \in [Sessions -> UserIds \union {0}]
      /\ DatabaseInv
      /\ line[s].name \in Names
      /\ pc[s] = "log_in"
      /\ UNCHANGED <<dbVars, attached>>
  BY LineFields DEF TypeInv, TypeOK, DatabaseInv, LogIn, LineOK
<1>1. ASSUME MayLogIn(u, line[s].good)
      PROVE  /\ u.mUserID \in UserIds
             /\ u = mUsers[u.mUserID]
             /\ u.mUserName = line[s].name
  BY <1>0, <1>1, LookupOK DEF MayLogIn
<1> HIDE DEF u
<1>2. CASE \E label \in {"forget", "evict"} :
             GoTo(s, label) /\ UNCHANGED account
  <2>1. ~LoggedIn(s)
    BY <1>0 DEF LoggedIn, RegistryInv, NotAttached
  <2>2. \A t \in Sessions : LoggedIn(t)' = LoggedIn(t)
    BY <1>0, <1>2, <2>1 DEF GoTo, LoggedIn
  <2>3. \A t \in Sessions : t # s => mCurrentUser'[t] = mCurrentUser[t]
    BY <1>0 DEF LogIn
  <2>4. SameLogins
    BY <1>0, <1>2, <2>1, <2>2, <2>3 DEF GoTo, SameLogins
  <2>5. ActingOK'
    BY <1>0, <1>2 DEF GoTo, RankInv, ActingOK
  <2>6. \A v \in UserIds : NoPromotion(v)
    BY <1>0 DEF NoPromotion, dbVars
  <2> QED BY <2>4, <2>5, <2>6, SameLoginsOK
<1>3. CASE /\ MayLogIn(u, line[s].good)
           /\ mCurrentUser' = [mCurrentUser EXCEPT ![s] = u.mUserID]
           /\ Register(s, u.mUserID, line[s].name)
  <2> DEFINE id == u.mUserID
  <2>1. /\ id \in UserIds
        /\ Register(s, id, mUsers[id].mUserName)
        /\ mCurrentUser' = [mCurrentUser EXCEPT ![s] = id]
    BY <1>1, <1>3
  <2> HIDE DEF id
  <2> QED BY <1>0, <2>1, RegisterRanks
<1> QED BY <1>2, <1>3 DEF LogIn, u

LEMMA EvictRanks ==
  ASSUME TypeInv, RegistryInv, AccountInv, RankInv, NEW s \in Sessions,
         EvictForLogin(s)
  PROVE  RankInv'
PROOF
<1> DEFINE u == mCurrentUser[s]
<1>1. u \in UserIds /\ pc[s] = "evict"
  BY DEF EvictForLogin, RegistryInv, VictimOK, Registered
<1>2. Register(s, u, mUsers[u].mUserName)
  BY DEF EvictForLogin, AccountInv, EvictingOK
<1>3. mCurrentUser' = [mCurrentUser EXCEPT ![s] = u]
  BY DEF EvictForLogin, TypeInv, TypeOK
<1>4. UNCHANGED <<dbVars, attached>>
  BY DEF EvictForLogin
<1> HIDE DEF u
<1> QED BY <1>1, <1>2, <1>3, <1>4, RegisterRanks

LEMMA RankStep ==
  ASSUME TypeInv, RegistryInv, AccountInv, RankInv, [Next]_vars
  PROVE  RankInv'
PROOF
<1>1. CASE UNCHANGED vars
  <2>1. SameLogins
    BY <1>1 DEF vars, threadVars, userVars, historyVars, SameLogins, LoggedIn
  <2>2. ActingOK' /\ \A u \in UserIds : NoPromotion(u)
    BY <1>1 DEF vars, threadVars, userVars, RankInv, ActingOK, NoPromotion,
                dbVars
  <2> QED BY <2>1, <2>2, SameLoginsOK
<1>2. ASSUME NEW s \in Sessions,
             \/ Connect(s) \/ ClientStep(s) \/ BeginRead(s) \/ End(s)
             \/ LoginHandler(s) \/ LogInCheck(s) \/ Attach(s) \/ Forget(s)
             \/ Logout(s) \/ OtherCommand(s) \/ ShutdownStep(s)
      PROVE  RankInv'
  <2>1. SameLogins /\ ActingOK'
    BY <1>2, SameLoginSteps
  <2>2. UNCHANGED dbVars
    <3>1. CASE \/ Connect(s) \/ ClientStep(s) \/ BeginRead(s) \/ End(s)
               \/ LoginHandler(s) \/ LogInCheck(s) \/ Attach(s) \/ Forget(s)
               \/ Logout(s) \/ OtherCommand(s)
      BY <3>1 DEF Connect, ClientStep, ReceiveLine, HangUp, BeginRead, End,
                  LoginHandler, LogInCheck, Attach, Forget, Logout, OtherCommand
    <3>2. CASE ShutdownStep(s)
      BY <3>2 DEF ShutdownStep, ShutdownHandler, Authorize, Announce, Warn,
                  Linger, Sweep, ShutDown
    <3> QED BY <1>2, <3>1, <3>2
  <2>3. \A u \in UserIds : NoPromotion(u)
    BY <2>2 DEF NoPromotion, dbVars
  <2> QED BY <2>1, <2>3, SameLoginsOK
<1>3. ASSUME NEW s \in Sessions, AdminStep(s)
      PROVE  RankInv'
  BY <1>3, SameLoginSteps, AdminPromotesNobody, SameLoginsOK
<1>4. ASSUME NEW s \in Sessions, LogIn(s) \/ EvictForLogin(s)
      PROVE  RankInv'
  BY <1>4, LogInRanks, EvictRanks
<1>5. CASE EndProcess
  <2>1. UNCHANGED <<dbVars, account>>
    BY <1>5 DEF EndProcess, historyVars
  <2>2. NamedOK' /\ ActingOK' /\ OwnersAreAway'
    BY <1>5, EndProcessFacts DEF NamedOK, ActingOK, OwnersAreAway
  <2>3. NoOwnerYet' => RanksKept'
    BY <2>1 DEF RankInv, NoOwnerYet, RanksKept, HasFlag, dbVars
  <2> QED BY <2>2, <2>3 DEF RankInv
<1> QED BY <1>1, <1>2, <1>3, <1>4, <1>5
        DEF Next, ThreadStep, LoginStep, Finished

LEMMA InitRankInv == Init => RankInv
PROOF
<1> SUFFICES ASSUME Init PROVE RankInv
  OBVIOUS
<1>1. NamedOK /\ ActingOK /\ OwnersAreAway
  BY DEF Init, NamedOK, ActingOK, OwnersAreAway, LoggedIn
<1>2. ASSUME NEW u \in UserIds
      PROVE  mUsers[u] = NoUser \/ mUsers[u] \in Accounts
  BY <1>2 DEF Init, LoadUsers
<1>3. \A a \in Accounts : mUsers[a.mUserID] = a
  <2> SUFFICES ASSUME NEW a \in Accounts
               PROVE  mUsers[a.mUserID] = a
    OBVIOUS
  <2>1. a.mUserID \in UserIds
    BY OwnerFacts
  <2>2. mUsers[a.mUserID] = CHOOSE b \in Accounts : b.mUserID = a.mUserID
    BY <2>1 DEF Init, LoadUsers
  <2> QED BY <2>2, DatabaseAssumption
<1>4. RanksKept
  BY <1>2, <1>3 DEF RanksKept, HasFlag, NoUser, OwnerNames, ModeratorNames
<1> QED BY <1>1, <1>4 DEF RankInv

(***************************************************************************)
(* As long as nobody has logged in as an owner there are no new owners and *)
(* moderators, and the owners' accounts are as they were at startup: no    *)
(* sequence of commands, however they interleave, gets around the checks   *)
(* of block_user, retire_user, delete_user, add_user, change_user_flags.   *)
(***************************************************************************)
THEOREM RanksCorrect == Spec => []NoEscalation
PROOF
<1>1. TypeInv /\ RegistryInv /\ AccountInv /\ RankInv /\ [Next]_vars => RankInv'
  BY RankStep
<1>2. RankInv => NoEscalation
  BY DEF RankInv, RanksKept, NoOwnerYet, NoEscalation
<1> QED BY <1>1, <1>2, InitRankInv, AccountInvariant, RegistryInvariant, PTL
        DEF Spec
=============================================================================
