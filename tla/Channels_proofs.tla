--------------------------- MODULE Channels_proofs ---------------------------
(***************************************************************************)
(* Theorems about Channels.  The steps of the channels' commands are seen  *)
(* by UserSessions as its one step OtherCommand, so that all that is       *)
(* proved of UserSessions holds with the channels too; on top of that come *)
(* the lock of a channel's user list, kicks, and that threads do not wait  *)
(* for each other in a circle.                                             *)
(***************************************************************************)
EXTENDS Channels, Database_proofs

\* UserSessions_proofs, about what UserSessions sees of the threads.
UserProofs == INSTANCE UserSessions_proofs WITH pc <- UserPc

\* A thread is at a label of UserSessions or inside a command of the channels.
ThreadOK ==
  /\ pc \in [Sessions -> Labels \union ChannelLabels]
  /\ \A s \in Sessions :
       pc[s] \in ChannelLabels =>
         line[s].command \in {"/join", "/leave", "/kick", "*"}

\* The labels of the channels' commands are none of UserSessions's.
LEMMA LabelFacts ==
  Labels \intersect ChannelLabels = {}
BY DEF Labels, ChannelLabels

\* What UserPc makes of a label.
LEMMA UserPcOK ==
  ASSUME pc \in [Sessions -> Labels \union ChannelLabels]
  PROVE  /\ \A s \in Sessions : pc[s] \in Labels => UserPc[s] = pc[s]
         /\ \A s \in Sessions :
              pc[s] \in ChannelLabels => UserPc[s] = "dispatch"
         /\ UserPc \in [Sessions -> Labels]
BY LabelFacts DEF UserPc, Labels

\* A thread that goes to a label of UserSessions goes there in UserSessions.
LEMMA GoToMaps ==
  ASSUME pc \in [Sessions -> Labels \union ChannelLabels], NEW s \in Sessions,
         NEW label \in Labels, GoTo(s, label)
  PROVE  Users!GoTo(s, label)
PROOF
<1>1. pc' = [pc EXCEPT ![s] = label]
  BY DEF GoTo
<1>2. \A t \in Sessions : UserPc'[t] = IF t = s THEN label ELSE UserPc[t]
  BY <1>1, LabelFacts DEF UserPc
<1>3. UserPc' = [UserPc EXCEPT ![s] = label]
  BY <1>2 DEF UserPc
<1> QED BY <1>3 DEF Users!GoTo

\* A command that is over here is over in UserSessions.
LEMMA ReturnMaps ==
  ASSUME pc \in [Sessions -> Labels \union ChannelLabels], NEW s \in Sessions,
         Return(s)
  PROVE  Users!Return(s)
BY GoToMaps DEF Return, Users!Return, Labels, NoLine, Users!NoLine

-----------------------------------------------------------------------------
(* The steps, one by one                                                   *)

\* The steps of a connection.
LEMMA ConnectionMaps ==
  ASSUME ThreadOK, NEW s \in Sessions
  PROVE  /\ Connect(s) => Users!Connect(s)
         /\ ClientStep(s) => Users!ClientStep(s)
         /\ BeginRead(s) => Users!BeginRead(s)
         /\ End(s) => Users!End(s)
PROOF
<1> USE DEF dbVars, Users!dbVars, userVars, Users!userVars, shutdownVars,
            Users!shutdownVars, historyVars, Users!historyVars, Disconnect,
            Users!Disconnect
<1>0. /\ \A label \in Labels : GoTo(s, label) => Users!GoTo(s, label)
      /\ pc[s] \in Labels => UserPc[s] = pc[s]
  BY UserPcOK, GoToMaps DEF ThreadOK
<1>1. Connect(s) => Users!Connect(s)
  BY <1>0 DEF Connect, Users!Connect, Handshake, Users!Handshake, Labels
<1>2. HangUp(s) => Users!HangUp(s)
  BY <1>0 DEF HangUp, Users!HangUp, Labels
<1>3. ASSUME NEW l \in Lines, ReceiveLine(s, l)
      PROVE  Users!ReceiveLine(s, l)
  BY <1>0, <1>3 DEF ReceiveLine, Users!ReceiveLine, Labels
<1>4. BeginRead(s) => Users!BeginRead(s)
  BY <1>0 DEF BeginRead, Users!BeginRead, Labels
<1>5. End(s) => Users!End(s)
  BY <1>0 DEF End, Users!End, Labels
<1> QED BY <1>1, <1>2, <1>3, <1>4, <1>5 DEF ClientStep, Users!ClientStep

\* The inductive invariant of UserSessions.
UserInv ==
  /\ UserProofs!TypeInv
  /\ UserProofs!RegistryInv
  /\ UserProofs!LoopOK

\* The entries of the registry that the steps follow are entries of sessions.
LEMMA UserInvFacts ==
  ASSUME UserInv
  PROVE  /\ loggedInUsers \in [UserIds -> Sessions \union {NoSession}]
         /\ \A s \in Sessions :
              /\ UserPc[s] = "evict" => mCurrentUser[s] \in Registered
              /\ UserPc[s] = "ban" => target[s] \in Registered
         /\ todo \subseteq Registered
PROOF
<1>1. UserProofs!UserIds = UserIds /\ UserProofs!Registered = Registered
  BY DEF UserProofs!UserIds, UserIds, UserProofs!Registered, Registered
<1> QED BY <1>1 DEF UserInv, UserProofs!TypeInv, UserProofs!TypeOK,
                    UserProofs!RegistryInv, UserProofs!VictimOK,
                    UserProofs!LoopOK

\* A thread that is not in readln here is not in readln in UserSessions.
LEMMA LockFreeMaps ==
  ASSUME pc \in [Sessions -> Labels \union ChannelLabels], NEW s \in Sessions,
         SessionLockFree(s)
  PROVE  Users!SessionLockFree(s)
BY UserPcOK, LabelFacts
DEF SessionLockFree, Users!SessionLockFree, UserPc, Labels

\* What the steps below have in common.
LEMMA PartsMap ==
  ASSUME ThreadOK, NEW s \in Sessions
  PROVE  /\ \A label \in Labels : GoTo(s, label) => Users!GoTo(s, label)
         /\ pc[s] \in Labels => UserPc[s] = pc[s]
         /\ Return(s) => Users!Return(s)
         /\ \A t \in Sessions : SessionLockFree(t) => Users!SessionLockFree(t)
BY UserPcOK, GoToMaps, ReturnMaps, LockFreeMaps DEF ThreadOK

\* The steps of /login.
LEMMA LoginMaps ==
  ASSUME ThreadOK, UserInv, NEW s \in Sessions, LoginStep(s)
  PROVE  Users!LoginStep(s)
PROOF
<1> USE DEF dbVars, Users!dbVars, userVars, Users!userVars, shutdownVars,
            Users!shutdownVars, historyVars, Users!historyVars, Disconnect,
            Users!Disconnect, UsersLockFree, Users!UsersLockFree, Handles,
            Users!Handles
<1>0. /\ \A label \in Labels : GoTo(s, label) => Users!GoTo(s, label)
      /\ pc[s] \in Labels => UserPc[s] = pc[s]
      /\ Return(s) => Users!Return(s)
      /\ \A t \in Sessions : SessionLockFree(t) => Users!SessionLockFree(t)
  BY PartsMap
<1>1. CASE LoginHandler(s)
  BY <1>0, <1>1 DEF LoginHandler, Users!LoginHandler, Users!LoginStep, Labels
<1>2. CASE LogInCheck(s)
  BY <1>0, <1>2 DEF LogInCheck, Users!LogInCheck, Users!LoginStep, Labels
<1>3. CASE LogIn(s)
  BY <1>0, <1>3
  DEF LogIn, Users!LogIn, Users!LoginStep, Labels, MayLogIn, Users!MayLogIn,
      Register, Users!Register, user_from_name, Users!user_from_name,
      user_from_id, Users!user_from_id, UserIds, Users!UserIds, NoUser,
      Users!NoUser, Banned, Users!Banned
<1>4. CASE EvictForLogin(s)
  <2>1. loggedInUsers[mCurrentUser[s]] \in Sessions
    BY <1>0, <1>4, UserInvFacts DEF EvictForLogin, Registered, Labels
  <2> QED BY <1>0, <1>4, <2>1
          DEF EvictForLogin, Users!EvictForLogin, Users!LoginStep, Labels,
              Register, Users!Register
<1>5. CASE Attach(s)
  BY <1>0, <1>5 DEF Attach, Users!Attach, Users!LoginStep, Labels
<1>6. CASE Forget(s)
  BY <1>0, <1>6
  DEF Forget, Users!Forget, Users!LoginStep, Labels, Registered,
      Users!Registered, UserIds, Users!UserIds
<1> QED BY <1>1, <1>2, <1>3, <1>4, <1>5, <1>6 DEF LoginStep

\* The commands on other users.
LEMMA AdminMaps ==
  ASSUME ThreadOK, UserInv, NEW s \in Sessions, AdminStep(s)
  PROVE  Users!AdminStep(s)
PROOF
<1> USE DEF dbVars, Users!dbVars, userVars, Users!userVars, shutdownVars,
            Users!shutdownVars, historyVars, Users!historyVars, Disconnect,
            Users!Disconnect, UsersLockFree, Users!UsersLockFree, Handles,
            Users!Handles
<1>0. /\ \A label \in Labels : GoTo(s, label) => Users!GoTo(s, label)
      /\ pc[s] \in Labels => UserPc[s] = pc[s]
      /\ Return(s) => Users!Return(s)
      /\ \A t \in Sessions : SessionLockFree(t) => Users!SessionLockFree(t)
  BY PartsMap
<1> USE DEF Labels, Users!AdminStep, Self, Users!Self, user_from_name,
            Users!user_from_name, user_from_id, Users!user_from_id, UserIds,
            Users!UserIds, NoUser, Users!NoUser, Banned, Users!Banned, Acting,
            Users!Acting, MayBlock, Users!MayBlock
<1>1. CASE FindTarget(s)
  BY <1>0, <1>1 DEF FindTarget, Users!FindTarget
<1>2. ASSUME NEW id, LogOutUser(s, id) PROVE Users!LogOutUser(s, id)
  BY <1>0, <1>2 DEF LogOutUser, Users!LogOutUser
<1>3. ASSUME NEW may, NEW flag, BanUser(s, may, flag)
      PROVE  Users!BanUser(s, may, flag)
  BY <1>0, <1>2, <1>3
  DEF BanUser, Users!BanUser, Ban, Users!Ban, DbChangeUserFlags,
      Users!DbChangeUserFlags
<1>4. CASE BlockUser(s)
  BY <1>3, <1>4 DEF BlockUser, Users!BlockUser
<1>5. CASE RetireUser(s)
  BY <1>3, <1>5 DEF RetireUser, Users!RetireUser, MayRemove, Users!MayRemove
<1>6. CASE DeleteUser(s)
  BY <1>0, <1>2, <1>6
  DEF DeleteUser, Users!DeleteUser, MayRemove, Users!MayRemove, DbDeleteUser,
      Users!DbDeleteUser
<1>7. CASE LogOutBanned(s)
  <2>1. loggedInUsers[target[s]] \in Sessions
    BY <1>0, <1>7, UserInvFacts DEF LogOutBanned, Registered
  <2> QED BY <1>0, <1>7, <2>1 DEF LogOutBanned, Users!LogOutBanned
<1>8. CASE MakeModerator(s)
  BY <1>0, <1>8
  DEF MakeModerator, Users!MakeModerator, ChangeUserFlags,
      Users!ChangeUserFlags, MayChange, Users!MayChange, DbChangeUserFlags,
      Users!DbChangeUserFlags
<1>9. CASE MakeOwner(s)
  BY <1>0, <1>9
  DEF MakeOwner, Users!MakeOwner, ChangeUserFlags, Users!ChangeUserFlags,
      MayChange, Users!MayChange, DbChangeUserFlags, Users!DbChangeUserFlags
<1>10. CASE AddUser(s)
  BY <1>0, <1>10
  DEF AddUser, Users!AddUser, MayAdd, Users!MayAdd, DbAddUser,
      Users!DbAddUser, NextFreeId, Users!NextFreeId
<1> QED BY <1>1, <1>4, <1>5, <1>6, <1>7, <1>8, <1>9, <1>10 DEF AdminStep

\* The steps of /shutdown.
LEMMA ShutdownMaps ==
  ASSUME ThreadOK, UserInv, NEW s \in Sessions, ShutdownStep(s)
  PROVE  Users!ShutdownStep(s)
PROOF
<1> USE DEF dbVars, Users!dbVars, userVars, Users!userVars, shutdownVars,
            Users!shutdownVars, historyVars, Users!historyVars, Disconnect,
            Users!Disconnect, UsersLockFree, Users!UsersLockFree, Handles,
            Users!Handles
<1>0. /\ \A label \in Labels : GoTo(s, label) => Users!GoTo(s, label)
      /\ pc[s] \in Labels => UserPc[s] = pc[s]
      /\ Return(s) => Users!Return(s)
      /\ \A t \in Sessions : SessionLockFree(t) => Users!SessionLockFree(t)
      /\ UNCHANGED pc => UNCHANGED UserPc
  BY PartsMap DEF UserPc
<1> USE DEF Labels, Users!ShutdownStep, Registered, Users!Registered, UserIds,
            Users!UserIds
<1>1. CASE ShutdownHandler(s)
  BY <1>0, <1>1 DEF ShutdownHandler, Users!ShutdownHandler
<1>2. CASE Authorize(s)
  BY <1>0, <1>2
  DEF Authorize, Users!Authorize, Self, Users!Self, user_from_id,
      Users!user_from_id, NoUser, Users!NoUser, Banned, Users!Banned
<1>3. CASE Announce(s)
  BY <1>0, <1>3 DEF Announce, Users!Announce, BeginLoop, Users!BeginLoop
<1>4. ASSUME NEW u \in UserIds, Visit(u)
      PROVE  Users!Visit(u)
  <2>1. loggedInUsers[u] \in Sessions
    BY <1>4, UserInvFacts DEF Visit
  <2> QED BY <1>0, <1>4, <2>1 DEF Visit, Users!Visit
<1>5. CASE Warn(s)
  BY <1>0, <1>4, <1>5 DEF Warn, Users!Warn, EndLoop, Users!EndLoop
<1>6. CASE Linger(s)
  BY <1>0, <1>6 DEF Linger, Users!Linger, BeginLoop, Users!BeginLoop
<1>7. CASE Sweep(s)
  BY <1>0, <1>4, <1>7 DEF Sweep, Users!Sweep, EndLoop, Users!EndLoop
<1>8. CASE ShutDown(s)
  BY <1>0, <1>8 DEF ShutDown, Users!ShutDown
<1> QED BY <1>1, <1>2, <1>3, <1>5, <1>6, <1>7, <1>8 DEF ShutdownStep

\* The commands of the channels; * stands for a line that is no command.
ChannelCommands == {"/join", "/leave", "/kick", "*"}

\* Every step of a channel command stays inside that command or ends it.
ChannelMove(s) ==
  /\ pc[s] \in ChannelLabels \union {"dispatch"}
  /\ line[s].command \in ChannelCommands
  /\ Return(s) \/ \E label \in ChannelLabels : Proceed(s, label)
  /\ UNCHANGED otherVars

\* Each of the steps is of that form.
LEMMA ChannelStepMoves ==
  ASSUME ThreadOK, NEW s \in Sessions, ChannelStep(s)
  PROVE  ChannelMove(s)
PROOF
<1> USE DEF Finish
<1>0. pc[s] \in ChannelLabels => line[s].command \in ChannelCommands
  BY DEF ThreadOK, ChannelCommands
<1>1. CASE JoinHandler(s) \/ JoinKickList(s) \/ JoinList(s) \/ JoinCurrent(s)
  <2>1. pc[s] \in ChannelLabels \union {"dispatch"}
    BY <1>1
    DEF JoinHandler, JoinKickList, JoinList, JoinCurrent, Handles,
        ChannelLabels
  <2>2. line[s].command \in ChannelCommands
    BY <1>0, <1>1
    DEF JoinHandler, JoinKickList, JoinList, JoinCurrent, Handles,
        ChannelLabels, ChannelCommands
  <2>3. Return(s) \/ \E label \in ChannelLabels : Proceed(s, label)
    BY <1>1 DEF JoinHandler, JoinKickList, JoinList, JoinCurrent, ChannelLabels
  <2>4. UNCHANGED otherVars
    BY <1>1 DEF JoinHandler, JoinKickList, JoinList, JoinCurrent
  <2> QED BY <2>1, <2>2, <2>3, <2>4 DEF ChannelMove
<1>2. CASE \/ LeaveHandler(s) \/ LeaveChannel(s) \/ LeaveCurrent(s)
           \/ LeaveList(s)
  <2>1. pc[s] \in ChannelLabels \union {"dispatch"}
    BY <1>2
    DEF LeaveHandler, LeaveChannel, LeaveCurrent, LeaveList, Handles,
        ChannelLabels
  <2>2. line[s].command \in ChannelCommands
    BY <1>0, <1>2
    DEF LeaveHandler, LeaveChannel, LeaveCurrent, LeaveList, Handles,
        ChannelLabels, ChannelCommands
  <2>3. Return(s) \/ \E label \in ChannelLabels : Proceed(s, label)
    BY <1>2
    DEF LeaveHandler, LeaveChannel, LeaveCurrent, LeaveList, ChannelLabels
  <2>4. UNCHANGED otherVars
    BY <1>2 DEF LeaveHandler, LeaveChannel, LeaveCurrent, LeaveList
  <2> QED BY <2>1, <2>2, <2>3, <2>4 DEF ChannelMove
<1>3. CASE KickHandler(s) \/ KickFlags(s) \/ KickTargetFlags(s) \/ KickList(s)
  <2>1. pc[s] \in ChannelLabels \union {"dispatch"}
    BY <1>3
    DEF KickHandler, KickFlags, KickTargetFlags, KickList, Handles,
        ChannelLabels
  <2>2. line[s].command \in ChannelCommands
    BY <1>0, <1>3
    DEF KickHandler, KickFlags, KickTargetFlags, KickList, Handles,
        ChannelLabels, ChannelCommands
  <2>3. Return(s) \/ \E label \in ChannelLabels : Proceed(s, label)
    BY <1>3
    DEF KickHandler, KickFlags, KickTargetFlags, KickList, ChannelLabels
  <2>4. UNCHANGED otherVars
    BY <1>3 DEF KickHandler, KickFlags, KickTargetFlags, KickList
  <2> QED BY <2>1, <2>2, <2>3, <2>4 DEF ChannelMove
<1>4. CASE \/ ChatHandler(s) \/ BeginSend(s) \/ FindReceiver(s) \/ Deliver(s)
           \/ EndSend(s) \/ TellKicked(s)
  <2>1. pc[s] \in ChannelLabels \union {"dispatch"}
    BY <1>4
    DEF ChatHandler, BeginSend, FindReceiver, Deliver, EndSend, TellKicked,
        Handles, ChannelLabels
  <2>2. line[s].command \in ChannelCommands
    BY <1>0, <1>4
    DEF ChatHandler, BeginSend, FindReceiver, Deliver, EndSend, TellKicked,
        Handles, ChannelLabels, ChannelCommands
  <2>3. Return(s) \/ \E label \in ChannelLabels : Proceed(s, label)
    BY <1>4
    DEF ChatHandler, BeginSend, FindReceiver, Deliver, EndSend, TellKicked,
        ChannelLabels
  <2>4. UNCHANGED otherVars
    BY <1>4
    DEF ChatHandler, BeginSend, FindReceiver, Deliver, EndSend, TellKicked
  <2> QED BY <2>1, <2>2, <2>3, <2>4 DEF ChannelMove
<1> QED BY <1>1, <1>2, <1>3, <1>4 DEF ChannelStep

\* The end of a channel's command is OtherCommand, and what came before it is
\* not seen.
LEMMA ChannelMoveMaps ==
  ASSUME ThreadOK, NEW s \in Sessions, ChannelMove(s)
  PROVE  Users!OtherCommand(s) \/ UNCHANGED Users!vars
PROOF
<1>1. UserPc[s] = "dispatch"
  BY UserPcOK DEF ChannelMove, ThreadOK, Labels
<1>2. CASE Return(s)
  BY <1>1, <1>2, ReturnMaps
  DEF ThreadOK, ChannelMove, ChannelCommands, Users!OtherCommand, otherVars,
      dbVars, Users!dbVars, userVars, Users!userVars, shutdownVars,
      Users!shutdownVars, historyVars, Users!historyVars
<1>3. ASSUME NEW label \in ChannelLabels, Proceed(s, label)
      PROVE  UNCHANGED Users!vars
  <2>1. pc' = [pc EXCEPT ![s] = label] /\ UNCHANGED <<line, target>>
    BY <1>3 DEF Proceed, GoTo
  <2>2. \A t \in Sessions : UserPc'[t] = UserPc[t]
    BY <1>1, <2>1 DEF UserPc, ThreadOK
  <2>3. UNCHANGED UserPc
    BY <2>2 DEF UserPc
  <2> QED BY <2>1, <2>3
          DEF ChannelMove, otherVars, Users!vars, Users!threadVars,
              dbVars, Users!dbVars, userVars, Users!userVars, shutdownVars,
              Users!shutdownVars, historyVars, Users!historyVars
<1> QED BY <1>2, <1>3 DEF ChannelMove

\* /logout and /version.
LEMMA OtherMaps ==
  ASSUME ThreadOK, NEW s \in Sessions, Logout(s) \/ OtherCommand(s)
  PROVE  Users!Logout(s) \/ Users!OtherCommand(s)
PROOF
<1>1. pc[s] = "dispatch" /\ UserPc[s] = "dispatch" /\ Return(s)
  BY UserPcOK DEF ThreadOK, Labels, Logout, OtherCommand, Handles
<1>2. Users!Return(s)
  BY <1>1, ReturnMaps DEF ThreadOK
<1> QED BY <1>1, <1>2
        DEF Logout, Users!Logout, OtherCommand, Users!OtherCommand, Handles,
            Users!Handles, Disconnect, Users!Disconnect, dbVars, Users!dbVars,
            userVars, Users!userVars, shutdownVars, Users!shutdownVars,
            historyVars, Users!historyVars

\* Where nothing changes, nothing is seen to change.
LEMMA StutterMaps ==
  ASSUME UNCHANGED vars
  PROVE  UNCHANGED Users!vars
BY DEF vars, threadVars, Users!vars, Users!threadVars, UserPc,
       dbVars, Users!dbVars, userVars, Users!userVars, shutdownVars,
       Users!shutdownVars, historyVars, Users!historyVars

\* A process that ends leaves no thread, no member and no lock behind.
LEMMA EndChannelsFacts ==
  ASSUME EndChannels
  PROVE  /\ pc' = [s \in Sessions |-> "done"] /\ UserPc' = pc'
         /\ line' = [s \in Sessions |-> NoLine]
         /\ \A c \in ChannelNames :
              members'[c] = {} /\ listLock'[c] = NoSession
         /\ UNCHANGED <<kicked, overtook>>
PROOF
<1>1. pc' = [s \in Sessions |-> "done"]
  BY DEF EndChannels, EndProcess
<1>2. \A s \in Sessions : UserPc'[s] = pc'[s]
  BY <1>1 DEF UserPc, ChannelLabels
<1>3. UserPc' = pc'
  BY <1>1, <1>2 DEF UserPc
<1> QED BY <1>1, <1>3 DEF EndChannels, EndProcess

\* The end of the process is seen as what it is.
LEMMA EndMaps ==
  ASSUME EndChannels
  PROVE  Users!EndProcess
BY EndChannelsFacts
DEF EndChannels, EndProcess, Users!EndProcess, NoLine, Users!NoLine, UserIds,
    Users!UserIds, dbVars, Users!dbVars, historyVars, Users!historyVars

\* Every step is a step of UserSessions, or not seen there.
LEMMA StepMaps ==
  ASSUME ThreadOK, UserInv, [ChannelNext]_allVars
  PROVE  [Users!Next]_(Users!vars)
PROOF
<1>1. UNCHANGED allVars => UNCHANGED Users!vars
  BY StutterMaps DEF allVars
<1>2. ASSUME NEW s \in Sessions, Connect(s) \/ ClientStep(s)
      PROVE  Users!Next
  BY <1>2, ConnectionMaps DEF Users!Next
<1>3. ASSUME NEW s \in Sessions, UserStep(s)
      PROVE  Users!Next
  <2>1. Users!ThreadStep(s)
    BY <1>3, ConnectionMaps, LoginMaps, AdminMaps, ShutdownMaps, OtherMaps
    DEF UserStep, Users!ThreadStep
  <2> QED BY <2>1 DEF Users!Next
<1>4. ASSUME NEW s \in Sessions, ChannelStep(s)
      PROVE  Users!Next \/ UNCHANGED Users!vars
  BY <1>4, ChannelStepMoves, ChannelMoveMaps DEF Users!Next, Users!ThreadStep
<1>5. CASE Finished
  BY <1>5, StutterMaps DEF Finished
<1>6. CASE EndChannels
  BY <1>6, EndMaps DEF Users!Next
<1> QED BY <1>1, <1>2, <1>3, <1>4, <1>5, <1>6 DEF ChannelNext

-----------------------------------------------------------------------------
(* The theorems of UserSessions_proofs, here                               *)

\* The two instances of UserSessions, the one that Channels refines and the one
\* the theorems of UserSessions_proofs are about, are the same.
LEMMA SameInstance ==
  /\ Users!Init <=> UserProofs!Init
  /\ Users!Next <=> UserProofs!Next
  /\ UNCHANGED Users!vars <=> UNCHANGED UserProofs!vars
BY
DEF
    Users!dbVars, UserProofs!dbVars, Users!UserIds, UserProofs!UserIds,
    Users!NoUser, UserProofs!NoUser, Users!LoadUsers,
    UserProofs!LoadUsers, Users!user_from_id, UserProofs!user_from_id,
    Users!user_from_name, UserProofs!user_from_name, Users!NextFreeId,
    UserProofs!NextFreeId, Users!DbAddUser, UserProofs!DbAddUser,
    Users!DbDeleteUser, UserProofs!DbDeleteUser,
    Users!DbChangeUserFlags, UserProofs!DbChangeUserFlags,
    Users!threadVars, UserProofs!threadVars, Users!userVars,
    UserProofs!userVars, Users!shutdownVars, UserProofs!shutdownVars,
    Users!historyVars, UserProofs!historyVars, Users!vars,
    UserProofs!vars, Users!NoLine, UserProofs!NoLine, Users!Registered,
    UserProofs!Registered, Users!UsersLockFree,
    UserProofs!UsersLockFree, Users!SessionLockFree,
    UserProofs!SessionLockFree, Users!Init, UserProofs!Init, Users!GoTo,
    UserProofs!GoTo, Users!Return, UserProofs!Return, Users!Disconnect,
    UserProofs!Disconnect, Users!Handles, UserProofs!Handles,
    Users!Handshake, UserProofs!Handshake, Users!Connect,
    UserProofs!Connect, Users!BeginRead, UserProofs!BeginRead,
    Users!ReceiveLine, UserProofs!ReceiveLine, Users!HangUp,
    UserProofs!HangUp, Users!End, UserProofs!End, Users!LoginHandler,
    UserProofs!LoginHandler, Users!LogInCheck, UserProofs!LogInCheck,
    Users!Banned, UserProofs!Banned, Users!MayLogIn,
    UserProofs!MayLogIn, Users!Register, UserProofs!Register,
    Users!LogIn, UserProofs!LogIn, Users!EvictForLogin,
    UserProofs!EvictForLogin, Users!Attach, UserProofs!Attach,
    Users!Forget, UserProofs!Forget, Users!Acting, UserProofs!Acting,
    Users!MayBlock, UserProofs!MayBlock, Users!MayRemove,
    UserProofs!MayRemove, Users!MayAdd, UserProofs!MayAdd,
    Users!MayChange, UserProofs!MayChange, Users!Self, UserProofs!Self,
    Users!FindTarget, UserProofs!FindTarget, Users!LogOutUser,
    UserProofs!LogOutUser, Users!Ban, UserProofs!Ban, Users!BanUser,
    UserProofs!BanUser, Users!BlockUser, UserProofs!BlockUser,
    Users!RetireUser, UserProofs!RetireUser, Users!DeleteUser,
    UserProofs!DeleteUser, Users!LogOutBanned, UserProofs!LogOutBanned,
    Users!ChangeUserFlags, UserProofs!ChangeUserFlags,
    Users!MakeModerator, UserProofs!MakeModerator, Users!MakeOwner,
    UserProofs!MakeOwner, Users!AddUser, UserProofs!AddUser,
    Users!Logout, UserProofs!Logout, Users!OtherCommand,
    UserProofs!OtherCommand, Users!ShutdownHandler,
    UserProofs!ShutdownHandler, Users!Authorize, UserProofs!Authorize,
    Users!BeginLoop, UserProofs!BeginLoop, Users!Visit,
    UserProofs!Visit, Users!EndLoop, UserProofs!EndLoop, Users!Announce,
    UserProofs!Announce, Users!Warn, UserProofs!Warn, Users!Linger,
    UserProofs!Linger, Users!Sweep, UserProofs!Sweep, Users!ShutDown,
    UserProofs!ShutDown, Users!ClientStep, UserProofs!ClientStep,
    Users!LoginStep, UserProofs!LoginStep, Users!AdminStep,
    UserProofs!AdminStep, Users!ShutdownStep, UserProofs!ShutdownStep,
    Users!ThreadStep, UserProofs!ThreadStep, Users!EndProcess,
    UserProofs!EndProcess, Users!Finished, UserProofs!Finished,
    Users!Next, UserProofs!Next

\* The constants are the same ones, and so are the assumptions about them.
LEMMA InstanceAssumptions ==
  UserProofs!DatabaseAssumption /\ UserProofs!SessionsAssumption
BY DatabaseAssumption, SessionsAssumption
DEF UserProofs!DatabaseAssumption, UserProofs!SessionsAssumption,
    UserProofs!User, User, UserProofs!UserIds, UserIds, UserProofs!Line, Line,
    UserProofs!Commands, Commands, UserProofs!Flags, Flags

\* The invariant of UserSessions is kept by every step here.
LEMMA UserInvStep ==
  ASSUME ThreadOK, UserInv, [ChannelNext]_allVars
  PROVE  UserInv'
PROOF
<1>1. [UserProofs!Next]_(UserProofs!vars)
  BY StepMaps, SameInstance
<1>2. UserProofs!TypeInv' 
  BY <1>1, UserProofs!TypeInvStep, InstanceAssumptions DEF UserInv
<1>3. UserProofs!RegistryInv'
  BY <1>1, UserProofs!RegistryStep, InstanceAssumptions DEF UserInv
<1>4. UserProofs!LoopOK'
  BY <1>1, UserProofs!LoopStep, InstanceAssumptions DEF UserInv
<1> QED BY <1>2, <1>3, <1>4 DEF UserInv

\* The initial states are those of UserSessions.
LEMMA InitMaps ==
  ASSUME Init
  PROVE  Users!Init /\ UserInv /\ ThreadOK
PROOF
<1>1. \A s \in Sessions : UserPc[s] = "unborn"
  BY LabelFacts DEF Init, UserPc, Labels
<1>2. UserPc = [s \in Sessions |-> "unborn"]
  BY <1>1 DEF UserPc
<1>3. Users!Init
  BY <1>2
  DEF Init, Users!Init, LoadUsers, Users!LoadUsers, UserIds, Users!UserIds,
      NoUser, Users!NoUser, NoLine, Users!NoLine
<1>4. UserInv
  BY <1>3, SameInstance, InstanceAssumptions, UserProofs!InitTypeInv,
     UserProofs!InitRegistryInv, UserProofs!InitLoopOK
  DEF UserInv
<1>5. ThreadOK
  BY LabelFacts DEF Init, ThreadOK, Labels
<1> QED BY <1>3, <1>4, <1>5

-----------------------------------------------------------------------------
(* The refinement                                                          *)

\* What the invariant of UserSessions says of the variables the channels use.
LEMMA UserFacts ==
  ASSUME UserInv
  PROVE  /\ DatabaseInv
         /\ line \in [Sessions -> Lines \union {NoLine}]
         /\ attached \in [Sessions -> BOOLEAN]
         /\ mCurrentUser \in [Sessions -> UserIds \union {0}]
         /\ loggedInUsers \in [UserIds -> Sessions \union {NoSession}]
         /\ \A s \in Sessions : UserPc[s] = "dispatch" => line[s] \in Lines
         /\ \A s \in Sessions : attached[s] => mCurrentUser[s] \in UserIds
         /\ \A s \in Sessions :
              UserPc[s] \in {"unborn", "check", "log_in", "evict", "attach",
                            "forget"} => ~attached[s]
PROOF
<1>1. DatabaseInv
  BY DEF UserInv, UserProofs!TypeInv, UserProofs!TypeOK,
         UserProofs!DatabaseTypeOK, UserProofs!DatabaseConsistent,
         UserProofs!UserIds, UserProofs!User, UserProofs!Flags,
         UserProofs!NoUser, DatabaseInv, DatabaseTypeOK, DatabaseConsistent,
         UserIds, User, Flags, NoUser
<1>2. UserProofs!UserIds = UserIds /\ UserProofs!NoLine = NoLine
  BY DEF UserProofs!UserIds, UserIds, UserProofs!NoLine, NoLine
<1>3. /\ UserProofs!TypeOK /\ UserProofs!LineOK
      /\ UserProofs!LoggedInOK /\ UserProofs!NotAttached
  BY DEF UserInv, UserProofs!TypeInv, UserProofs!RegistryInv
<1>4. \A s \in Sessions : attached[s] => mCurrentUser[s] \in UserIds
  BY <1>2, <1>3 DEF UserProofs!LoggedInOK, UserProofs!LoggedIn
<1>5. \A s \in Sessions : UserPc[s] = "dispatch" => line[s] \in Lines
  BY <1>3 DEF UserProofs!LineOK
<1>6. \A s \in Sessions :
              UserPc[s] \in {"unborn", "check", "log_in", "evict", "attach",
                            "forget"} => ~attached[s]
  BY <1>3 DEF UserProofs!NotAttached
<1> QED BY <1>1, <1>2, <1>3, <1>4, <1>5, <1>6 DEF UserProofs!TypeOK

\* What a step outside the channels' commands leaves as it is: the channels,
\* and who is logged in on a session once somebody is.
UserMove(s) ==
  /\ pc[s] \in Labels /\ pc'[s] \in Labels
  /\ pc' \in [Sessions -> Labels \union ChannelLabels]
  /\ \A t \in Sessions \ {s} : pc'[t] = pc[t] /\ line'[t] = line[t]
  /\ \A t \in Sessions :
       attached[t] => attached'[t] /\ mCurrentUser'[t] = mCurrentUser[t]
  /\ UNCHANGED <<channelVars, job>>

\* Each of the steps is of that form.
LEMMA UserMoves ==
  ASSUME ThreadOK, UserInv, NEW s \in Sessions,
         \/ (Connect(s) \/ ClientStep(s)) /\ UNCHANGED <<channelVars, job>>
         \/ UserStep(s)
  PROVE  UserMove(s)
PROOF
<1> USE DEF UserMove, GoTo, Return, Handles
<1>0. /\ pc \in [Sessions -> Labels \union ChannelLabels]
      /\ line \in [Sessions -> Lines \union {NoLine}]
      /\ attached \in [Sessions -> BOOLEAN]
      /\ mCurrentUser \in [Sessions -> UserIds \union {0}]
      /\ UNCHANGED <<channelVars, job>>
  BY UserFacts DEF ThreadOK, UserStep
<1>1. ASSUME UNCHANGED <<attached, mCurrentUser>>, pc[s] \in Labels,
             \/ UNCHANGED pc
             \/ \E label \in Labels : pc' = [pc EXCEPT ![s] = label],
             \/ UNCHANGED line
             \/ \E l : line' = [line EXCEPT ![s] = l]
      PROVE  UserMove(s)
  BY <1>0, <1>1
<1> USE DEF Labels
<1>2. CASE \/ Connect(s) \/ ClientStep(s) \/ BeginRead(s) \/ End(s)
           \/ Logout(s) \/ OtherCommand(s)
  BY <1>1, <1>2
  DEF Connect, Handshake, ClientStep, ReceiveLine, HangUp, BeginRead, End,
      Logout, OtherCommand, userVars
<1>3. CASE LoginStep(s)
  <2>1. pc[s] \in Labels
    BY <1>3
    DEF LoginStep, LoginHandler, LogInCheck, LogIn, EvictForLogin, Attach,
        Forget
  <2>2. \E label \in Labels : pc' = [pc EXCEPT ![s] = label]
    BY <1>3
    DEF LoginStep, LoginHandler, LogInCheck, LogIn, EvictForLogin, Register,
        Attach, Forget
  <2>3. \/ UNCHANGED line
        \/ \E l : line' = [line EXCEPT ![s] = l]
    BY <1>3
    DEF LoginStep, LoginHandler, LogInCheck, LogIn, EvictForLogin, Register,
        Attach, Forget
  <2>4. \/ UNCHANGED attached
        \/ attached' = [attached EXCEPT ![s] = TRUE]
    BY <1>3
    DEF LoginStep, LoginHandler, LogInCheck, LogIn, EvictForLogin, Attach,
        Forget, userVars
  <2>5. \/ UNCHANGED mCurrentUser
        \/ /\ ~attached[s]
           /\ \E g : mCurrentUser' = [mCurrentUser EXCEPT ![s] = g]
    <3>1. pc[s] \in {"log_in", "forget"} => ~attached[s]
      BY UserFacts, UserPcOK DEF ThreadOK
    <3> QED BY <1>3, <3>1
            DEF LoginStep, LoginHandler, LogInCheck, LogIn, EvictForLogin,
                Attach, Forget, userVars
  <2> HIDE DEF Labels
  <2> QED BY <1>0, <2>1, <2>2, <2>3, <2>4, <2>5
<1>4. CASE AdminStep(s)
  <2>1. UNCHANGED <<attached, mCurrentUser>> /\ pc[s] \in Labels
    BY <1>4
    DEF AdminStep, FindTarget, BlockUser, RetireUser, BanUser, DeleteUser,
        LogOutBanned, MakeModerator, MakeOwner, AddUser, userVars
  <2>2. CASE \/ FindTarget(s) \/ LogOutBanned(s) \/ MakeModerator(s)
             \/ MakeOwner(s) \/ AddUser(s)
    BY <1>1, <2>1, <2>2
    DEF FindTarget, LogOutBanned, MakeModerator, MakeOwner, AddUser
  <2>3. CASE BlockUser(s) \/ RetireUser(s) \/ DeleteUser(s)
    BY <1>1, <2>1, <2>3
    DEF BlockUser, RetireUser, BanUser, Ban, LogOutUser, DeleteUser
  <2> QED BY <1>4, <2>2, <2>3 DEF AdminStep
<1>5. CASE ShutdownStep(s)
  <2>1. UNCHANGED <<attached, mCurrentUser>> /\ pc[s] \in Labels
    BY <1>5
    DEF ShutdownStep, ShutdownHandler, Authorize, Announce, Warn, Linger,
        Sweep, ShutDown, userVars
  <2>2. CASE ShutdownHandler(s) \/ Authorize(s) \/ ShutDown(s)
    BY <1>1, <2>1, <2>2 DEF ShutdownHandler, Authorize, ShutDown
  <2>3. CASE Announce(s) \/ Warn(s) \/ Linger(s) \/ Sweep(s)
    BY <1>1, <2>1, <2>3 DEF Announce, Warn, Linger, Sweep, BeginLoop, EndLoop
  <2> QED BY <1>5, <2>2, <2>3 DEF ShutdownStep
<1> QED BY <1>2, <1>3, <1>4, <1>5 DEF UserStep

\* A step of a channel's command changes no other thread, and no user.
LEMMA ChannelMoveFacts ==
  ASSUME ThreadOK, UserInv, NEW s \in Sessions, ChannelMove(s)
  PROVE  /\ pc' \in [Sessions -> Labels \union ChannelLabels]
         /\ \A t \in Sessions \ {s} : pc'[t] = pc[t] /\ line'[t] = line[t]
         /\ pc'[s] = "idle" \/ (pc'[s] \in ChannelLabels /\ line'[s] = line[s])
         /\ UNCHANGED <<attached, mCurrentUser, dbVars>>
PROOF
<1>0. /\ pc \in [Sessions -> Labels \union ChannelLabels]
      /\ line \in [Sessions -> Lines \union {NoLine}]
  BY UserFacts DEF ThreadOK
<1> QED BY <1>0
        DEF ChannelMove, Return, Proceed, GoTo, otherVars, userVars, Labels

\* Every step keeps ThreadOK.
LEMMA ThreadStepOK ==
  ASSUME ThreadOK, UserInv, [ChannelNext]_allVars
  PROVE  ThreadOK'
PROOF
<1>1. CASE UNCHANGED <<pc, line>>
  BY <1>1 DEF ThreadOK
<1>2. ASSUME NEW s \in Sessions, UserMove(s)
      PROVE  ThreadOK'
  BY <1>2, LabelFacts DEF UserMove, ThreadOK
<1>3. ASSUME NEW s \in Sessions, ChannelStep(s)
      PROVE  ThreadOK'
  <2>1. ChannelMove(s)
    BY <1>3, ChannelStepMoves
  <2> QED BY <2>1, ChannelMoveFacts, LabelFacts
          DEF ThreadOK, ChannelMove, ChannelCommands, Labels
<1>4. UNCHANGED vars => UNCHANGED <<pc, line>>
  BY DEF vars, threadVars
<1>5. CASE EndChannels
  BY <1>5, EndChannelsFacts, LabelFacts DEF ThreadOK, Labels
<1> QED BY <1>1, <1>2, <1>3, <1>4, <1>5, UserMoves
        DEF ChannelNext, allVars, Finished

\* The invariant the refinement rests on.
LEMMA RefinementInvariant == ChannelSpec => [](ThreadOK /\ UserInv)
PROOF
<1>1. ChannelInit => ThreadOK /\ UserInv
  BY InitMaps DEF ChannelInit
<1>2. ThreadOK /\ UserInv /\ [ChannelNext]_allVars => (ThreadOK /\ UserInv)'
  BY ThreadStepOK, UserInvStep
<1> QED BY <1>1, <1>2, PTL DEF ChannelSpec

(***************************************************************************)
(* The server with its channels implements UserSessions: a thread that     *)
(* waits for a channel's mUserListLock, sends to its members or is stopped *)
(* between the two looks of a kick does nothing to connections, users and  *)
(* accounts that UserSessions does not allow (eleven_chatserver.cpp:81).  *)
(***************************************************************************)
THEOREM ChannelsImplementUsers == ChannelSpec => ImplementsUsers
PROOF
<1>1. ChannelInit => Users!Init
  BY InitMaps DEF ChannelInit
<1>2. ThreadOK /\ UserInv /\ [ChannelNext]_allVars => [Users!Next]_(Users!vars)
  BY StepMaps
<1> QED BY <1>1, <1>2, RefinementInvariant, PTL
        DEF ChannelSpec, ImplementsUsers, Users!Spec

(***************************************************************************)
(* What UserSessions promises holds of the server with its channels too:   *)
(* its invariants carry over along the refinement.                         *)
(***************************************************************************)
THEOREM ChannelsKeepUsers ==
  ChannelSpec => [](/\ Users!RegistryOK /\ Users!OneSessionPerUser
                    /\ Users!SessionKeepsAccount /\ Users!BannedIsOffline
                    /\ Users!NobodyStays /\ Users!NoEscalation)
PROOF
<1>1. Users!Spec <=> UserProofs!Spec
  <2>1. [Users!Next]_(Users!vars) <=> [UserProofs!Next]_(UserProofs!vars)
    BY SameInstance
  <2> QED BY <2>1, SameInstance, PTL DEF Users!Spec, UserProofs!Spec
<1>2. UserProofs!Spec => [](/\ UserProofs!RegistryOK
                            /\ UserProofs!OneSessionPerUser
                            /\ UserProofs!SessionKeepsAccount
                            /\ UserProofs!BannedIsOffline
                            /\ UserProofs!NobodyStays
                            /\ UserProofs!NoEscalation)
  BY InstanceAssumptions, UserProofs!RegistryCorrect, UserProofs!OneSession,
     UserProofs!AccountKept, UserProofs!BannedOffline,
     UserProofs!StragglersGo, UserProofs!RanksCorrect, PTL
<1>3. /\ UserProofs!RegistryOK => Users!RegistryOK
      /\ UserProofs!OneSessionPerUser => Users!OneSessionPerUser
  BY DEF Users!RegistryOK, UserProofs!RegistryOK, Users!OneSessionPerUser,
         UserProofs!OneSessionPerUser, Users!LoggedIn, UserProofs!LoggedIn,
         Users!Registered, UserProofs!Registered, Users!UserIds,
         UserProofs!UserIds
<1>4. /\ UserProofs!SessionKeepsAccount => Users!SessionKeepsAccount
      /\ UserProofs!BannedIsOffline => Users!BannedIsOffline
  BY DEF Users!SessionKeepsAccount, UserProofs!SessionKeepsAccount,
         Users!BannedIsOffline, UserProofs!BannedIsOffline, Users!LoggedIn,
         UserProofs!LoggedIn, Users!BeingLoggedOut, UserProofs!BeingLoggedOut,
         Users!Self, UserProofs!Self, Users!user_from_id,
         UserProofs!user_from_id, Users!UserIds, UserProofs!UserIds,
         Users!NoUser, UserProofs!NoUser, Users!Banned, UserProofs!Banned
<1>5. UserProofs!NoEscalation => Users!NoEscalation
  BY DEF Users!NoEscalation, UserProofs!NoEscalation, Users!OwnerNames,
         UserProofs!OwnerNames, Users!ModeratorNames,
         UserProofs!ModeratorNames,
         Users!HasFlag, UserProofs!HasFlag, Users!UserIds, UserProofs!UserIds
<1>6. UserProofs!NobodyStays => Users!NobodyStays
  BY DEF Users!NobodyStays, UserProofs!NobodyStays, Users!LoggedIn,
         UserProofs!LoggedIn
<1> QED BY <1>1, <1>2, <1>3, <1>4, <1>5, <1>6, ChannelsImplementUsers, PTL
        DEF ImplementsUsers

-----------------------------------------------------------------------------
(* Types, and the list of a channel's users                                *)

\* The type of a command's local variables.
Job == [channel : ChannelNames \union {NoChannel},
        user : UserIds \union {0},
        session : Sessions \union {NoSession},
        reason : BOOLEAN,
        rest : SUBSET UserIds,
        receiver : Sessions \union {NoSession}]

\* A command of the channels is about a channel, its session is logged in, and
\* the steps that take a user out of the channel know which one.
JobOK ==
  \A s \in Sessions :
    /\ pc[s] \in ChannelLabels =>
         job[s].channel \in ChannelNames /\ attached[s]
    /\ pc[s] \in {"kick", "kick_flags", "kick_list", "leave", "leave_current",
                  "leave_list"} => job[s].user \in UserIds
    /\ pc[s] \in {"kick", "kick_flags", "kick_list"} =>
         line[s].command = "/kick"
    /\ pc[s] = "leave_current" => job[s].session \in Sessions

\* A thread that sends to a channel holds its mUserListLock.
SenderHoldsLock ==
  \A s \in Sessions : Sending(s) => listLock[job[s].channel] = s

\* The inductive invariant for the lock of a channel's user list.
ListInv == ChannelTypeOK /\ JobOK /\ SenderHoldsLock

\* Steps outside the channels' commands keep it.
LEMMA UserMoveList ==
  ASSUME ThreadOK, ListInv, NEW s \in Sessions, UserMove(s)
  PROVE  ListInv'
PROOF
<1>1. pc'[s] \notin ChannelLabels
  BY LabelFacts DEF UserMove
<1>2. ChannelTypeOK'
  BY DEF ListInv, ChannelTypeOK, UserMove, channelVars
<1>3. JobOK'
  BY <1>1 DEF ListInv, JobOK, UserMove, ChannelLabels
<1>4. SenderHoldsLock'
  BY <1>1 DEF ListInv, SenderHoldsLock, Sending, UserMove, ChannelLabels,
              channelVars
<1> QED BY <1>2, <1>3, <1>4 DEF ListInv

\* A step of a channel command keeps the other threads' parts of JobOK and
\* SenderHoldsLock, so only its own are left to prove.
LEMMA ChannelMoveList ==
  ASSUME ThreadOK, UserInv, ListInv, NEW s \in Sessions, ChannelMove(s),
         ChannelTypeOK', \E j : job' = [job EXCEPT ![s] = j],
         \A c \in ChannelNames :
           listLock[c] \notin {s, NoSession} => listLock'[c] = listLock[c],
         pc'[s] \in ChannelLabels =>
           /\ job'[s].channel \in ChannelNames /\ attached[s]
           /\ pc'[s] \in {"kick", "kick_flags", "kick_list", "leave",
                          "leave_current", "leave_list"} =>
                job'[s].user \in UserIds
           /\ pc'[s] \in {"kick", "kick_flags", "kick_list"} =>
                line[s].command = "/kick"
           /\ pc'[s] = "leave_current" => job'[s].session \in Sessions
           /\ pc'[s] \in {"sending", "deliver"} =>
                listLock'[job'[s].channel] = s
  PROVE  ListInv'
PROOF
<1>0. /\ job \in [Sessions -> Job]
      /\ \A t \in Sessions \ {s} :
           /\ pc'[t] = pc[t] /\ line'[t] = line[t] /\ job'[t] = job[t]
      /\ pc'[s] = "idle" \/ (pc'[s] \in ChannelLabels /\ line'[s] = line[s])
      /\ UNCHANGED attached
  BY ChannelMoveFacts DEF ListInv, ChannelTypeOK, Job
<1>1. "idle" \notin ChannelLabels
  BY DEF ChannelLabels
<1>2. JobOK'
  BY <1>0, <1>1 DEF ListInv, JobOK, ChannelLabels
<1>3. SenderHoldsLock'
  <2> SUFFICES ASSUME NEW t \in Sessions, Sending(t)'
               PROVE  listLock'[job'[t].channel] = t
    BY DEF SenderHoldsLock
  <2>1. CASE t = s
    BY <1>0, <2>1 DEF Sending, ChannelLabels
  <2>2. CASE t # s
    <3>1. Sending(t) /\ job'[t] = job[t]
      BY <1>0, <2>2 DEF Sending
    <3>2. listLock[job[t].channel] = t /\ job[t].channel \in ChannelNames
      BY <3>1 DEF ListInv, SenderHoldsLock, JobOK, Sending, ChannelLabels
    <3> QED BY <2>2, <3>1, <3>2, SessionsAssumption
  <2> QED BY <2>1, <2>2
<1> QED BY <1>2, <1>3 DEF ListInv

\* The steps of the channels' commands keep it.
LEMMA ChannelStepList ==
  ASSUME ThreadOK, UserInv, ListInv, NEW s \in Sessions, ChannelStep(s)
  PROVE  ListInv'
PROOF
<1>0. /\ members \in [ChannelNames -> SUBSET UserIds]
      /\ kicked \in [ChannelNames -> SUBSET UserIds]
      /\ listLock \in [ChannelNames -> Sessions \union {NoSession}]
      /\ current \in [Sessions -> ChannelNames \union {NoChannel}]
      /\ job \in [Sessions -> Job]
      /\ overtook \subseteq ChannelNames \X UserIds
  BY DEF ListInv, ChannelTypeOK, Job
<1>1. /\ pc \in [Sessions -> Labels \union ChannelLabels]
      /\ loggedInUsers \in [UserIds -> Sessions \union {NoSession}]
      /\ attached[s] => mCurrentUser[s] \in UserIds
      /\ mCurrentUser[s] \in UserIds \union {0}
      /\ NoSession \notin Sessions /\ NoChannel \notin ChannelNames
  BY UserFacts, SessionsAssumption DEF ThreadOK
<1>2. ASSUME pc[s] = "dispatch"
      PROVE  /\ line[s].channel \in ChannelNames \union {NoChannel}
             /\ user_from_name(line[s].name).mUserID \in UserIds \union {0}
  <2>1. line[s] \in Line /\ DatabaseInv
    BY <1>2, UserFacts, UserPcOK, SessionsAssumption DEF ThreadOK, Labels
  <2>2. /\ line[s].name \in Names
        /\ line[s].channel \in ChannelNames \union {NoChannel}
    BY <2>1 DEF Line
  <2> QED BY <2>1, <2>2, LookupOK
<1>3. JobOK
  BY DEF ListInv
<1>4. ChannelMove(s)
  BY ChannelStepMoves

\* The three shapes of a step: it is over, it changes nothing but its progress,
\* or it changes its local variables too.
<1>5. ASSUME NEW j \in Job, job' = [job EXCEPT ![s] = j],
             ChannelTypeOK',
             \A c \in ChannelNames :
               listLock[c] \notin {s, NoSession} => listLock'[c] = listLock[c],
             NEW label, GoTo(s, label),
             label \in ChannelLabels =>
               /\ j.channel \in ChannelNames /\ attached[s]
               /\ label \in {"kick", "kick_flags", "kick_list", "leave",
                             "leave_current", "leave_list"} =>
                    j.user \in UserIds
               /\ label \in {"kick", "kick_flags", "kick_list"} =>
                    line[s].command = "/kick"
               /\ label = "leave_current" => j.session \in Sessions
               /\ label \in {"sending", "deliver"} => listLock'[j.channel] = s
      PROVE  ListInv'
  <2>1. pc'[s] = label /\ job'[s] = j
    BY <1>0, <1>1, <1>5 DEF GoTo
  <2> QED BY <1>4, <1>5, <2>1, ChannelMoveList
<1>6. ASSUME Finish(s), ChannelTypeOK',
             \A c \in ChannelNames :
               listLock[c] \notin {s, NoSession} => listLock'[c] = listLock[c]
      PROVE  ListInv'
  <2>1. GoTo(s, "idle") /\ job' = [job EXCEPT ![s] = NoJob]
    BY <1>6 DEF Finish, Return
  <2>2. NoJob \in Job /\ "idle" \notin ChannelLabels
    BY DEF NoJob, Job, ChannelLabels
  <2> QED BY <1>5, <1>6, <2>1, <2>2
<1>7. ASSUME UNCHANGED channelVars, job' \in [Sessions -> Job]
      PROVE  ChannelTypeOK'
  BY <1>0, <1>7 DEF channelVars, ChannelTypeOK, Job
<1>8. ASSUME UNCHANGED channelVars, Finish(s)
      PROVE  ListInv'
  <2>1. job' \in [Sessions -> Job]
    BY <1>0, <1>8 DEF Finish, NoJob, Job
  <2> QED BY <1>6, <1>7, <1>8, <2>1 DEF channelVars
<1>9. ASSUME NEW j \in Job, job' = [job EXCEPT ![s] = j],
             UNCHANGED channelVars,
             NEW label \in ChannelLabels, Proceed(s, label),
             j.channel \in ChannelNames, attached[s],
             label \in {"kick", "kick_flags", "kick_list", "leave",
                        "leave_current", "leave_list"} => j.user \in UserIds,
             label \in {"kick", "kick_flags", "kick_list"} =>
               line[s].command = "/kick",
             label = "leave_current" => j.session \in Sessions,
             label \in {"sending", "deliver"} => listLock[j.channel] = s
      PROVE  ListInv'
  <2>1. job' \in [Sessions -> Job]
    BY <1>0, <1>9
  <2> QED BY <1>5, <1>7, <1>9, <2>1 DEF channelVars, Proceed
<1>10. job[s] \in Job /\ (UNCHANGED job => job' = [job EXCEPT ![s] = job[s]])
  BY <1>0
<1>11. CASE JoinHandler(s)
  <2> DEFINE j == [job[s] EXCEPT !.channel = line[s].channel]
  <2>1. CASE Finish(s)
    BY <1>8, <1>11, <2>1 DEF JoinHandler
  <2>2. CASE ~Finish(s)
    <3>1. /\ job' = [job EXCEPT ![s] = j]
          /\ Proceed(s, "join_kicked")
          /\ UNCHANGED channelVars
          /\ attached[s] /\ line[s].channel \in ChannelNames
      BY <1>0, <1>2, <1>11, <2>2 DEF JoinHandler, Handles
    <3>2. j \in Job /\ j.channel \in ChannelNames
      BY <1>10, <3>1 DEF Job
    <3> HIDE DEF j
    <3> QED BY <1>9, <3>1, <3>2 DEF ChannelLabels
  <2> QED BY <2>1, <2>2
<1>12. CASE JoinKickList(s) \/ KickFlags(s) \/ KickTargetFlags(s)
  <2>1. CASE Finish(s)
    BY <1>8, <1>12, <2>1 DEF JoinKickList, KickFlags, KickTargetFlags
  <2>2. CASE ~Finish(s)
    <3>1. UNCHANGED <<channelVars, job>>
      BY <1>12, <2>2 DEF JoinKickList, KickFlags, KickTargetFlags
    <3>2. /\ pc[s] \in ChannelLabels
          /\ pc[s] \in {"kick", "kick_flags"} \/ Proceed(s, "join_list")
          /\ \E label \in {"join_list", "kick_flags", "kick_list"} :
               Proceed(s, label)
      BY <1>12, <2>2
      DEF JoinKickList, KickFlags, KickTargetFlags, ChannelLabels
    <3>3. job[s].channel \in ChannelNames /\ attached[s]
      BY <1>3, <3>2 DEF JobOK
    <3>4. CASE Proceed(s, "join_list")
      BY <1>9, <1>10, <3>1, <3>3, <3>4 DEF ChannelLabels
    <3>5. CASE pc[s] \in {"kick", "kick_flags"}
      <4>1. job[s].user \in UserIds /\ line[s].command = "/kick"
        BY <1>3, <3>5 DEF JobOK
      <4> QED BY <1>9, <1>10, <3>1, <3>2, <3>3, <4>1 DEF ChannelLabels
    <3> QED BY <3>2, <3>4, <3>5
  <2> QED BY <2>1, <2>2
<1>13. CASE JoinList(s)
  <2> DEFINE c == job[s].channel
             j == [job[s] EXCEPT !.user =
                     IF mCurrentUser[s] \in members[c]
                       THEN 0 ELSE mCurrentUser[s]]
  <2>1. /\ job' = [job EXCEPT ![s] = j]
        /\ GoTo(s, "join_current")
        /\ UNCHANGED <<kicked, listLock, current, overtook>>
        /\ members' = [members EXCEPT ![c] = @ \union {mCurrentUser[s]}]
        /\ pc[s] = "join_list"
    BY <1>0, <1>13 DEF JoinList, Proceed
  <2>2. c \in ChannelNames /\ attached[s]
    BY <1>3, <2>1 DEF JobOK, ChannelLabels
  <2>3. j \in Job /\ j.channel = c
    BY <1>1, <1>10, <2>2 DEF Job
  <2>4. /\ members' \in [ChannelNames -> SUBSET UserIds]
        /\ job' \in [Sessions -> Job]
    BY <1>0, <1>1, <2>1, <2>2, <2>3
  <2>5. ChannelTypeOK'
    BY <1>0, <2>1, <2>4 DEF ChannelTypeOK, Job
  <2> HIDE DEF j
  <2> QED BY <1>5, <2>1, <2>2, <2>3, <2>5
<1>14. CASE JoinCurrent(s)
  <2>1. /\ job[s].channel \in ChannelNames /\ attached[s]
        /\ UNCHANGED listLock
    BY <1>3, <1>14 DEF JobOK, ChannelLabels, JoinCurrent
  <2>2. /\ current' \in [Sessions -> ChannelNames \union {NoChannel}]
        /\ UNCHANGED <<members, kicked, listLock, overtook>>
    BY <1>0, <1>14, <2>1 DEF JoinCurrent
  <2>3. CASE UNCHANGED job /\ Proceed(s, "send")
    <3>1. ChannelTypeOK'
      BY <1>0, <2>2, <2>3 DEF ChannelTypeOK, Job
    <3> QED BY <1>5, <1>10, <2>1, <2>3, <3>1 DEF Proceed
  <2>4. CASE Finish(s)
    <3>1. job' \in [Sessions -> Job]
      BY <1>0, <2>4 DEF Finish, NoJob, Job
    <3>2. ChannelTypeOK'
      BY <1>0, <2>2, <3>1 DEF ChannelTypeOK, Job
    <3> QED BY <1>6, <2>1, <2>4, <3>2
  <2> QED BY <1>14, <2>3, <2>4 DEF JoinCurrent
<1>15. CASE LeaveHandler(s)
  <2> DEFINE j == [job[s] EXCEPT !.channel = ChannelOf(s),
                                 !.user = mCurrentUser[s]]
  <2>1. CASE Finish(s)
    BY <1>8, <1>15, <2>1 DEF LeaveHandler
  <2>2. CASE ~Finish(s)
    <3>1. /\ job' = [job EXCEPT ![s] = j]
          /\ Proceed(s, "leave")
          /\ UNCHANGED channelVars
          /\ attached[s] /\ ChannelOf(s) # NoChannel /\ pc[s] = "dispatch"
      BY <1>0, <1>15, <2>2 DEF LeaveHandler, Handles
    <3>2. ChannelOf(s) \in ChannelNames
      BY <1>0, <1>2, <3>1 DEF ChannelOf
    <3>3. j \in Job /\ j.channel = ChannelOf(s) /\ j.user = mCurrentUser[s]
      BY <1>1, <1>10, <3>2 DEF Job
    <3> HIDE DEF j
    <3> QED BY <1>1, <1>9, <3>1, <3>2, <3>3 DEF ChannelLabels
  <2> QED BY <2>1, <2>2
<1>16. CASE LeaveChannel(s)
  <2> DEFINE j == [job[s] EXCEPT !.session = loggedInUsers[job[s].user]]
  <2>1. /\ job[s].channel \in ChannelNames /\ attached[s]
        /\ job[s].user \in UserIds
    BY <1>3, <1>16 DEF JobOK, ChannelLabels, LeaveChannel
  <2>2. /\ job' = [job EXCEPT ![s] = j]
        /\ UNCHANGED channelVars
        /\ \/ Proceed(s, "leave_list")
           \/ Proceed(s, "leave_current")
              /\ loggedInUsers[job[s].user] # NoSession
    BY <1>0, <1>16 DEF LeaveChannel
  <2>3. /\ j \in Job /\ j.channel = job[s].channel /\ j.user = job[s].user
        /\ j.session = loggedInUsers[job[s].user]
        /\ j.session \in Sessions \union {NoSession}
    BY <1>1, <1>10, <2>1 DEF Job
  <2> HIDE DEF j
  <2> QED BY <1>9, <2>1, <2>2, <2>3 DEF ChannelLabels
<1>17. CASE LeaveCurrent(s)
  <2>1. /\ job[s].channel \in ChannelNames /\ attached[s]
        /\ job[s].user \in UserIds /\ job[s].session \in Sessions
    BY <1>3, <1>17 DEF JobOK, ChannelLabels, LeaveCurrent
  <2>2. current' \in [Sessions -> ChannelNames \union {NoChannel}]
    BY <1>0, <1>17, <2>1 DEF LeaveCurrent
  <2>3. ChannelTypeOK'
    BY <1>0, <1>17, <2>2 DEF LeaveCurrent, ChannelTypeOK, Job
  <2> QED BY <1>5, <1>10, <1>17, <2>1, <2>3 DEF LeaveCurrent, Proceed
<1>18. CASE LeaveList(s)
  <2>1. job[s].channel \in ChannelNames /\ attached[s]
    BY <1>3, <1>18 DEF JobOK, ChannelLabels, LeaveList
  <2>2. /\ members' \in [ChannelNames -> SUBSET UserIds]
        /\ UNCHANGED <<kicked, listLock, current, overtook>>
    BY <1>0, <1>18, <2>1 DEF LeaveList
  <2>3. CASE UNCHANGED job /\ Proceed(s, "send")
    <3>1. ChannelTypeOK'
      BY <1>0, <2>2, <2>3 DEF ChannelTypeOK, Job
    <3> QED BY <1>5, <1>10, <2>1, <2>2, <2>3, <3>1 DEF Proceed
  <2>4. CASE Finish(s)
    <3>1. job' \in [Sessions -> Job]
      BY <1>0, <2>4 DEF Finish, NoJob, Job
    <3>2. ChannelTypeOK'
      BY <1>0, <2>2, <3>1 DEF ChannelTypeOK, Job
    <3> QED BY <1>6, <2>2, <2>4, <3>2
  <2> QED BY <1>18, <2>3, <2>4 DEF LeaveList
<1>19. CASE KickHandler(s)
  <2> DEFINE u == user_from_name(line[s].name).mUserID
             j == [job[s] EXCEPT !.channel = ChannelOf(s), !.user = u]
  <2>1. CASE Finish(s)
    BY <1>8, <1>19, <2>1 DEF KickHandler
  <2>2. CASE ~Finish(s)
    <3>1. /\ job' = [job EXCEPT ![s] = j]
          /\ Proceed(s, "kick")
          /\ UNCHANGED channelVars
          /\ attached[s] /\ ChannelOf(s) # NoChannel /\ u # 0
          /\ pc[s] = "dispatch" /\ line[s].command = "/kick"
      BY <1>0, <1>19, <2>2 DEF KickHandler, Handles
    <3>2. ChannelOf(s) \in ChannelNames /\ u \in UserIds
      BY <1>0, <1>2, <3>1 DEF ChannelOf
    <3> HIDE DEF u
    <3>3. j \in Job /\ j.channel = ChannelOf(s) /\ j.user = u
      BY <1>1, <1>10, <3>2 DEF Job
    <3> HIDE DEF j
    <3> QED BY <1>9, <3>1, <3>2, <3>3 DEF ChannelLabels
  <2> QED BY <2>1, <2>2
<1>20. CASE KickList(s)
  <2> DEFINE c == job[s].channel
             u == job[s].user
             j == [job[s] EXCEPT !.reason = Self(s).mUserID # 0]
  <2>1. c \in ChannelNames /\ attached[s] /\ u \in UserIds
    BY <1>3, <1>20 DEF JobOK, ChannelLabels, KickList
  <2>2. CASE Finish(s) /\ UNCHANGED <<kicked, overtook>>
    BY <1>8, <1>20, <2>2 DEF KickList, channelVars
  <2>3. CASE ~(Finish(s) /\ UNCHANGED <<kicked, overtook>>)
    <3>1. /\ job' = [job EXCEPT ![s] = j]
          /\ Proceed(s, "leave")
          /\ kicked' = [kicked EXCEPT ![c] = @ \union {u}]
          /\ overtook' = overtook \union
               (IF Joining(c, u) = {} THEN {} ELSE {<<c, u>>})
          /\ UNCHANGED <<members, listLock, current>>
      BY <1>0, <1>20, <2>3 DEF KickList
    <3>2. j \in Job /\ j.channel = c /\ j.user = u
      BY <1>10 DEF Job
    <3>3. /\ kicked' \in [ChannelNames -> SUBSET UserIds]
          /\ overtook' \subseteq ChannelNames \X UserIds
          /\ job' \in [Sessions -> Job]
      BY <1>0, <2>1, <3>1, <3>2
    <3>4. ChannelTypeOK'
      BY <1>0, <3>1, <3>3 DEF ChannelTypeOK, Job
    <3> HIDE DEF j
    <3> QED BY <1>5, <2>1, <3>1, <3>2, <3>4 DEF Proceed
  <2> QED BY <2>2, <2>3
<1>21. CASE ChatHandler(s)
  <2> DEFINE j == [job[s] EXCEPT !.channel = current[s]]
  <2>1. CASE Finish(s)
    BY <1>8, <1>21, <2>1 DEF ChatHandler
  <2>2. CASE ~Finish(s)
    <3>1. /\ job' = [job EXCEPT ![s] = j]
          /\ Proceed(s, "send")
          /\ UNCHANGED channelVars
          /\ attached[s] /\ current[s] \in ChannelNames
      BY <1>0, <1>21, <2>2 DEF ChatHandler, Handles
    <3>2. j \in Job /\ j.channel \in ChannelNames
      BY <1>10, <3>1 DEF Job
    <3> HIDE DEF j
    <3> QED BY <1>9, <3>1, <3>2 DEF ChannelLabels
  <2> QED BY <2>1, <2>2
<1>22. CASE BeginSend(s)
  <2> DEFINE c == job[s].channel
             j == [job[s] EXCEPT !.rest = members[c]]
  <2>1. c \in ChannelNames /\ attached[s]
    BY <1>3, <1>22 DEF JobOK, ChannelLabels, BeginSend
  <2>2. /\ job' = [job EXCEPT ![s] = j]
        /\ GoTo(s, "sending")
        /\ listLock[c] = NoSession
        /\ listLock' = [listLock EXCEPT ![c] = s]
        /\ UNCHANGED <<members, kicked, current, overtook>>
    BY <1>0, <1>22 DEF BeginSend, Proceed, ListLockFree
  <2>3. j \in Job /\ j.channel = c
    BY <1>0, <1>10, <2>1 DEF Job
  <2>4. /\ listLock' \in [ChannelNames -> Sessions \union {NoSession}]
        /\ job' \in [Sessions -> Job]
        /\ listLock'[c] = s
        /\ \A d \in ChannelNames :
             listLock[d] \notin {s, NoSession} => listLock'[d] = listLock[d]
    BY <1>0, <2>1, <2>2, <2>3
  <2>5. ChannelTypeOK'
    BY <1>0, <2>2, <2>4 DEF ChannelTypeOK, Job
  <2> HIDE DEF j
  <2> QED BY <1>5, <2>1, <2>2, <2>3, <2>4, <2>5
<1>23. CASE FindReceiver(s)
  <2>1. /\ job[s].channel \in ChannelNames /\ attached[s]
        /\ listLock[job[s].channel] = s
    BY <1>3, <1>23
    DEF JobOK, ChannelLabels, FindReceiver, ListInv, SenderHoldsLock, Sending
  <2>2. PICK u \in job[s].rest :
          /\ job' = [job EXCEPT ![s].rest = @ \ {u},
                                ![s].receiver = loggedInUsers[u]]
          /\ Proceed(s, IF loggedInUsers[u] = NoSession
                          THEN "sending" ELSE "deliver")
    BY <1>23 DEF FindReceiver
  <2> DEFINE j == [job[s] EXCEPT !.rest = @ \ {u},
                                 !.receiver = loggedInUsers[u]]
  <2>3. job' = [job EXCEPT ![s] = j] /\ UNCHANGED channelVars
    BY <1>0, <1>23, <2>2 DEF FindReceiver
  <2>4. j \in Job /\ j.channel = job[s].channel
    BY <1>1, <1>10 DEF Job
  <2> HIDE DEF j
  <2>5. CASE Proceed(s, "sending")
    BY <1>9, <2>1, <2>3, <2>4, <2>5 DEF ChannelLabels
  <2>6. CASE Proceed(s, "deliver")
    BY <1>9, <2>1, <2>3, <2>4, <2>6 DEF ChannelLabels
  <2> QED BY <2>2, <2>5, <2>6
<1>24. CASE Deliver(s)
  <2> DEFINE j == [job[s] EXCEPT !.receiver = NoSession]
  <2>1. /\ job[s].channel \in ChannelNames /\ attached[s]
        /\ listLock[job[s].channel] = s
    BY <1>3, <1>24
    DEF JobOK, ChannelLabels, Deliver, ListInv, SenderHoldsLock, Sending
  <2>2. /\ job' = [job EXCEPT ![s] = j] /\ UNCHANGED channelVars
        /\ Proceed(s, "sending")
    BY <1>0, <1>24 DEF Deliver
  <2>3. j \in Job /\ j.channel = job[s].channel
    BY <1>10 DEF Job
  <2> HIDE DEF j
  <2> QED BY <1>9, <2>1, <2>2, <2>3 DEF ChannelLabels
<1>25. CASE EndSend(s)
  <2>1. /\ job[s].channel \in ChannelNames /\ attached[s]
        /\ listLock[job[s].channel] = s
    BY <1>3, <1>25
    DEF JobOK, ChannelLabels, EndSend, ListInv, SenderHoldsLock, Sending
  <2>2. /\ listLock' = [listLock EXCEPT ![job[s].channel] = NoSession]
        /\ UNCHANGED <<members, kicked, current, overtook>>
    BY <1>25 DEF EndSend
  <2>3. /\ listLock' \in [ChannelNames -> Sessions \union {NoSession}]
        /\ \A d \in ChannelNames :
             listLock[d] \notin {s, NoSession} => listLock'[d] = listLock[d]
    BY <1>0, <2>1, <2>2
  <2>4. CASE UNCHANGED job /\ Proceed(s, "tell")
    <3>1. ChannelTypeOK'
      BY <1>0, <2>2, <2>3, <2>4 DEF ChannelTypeOK, Job
    <3> QED BY <1>5, <1>10, <2>1, <2>3, <2>4, <3>1 DEF Proceed
  <2>5. CASE Finish(s)
    <3>1. job' \in [Sessions -> Job]
      BY <1>0, <2>5 DEF Finish, NoJob, Job
    <3>2. ChannelTypeOK'
      BY <1>0, <2>2, <2>3, <3>1 DEF ChannelTypeOK, Job
    <3> QED BY <1>6, <2>3, <2>5, <3>2
  <2> QED BY <1>25, <2>4, <2>5 DEF EndSend
<1>26. CASE TellKicked(s)
  BY <1>8, <1>26 DEF TellKicked
<1> QED BY <1>11, <1>12, <1>13, <1>14, <1>15, <1>16, <1>17, <1>18, <1>19,
           <1>20, <1>21, <1>22, <1>23, <1>24, <1>25, <1>26 DEF ChannelStep

\* Every step keeps it.
LEMMA ListInvStep ==
  ASSUME ThreadOK, UserInv, ListInv, [ChannelNext]_allVars
  PROVE  ListInv'
PROOF
<1>1. CASE UNCHANGED <<vars, channelVars, job>>
  BY <1>1 DEF vars, threadVars, userVars, channelVars, ListInv, ChannelTypeOK,
              JobOK, SenderHoldsLock, Sending
<1>2. CASE EndChannels
  <2>1. \A s \in Sessions : pc'[s] = "done"
    BY <1>2, EndChannelsFacts
  <2>2. JobOK' /\ SenderHoldsLock'
    BY <2>1 DEF JobOK, SenderHoldsLock, Sending, ChannelLabels
  <2>3. ChannelTypeOK'
    BY <1>2 DEF EndChannels, ListInv, ChannelTypeOK, NoJob
  <2> QED BY <2>2, <2>3 DEF ListInv
<1> QED BY <1>1, <1>2, UserMoves, UserMoveList, ChannelStepList
        DEF ChannelNext, allVars, Finished

\* It holds at the start, where no thread has begun.
LEMMA InitListInv == ChannelInit => ListInv
PROOF
<1> SUFFICES ASSUME ChannelInit PROVE ListInv
  OBVIOUS
<1>1. ChannelTypeOK
  BY DEF ChannelInit, ChannelTypeOK, NoJob
<1>2. \A s \in Sessions : pc[s] = "unborn"
  BY DEF ChannelInit, Init
<1> QED BY <1>1, <1>2
        DEF ListInv, JobOK, SenderHoldsLock, Sending, ChannelLabels

\* All of the invariant so far.
LEMMA ListInvariant == ChannelSpec => [](ThreadOK /\ UserInv /\ ListInv)
PROOF
<1>1. ThreadOK /\ UserInv /\ ListInv /\ [ChannelNext]_allVars => ListInv'
  BY ListInvStep
<1> QED BY <1>1, InitListInv, RefinementInvariant, PTL DEF ChannelSpec

\* The channels' variables keep their types.
THEOREM ChannelTypeCorrect == ChannelSpec => []ChannelTypeOK
PROOF
<1>1. ListInv => ChannelTypeOK
  BY DEF ListInv
<1> QED BY <1>1, ListInvariant, PTL

\* Two messages to one channel never go out at the same time.
THEOREM OneSender == ChannelSpec => []OneAtATime
PROOF
<1>1. ListInv => OneAtATime
  BY DEF ListInv, SenderHoldsLock, OneAtATime
<1> QED BY <1>1, ListInvariant, PTL

(***************************************************************************)
(* While sendln goes through a channel's mUsers, nobody appends to it or   *)
(* erases from it: its iterators stay valid, however joins, leaves, kicks  *)
(* and messages of all the threads interleave.                             *)
(***************************************************************************)
THEOREM ListStaysStill == ChannelSpec => ListKeepsStill
PROOF
<1> DEFINE Still == \A s \in Sessions :
             Sending(s) /\ pc'[s] # "done" =>
               members'[job[s].channel] = members[job[s].channel]
<1>1. ASSUME ThreadOK, UserInv, ListInv, ChannelNext, NEW s \in Sessions,
             Sending(s), pc'[s] # "done"
      PROVE  members'[job[s].channel] = members[job[s].channel]
  <2>1. job[s].channel \in ChannelNames /\ listLock[job[s].channel] = s
    BY <1>1 DEF ListInv, JobOK, SenderHoldsLock, Sending, ChannelLabels
  <2>2. CASE UNCHANGED members
    BY <2>2
  <2>3. ASSUME NEW t \in Sessions, JoinList(t) \/ LeaveList(t)
        PROVE  members'[job[s].channel] = members[job[s].channel]
    <3>1. listLock[job[t].channel] = NoSession
      BY <2>3 DEF JoinList, LeaveList, ListLockFree
    <3>2. job[t].channel # job[s].channel
      BY <2>1, <3>1, SessionsAssumption
    <3>3. members \in [ChannelNames -> SUBSET UserIds]
      BY <1>1 DEF ListInv, ChannelTypeOK
    <3> QED BY <2>1, <2>3, <3>2, <3>3 DEF JoinList, LeaveList
  <2>4. ASSUME NEW t \in Sessions, ChannelStep(t), ~JoinList(t), ~LeaveList(t)
        PROVE  UNCHANGED members
    BY <2>4 DEF ChannelStep, JoinHandler, JoinKickList, JoinCurrent,
         LeaveHandler, LeaveChannel, LeaveCurrent, KickHandler, KickFlags,
         KickTargetFlags, KickList, ChatHandler, BeginSend, FindReceiver,
         Deliver, EndSend, TellKicked, channelVars
  <2>5. ASSUME NEW t \in Sessions, UserStep(t)
        PROVE  UNCHANGED members
    BY <2>5 DEF UserStep, channelVars
  <2>6. ~EndChannels
    BY <1>1, EndChannelsFacts
  <2> QED BY <1>1, <2>2, <2>3, <2>4, <2>5, <2>6 DEF ChannelNext, channelVars
<1>2. ASSUME ThreadOK, UserInv, ListInv, [ChannelNext]_allVars
      PROVE  [Still]_allVars
  BY <1>1, <1>2
<1>3. ThreadOK /\ UserInv /\ ListInv /\ [ChannelNext]_allVars
      => [Still]_allVars
  BY <1>2
<1> QED BY <1>3, ListInvariant, PTL DEF ChannelSpec, ListKeepsStill

-----------------------------------------------------------------------------
(* Kicks                                                                   *)

\* A join that goes on although its user was kicked was overtaken by the kick.
LateJoins ==
  \A s \in Sessions :
    pc[s] = "join_list" /\ mCurrentUser[s] \in kicked[job[s].channel]
      => <<job[s].channel, mCurrentUser[s]>> \in overtook

\* The inductive invariant for kicks.
KickInv == KickedStaysOut /\ LateJoins

\* A thread at one of these labels is about to take a user out of a channel.
LeaveLabels == {"leave", "leave_current", "leave_list"}

\* A step outside the channels' commands leaves channels and kicks alone.
LEMMA UserMoveKick ==
  ASSUME ThreadOK, UserInv, ListInv, KickInv, NEW s \in Sessions, UserMove(s)
  PROVE  KickInv'
PROOF
<1>1. /\ \A t \in Sessions :
           pc[t] \in ChannelLabels \/ pc'[t] \in ChannelLabels =>
             pc'[t] = pc[t] /\ line'[t] = line[t]
      /\ UNCHANGED <<members, kicked, overtook, job>>
  BY LabelFacts DEF UserMove, channelVars
<1>2. \A t \in Sessions :
        pc'[t] \in ChannelLabels => mCurrentUser'[t] = mCurrentUser[t]
  BY <1>1 DEF ListInv, JobOK, UserMove
<1>3. \A c, u : BeingKicked(c, u) => BeingKicked(c, u)'
  BY <1>1 DEF BeingKicked, ChannelLabels
<1>4. KickedStaysOut'
  BY <1>1, <1>3 DEF KickInv, KickedStaysOut
<1>5. LateJoins'
  BY <1>1, <1>2 DEF KickInv, LateJoins, ChannelLabels
<1> QED BY <1>4, <1>5 DEF KickInv

\* The local variables of other threads stay as they are.
LEMMA JobIsOwn ==
  ASSUME ListInv, NEW s \in Sessions, ChannelStep(s)
  PROVE  \A t \in Sessions \ {s} : job'[t] = job[t]
PROOF
<1>1. job \in [Sessions -> Job]
  BY DEF ListInv, ChannelTypeOK, Job
<1> QED BY <1>1
        DEF ChannelStep, JoinHandler, JoinKickList, JoinList, JoinCurrent,
            LeaveHandler, LeaveChannel, LeaveCurrent, LeaveList, KickHandler,
            KickFlags, KickTargetFlags, KickList, ChatHandler, BeginSend,
            FindReceiver, Deliver, EndSend, TellKicked, Finish

\* What a step of a channel's command does about members and kick lists.
LEMMA ChannelStepEffects ==
  ASSUME ThreadOK, UserInv, ListInv, NEW s \in Sessions, ChannelStep(s)
  PROVE  /\ UNCHANGED <<mCurrentUser, line>> \/ pc'[s] = "idle"
         /\ UNCHANGED members
            \/ (JoinList(s) /\ pc[s] = "join_list")
            \/ (LeaveList(s) /\ pc[s] = "leave_list")
         /\ UNCHANGED <<kicked, overtook>> \/ (KickList(s) /\ pc'[s] = "leave")
         /\ pc'[s] = "join_list" =>
              /\ mCurrentUser[s] \notin kicked[job[s].channel]
              /\ UNCHANGED <<kicked, job>>
         /\ pc[s] \in LeaveLabels =>
              \/ pc[s] = "leave_list"
              \/ /\ pc'[s] \in LeaveLabels
                 /\ job'[s].channel = job[s].channel
                 /\ job'[s].user = job[s].user
PROOF
<1> USE DEF Finish, Return, Proceed, GoTo, channelVars
<1>0. /\ pc \in [Sessions -> Labels \union ChannelLabels]
      /\ job \in [Sessions -> Job]
      /\ ChannelMove(s)
  BY ChannelStepMoves DEF ThreadOK, ListInv, ChannelTypeOK, Job
<1>1. UNCHANGED <<mCurrentUser, line>> \/ pc'[s] = "idle"
  BY <1>0 DEF ChannelMove, otherVars, userVars
<1>2. \/ UNCHANGED members
      \/ (JoinList(s) /\ pc[s] = "join_list")
      \/ (LeaveList(s) /\ pc[s] = "leave_list")
  BY DEF ChannelStep, JoinHandler, JoinKickList, JoinList, JoinCurrent,
         LeaveHandler, LeaveChannel, LeaveCurrent, LeaveList, KickHandler,
         KickFlags, KickTargetFlags, KickList, ChatHandler, BeginSend,
         FindReceiver, Deliver, EndSend, TellKicked
<1>3. UNCHANGED <<kicked, overtook>> \/ (KickList(s) /\ pc'[s] = "leave")
  <2>1. CASE KickList(s)
    BY <1>0, <2>1 DEF KickList
  <2>2. CASE ~KickList(s)
    BY <2>2
    DEF ChannelStep, JoinHandler, JoinKickList, JoinList, JoinCurrent,
         LeaveHandler, LeaveChannel, LeaveCurrent, LeaveList, KickHandler,
         KickFlags, KickTargetFlags, ChatHandler, BeginSend,
         FindReceiver, Deliver, EndSend, TellKicked
  <2> QED BY <2>1, <2>2
<1>4. ASSUME pc'[s] = "join_list"
      PROVE  /\ mCurrentUser[s] \notin kicked[job[s].channel]
             /\ UNCHANGED <<kicked, job>>
  <2>1. CASE JoinKickList(s)
    BY <1>0, <1>4, <2>1 DEF JoinKickList
  <2>2. CASE ~JoinKickList(s)
    <3>1. \/ JoinHandler(s) \/ JoinList(s) \/ JoinCurrent(s)
          \/ LeaveHandler(s) \/ LeaveChannel(s) \/ LeaveCurrent(s)
          \/ LeaveList(s)
          => FALSE
      BY <1>0, <1>4
      DEF JoinHandler, JoinList, JoinCurrent, LeaveHandler,
          LeaveChannel, LeaveCurrent, LeaveList
    <3>2. KickHandler(s) \/ KickFlags(s) \/ KickTargetFlags(s) \/ KickList(s)
          => FALSE
      BY <1>0, <1>4 DEF KickHandler, KickFlags, KickTargetFlags, KickList
    <3>3. \/ ChatHandler(s) \/ BeginSend(s) \/ FindReceiver(s)
          \/ Deliver(s) \/ EndSend(s) \/ TellKicked(s)
          => FALSE
      BY <1>0, <1>4
      DEF ChatHandler, BeginSend, FindReceiver, Deliver, EndSend, TellKicked
    <3> QED BY <2>2, <3>1, <3>2, <3>3 DEF ChannelStep
  <2> QED BY <2>1, <2>2
<1>5. ASSUME pc[s] \in LeaveLabels, pc[s] # "leave_list"
      PROVE  /\ pc'[s] \in LeaveLabels
             /\ job'[s].channel = job[s].channel
             /\ job'[s].user = job[s].user
  <2>1. LeaveChannel(s) \/ LeaveCurrent(s)
    BY <1>5
    DEF LeaveLabels, ChannelStep, JoinHandler, JoinKickList, JoinList,
        JoinCurrent, LeaveHandler, LeaveList, KickHandler, KickFlags,
        KickTargetFlags, KickList, ChatHandler, BeginSend, FindReceiver,
        Deliver, EndSend, TellKicked, Handles
  <2>2. job[s] \in Job
    BY <1>0
  <2>3. pc'[s] \in LeaveLabels
    BY <1>0, <2>1 DEF LeaveChannel, LeaveCurrent, LeaveLabels
  <2>4. CASE LeaveCurrent(s)
    BY <2>3, <2>4 DEF LeaveCurrent
  <2>5. CASE LeaveChannel(s)
    <3>1. job' = [job EXCEPT ![s].session = loggedInUsers[job[s].user]]
      BY <2>5 DEF LeaveChannel
    <3> QED BY <1>0, <2>2, <2>3, <3>1 DEF Job
  <2> QED BY <2>1, <2>4, <2>5
<1> QED BY <1>1, <1>2, <1>3, <1>4, <1>5

\* The steps of the channels' commands keep the invariant for kicks.
LEMMA ChannelStepKick ==
  ASSUME ThreadOK, UserInv, ListInv, KickInv, NEW s \in Sessions,
         ChannelStep(s)
  PROVE  KickInv'
PROOF
<1>0. /\ \A t \in Sessions \ {s} :
           /\ pc'[t] = pc[t] /\ line'[t] = line[t] /\ job'[t] = job[t]
      /\ UNCHANGED mCurrentUser
      /\ members \in [ChannelNames -> SUBSET UserIds]
      /\ kicked \in [ChannelNames -> SUBSET UserIds]
      /\ job \in [Sessions -> Job]
  <2>1. ChannelMove(s)
    BY ChannelStepMoves
  <2>2. /\ members \in [ChannelNames -> SUBSET UserIds]
        /\ kicked \in [ChannelNames -> SUBSET UserIds]
        /\ job \in [Sessions -> Job]
    BY DEF ListInv, ChannelTypeOK, Job
  <2> QED BY <2>1, <2>2, ChannelMoveFacts, JobIsOwn
<1>1. overtook \subseteq overtook'
  BY ChannelStepEffects DEF KickList
<1>2. ASSUME KickList(s), pc'[s] = "leave"
      PROVE  /\ job[s].channel \in ChannelNames
             /\ job'[s].channel = job[s].channel
             /\ job'[s].user = job[s].user
             /\ line'[s].command = "/kick"
             /\ kicked' =
                  [kicked EXCEPT ![job[s].channel] = @ \union {job[s].user}]
             /\ overtook' = overtook \union
                  (IF Joining(job[s].channel, job[s].user) = {} THEN {}
                   ELSE {<<job[s].channel, job[s].user>>})
  <2>1. ~Finish(s)
    BY <1>2, ThreadOK DEF Finish, Return, GoTo, ThreadOK
  <2>2. /\ pc[s] = "kick_list"
        /\ kicked' = [kicked EXCEPT ![job[s].channel] = @ \union {job[s].user}]
        /\ overtook' = overtook \union
             (IF Joining(job[s].channel, job[s].user) = {} THEN {}
              ELSE {<<job[s].channel, job[s].user>>})
        /\ job' = [job EXCEPT ![s].reason = Self(s).mUserID # 0]
        /\ UNCHANGED line
    BY <1>2, <2>1 DEF KickList, Proceed
  <2>3. job[s].channel \in ChannelNames /\ line[s].command = "/kick"
    BY <2>2 DEF ListInv, JobOK, ChannelLabels
  <2>4. job'[s].channel = job[s].channel /\ job'[s].user = job[s].user
    BY <1>0, <2>2 DEF Job
  <2> QED BY <2>2, <2>3, <2>4
<1>3. KickedStaysOut'
  <2> SUFFICES ASSUME NEW c \in ChannelNames, NEW u \in UserIds,
                      u \in kicked'[c], u \in members'[c],
                      <<c, u>> \notin overtook'
               PROVE  BeingKicked(c, u)'
    <3>1. kicked' \in [ChannelNames -> SUBSET UserIds]
      BY ChannelStepList DEF ListInv, ChannelTypeOK
    <3> QED BY <3>1 DEF KickedStaysOut
  <2>1. CASE u \notin kicked[c]
    <3>1. KickList(s) /\ pc'[s] = "leave"
      BY <2>1, ChannelStepEffects
    <3>2. job'[s].channel = c /\ job'[s].user = u
      BY <1>0, <1>2, <2>1, <3>1
    <3> QED BY <1>2, <3>1, <3>2 DEF BeingKicked
  <2>2. CASE u \notin members[c] /\ u \in kicked[c]
    <3>1. ~LeaveList(s)
      BY <1>0, <2>2 DEF LeaveList
    <3>2. JoinList(s) /\ pc[s] = "join_list"
      BY <2>2, <3>1, ChannelStepEffects
    <3>3. u = mCurrentUser[s] /\ c = job[s].channel
      BY <1>0, <2>2, <3>2 DEF JoinList
    <3> QED BY <1>1, <2>2, <3>2, <3>3 DEF KickInv, LateJoins
  <2>3. CASE u \in members[c] /\ u \in kicked[c]
    <3>1. PICK t \in Sessions :
            /\ line[t].command = "/kick"
            /\ pc[t] \in LeaveLabels
            /\ job[t].channel = c
            /\ job[t].user = u
      BY <1>1, <2>3 DEF KickInv, KickedStaysOut, BeingKicked, LeaveLabels
    <3>2. CASE t # s
      BY <1>0, <3>1, <3>2 DEF BeingKicked, LeaveLabels
    <3>3. CASE t = s
      <4>1. pc[s] # "leave_list"
        <5>1. SUFFICES ASSUME pc[s] = "leave_list" PROVE FALSE
          OBVIOUS
        <5>2. LeaveList(s)
          BY <5>1
          DEF ChannelStep, JoinHandler, JoinKickList, JoinList, JoinCurrent,
              LeaveHandler, LeaveChannel, LeaveCurrent, KickHandler, KickFlags,
              KickTargetFlags, KickList, ChatHandler, BeginSend, FindReceiver,
              Deliver, EndSend, TellKicked, Handles
        <5> QED BY <1>0, <3>1, <3>3, <5>2 DEF LeaveList
      <4>2. /\ pc'[s] \in LeaveLabels
            /\ job'[s].channel = c /\ job'[s].user = u
        BY <3>1, <3>3, <4>1, ChannelStepEffects
      <4>3. UNCHANGED line
        BY <4>2, ChannelStepEffects DEF LeaveLabels
      <4> QED BY <3>1, <3>3, <4>2, <4>3 DEF BeingKicked, LeaveLabels
    <3> QED BY <3>2, <3>3
  <2> QED BY <2>1, <2>2, <2>3
<1>4. LateJoins'
  <2> SUFFICES ASSUME NEW t \in Sessions, pc'[t] = "join_list",
                      mCurrentUser[t] \in kicked'[job'[t].channel]
               PROVE  <<job'[t].channel, mCurrentUser[t]>> \in overtook'
    BY <1>0 DEF LateJoins
  <2>1. t # s
    BY ChannelStepEffects
  <2>2. /\ pc[t] = "join_list" /\ job'[t] = job[t]
        /\ job[t].channel \in ChannelNames
    BY <1>0, <2>1 DEF ListInv, JobOK, ChannelLabels
  <2>3. CASE mCurrentUser[t] \in kicked[job[t].channel]
    BY <1>1, <2>2, <2>3 DEF KickInv, LateJoins
  <2>4. CASE mCurrentUser[t] \notin kicked[job[t].channel]
    <3>1. KickList(s) /\ pc'[s] = "leave"
      BY <2>2, <2>4, ChannelStepEffects
    <3>2. job[t].channel = job[s].channel /\ mCurrentUser[t] = job[s].user
      BY <1>0, <1>2, <2>2, <2>4, <3>1
    <3>3. t \in Joining(job[s].channel, job[s].user)
      BY <2>2, <3>2 DEF Joining
    <3> QED BY <1>2, <2>2, <3>1, <3>2, <3>3
  <2> QED BY <2>3, <2>4
<1> QED BY <1>3, <1>4 DEF KickInv

(***************************************************************************)
(* A kicked user is out of the channel as soon as the kick is through, and *)
(* no join brings it back, except one that had passed the kick list when   *)
(* the kick came (eleven_channel.cpp:84, 216): however many threads join,  *)
(* leave and kick, for any users and channels.                             *)
(***************************************************************************)
THEOREM KickedUsersStayOut == ChannelSpec => []KickedStaysOut
PROOF
<1>1. ChannelInit => KickInv
  BY DEF ChannelInit, Init, KickInv, KickedStaysOut, LateJoins
<1>2. ASSUME ThreadOK, UserInv, ListInv, KickInv, [ChannelNext]_allVars
      PROVE  KickInv'
  <2>1. CASE UNCHANGED <<vars, channelVars, job>>
    BY <1>2, <2>1
    DEF vars, threadVars, userVars, channelVars, KickInv, KickedStaysOut,
        BeingKicked, LateJoins
  <2>2. CASE EndChannels
    BY <2>2, EndChannelsFacts DEF KickInv, KickedStaysOut, LateJoins
  <2> QED BY <1>2, <2>1, <2>2, UserMoves, UserMoveKick, ChannelStepKick
          DEF ChannelNext, allVars, Finished
<1>3. ThreadOK /\ UserInv /\ ListInv /\ KickInv /\ [ChannelNext]_allVars
      => KickInv'
  BY <1>2
<1>4. KickInv => KickedStaysOut
  BY DEF KickInv
<1> QED BY <1>1, <1>3, <1>4, ListInvariant, PTL DEF ChannelSpec

-----------------------------------------------------------------------------
(* Waiting                                                                 *)

\* Only a thread that sends to a channel keeps its mUserListLock.
HolderSends ==
  \A c \in ChannelNames :
    listLock[c] # NoSession =>
      Sending(listLock[c]) /\ job[listLock[c]].channel = c

\* The steps of the channels' commands keep it: mUserListLock is taken where
\* sendln begins, let go of where it ends, and kept in between.
LEMMA ChannelStepHolds ==
  ASSUME ThreadOK, UserInv, ListInv, HolderSends, NEW s \in Sessions,
         ChannelStep(s)
  PROVE  HolderSends'
PROOF
<1> USE DEF Proceed, GoTo
<1>0. /\ pc \in [Sessions -> Labels \union ChannelLabels]
      /\ job \in [Sessions -> Job]
      /\ listLock \in [ChannelNames -> Sessions \union {NoSession}]
      /\ job[s].channel \in ChannelNames \union {NoChannel}
      /\ Sending(s) => job[s].channel \in ChannelNames
      /\ NoSession \notin Sessions
  BY SessionsAssumption
  DEF ThreadOK, ListInv, ChannelTypeOK, Job, JobOK, Sending, ChannelLabels
<1>1. ASSUME NEW t \in Sessions \ {s}
      PROVE  pc'[t] = pc[t] /\ job'[t] = job[t]
  BY <1>0, ChannelStepMoves, ChannelMoveFacts, JobIsOwn
<1>2. ASSUME NEW c \in ChannelNames, listLock'[c] = listLock[c],
             listLock[c] # NoSession, listLock[c] # s
      PROVE  Sending(listLock[c])' /\ job'[listLock[c]].channel = c
  BY <1>0, <1>1, <1>2 DEF HolderSends, Sending
<1>3. CASE BeginSend(s)
  <2>1. job[s].channel \in ChannelNames
    BY <1>3 DEF BeginSend, ListInv, JobOK, ChannelLabels
  <2>2. /\ pc'[s] = "sending"
        /\ job'[s].channel = job[s].channel
        /\ listLock' = [listLock EXCEPT ![job[s].channel] = s]
        /\ pc[s] = "send"
    BY <1>0, <1>3 DEF BeginSend, Job
  <2>3. \A c \in ChannelNames : listLock[c] # s
    BY <1>0, <2>2 DEF HolderSends, Sending
  <2> QED BY <1>0, <1>2, <2>1, <2>2, <2>3 DEF HolderSends, Sending
<1>4. CASE EndSend(s)
  <2>1. pc[s] = "sending" /\ job[s].channel \in ChannelNames
    BY <1>0, <1>4 DEF EndSend, Sending
  <2>2. listLock' = [listLock EXCEPT ![job[s].channel] = NoSession]
    BY <1>4 DEF EndSend
  <2>3. \A c \in ChannelNames : listLock[c] = s => c = job[s].channel
    BY <1>0 DEF HolderSends
  <2> QED BY <1>0, <1>2, <2>1, <2>2, <2>3 DEF HolderSends
<1>5. CASE FindReceiver(s) \/ Deliver(s)
  <2>1. listLock' = listLock /\ pc'[s] \in {"sending", "deliver"}
    BY <1>0, <1>5 DEF FindReceiver, Deliver, channelVars
  <2>2. job'[s].channel = job[s].channel
    <3>1. job[s] \in Job
      BY <1>0
    <3>2. CASE FindReceiver(s)
      <4>1. PICK u \in job[s].rest :
              job' = [job EXCEPT ![s].rest = @ \ {u},
                                 ![s].receiver = loggedInUsers[u]]
        BY <3>2 DEF FindReceiver
      <4>2. job'[s] = [job[s] EXCEPT !.rest = @ \ {u},
                                     !.receiver = loggedInUsers[u]]
        BY <1>0, <4>1
      <4> QED BY <3>1, <4>2 DEF Job
    <3>3. CASE Deliver(s)
      BY <1>0, <3>1, <3>3 DEF Deliver, Job
    <3> QED BY <1>5, <3>2, <3>3
  <2> QED BY <1>0, <1>2, <2>1, <2>2 DEF HolderSends, Sending
<1>6. CASE ~ (BeginSend(s) \/ EndSend(s) \/ FindReceiver(s) \/ Deliver(s))
  <2>1. listLock' = listLock /\ pc[s] \notin {"sending", "deliver"}
    BY <1>6
    DEF ChannelStep, JoinHandler, JoinKickList, JoinList, JoinCurrent,
        LeaveHandler, LeaveChannel, LeaveCurrent, LeaveList, KickHandler,
        KickFlags, KickTargetFlags, KickList, ChatHandler, TellKicked,
        Handles, channelVars
  <2>2. \A c \in ChannelNames : listLock[c] # s
    BY <1>0, <2>1 DEF HolderSends, Sending
  <2> QED BY <1>0, <1>2, <2>1, <2>2 DEF HolderSends
<1> QED BY <1>3, <1>4, <1>5, <1>6

\* Every step keeps it.
LEMMA HolderSendsStep ==
  ASSUME ThreadOK, UserInv, ListInv, HolderSends, [ChannelNext]_allVars
  PROVE  HolderSends'
PROOF
<1>1. CASE UNCHANGED <<vars, channelVars, job>>
  BY <1>1 DEF vars, threadVars, channelVars, HolderSends, Sending
<1>2. ASSUME NEW s \in Sessions, UserMove(s)
      PROVE  HolderSends'
  <2>1. /\ listLock \in [ChannelNames -> Sessions \union {NoSession}]
        /\ \A c \in ChannelNames :
             listLock[c] # NoSession => pc[listLock[c]] \in ChannelLabels
    BY DEF ListInv, ChannelTypeOK, HolderSends, Sending, ChannelLabels
  <2>2. pc[s] \notin ChannelLabels
    BY <1>2, LabelFacts DEF UserMove
  <2>3. UNCHANGED <<listLock, job>>
        /\ \A t \in Sessions \ {s} : pc'[t] = pc[t]
    BY <1>2 DEF UserMove, channelVars
  <2> QED BY <2>1, <2>2, <2>3 DEF HolderSends, Sending
<1>3. CASE EndChannels
  BY <1>3, EndChannelsFacts DEF HolderSends
<1> QED BY <1>1, <1>2, <1>3, UserMoves, ChannelStepHolds
        DEF ChannelNext, allVars, Finished

\* Whoever keeps usersLock waits for a session, or is about to let go of it.
LEMMA UsersLockHolder ==
  ASSUME ThreadOK, UserInv, NEW t \in Sessions, usersLock = t
  PROVE  pc[t] \in {"evict", "ban", "warn", "sweep"}
PROOF
<1>1. UserPc[t] \in {"evict", "ban", "warn", "sweep"}
  BY DEF UserInv, UserProofs!RegistryInv, UserProofs!LockOK, UserProofs!Holding
<1> QED BY <1>1, UserPcOK DEF ThreadOK, Labels

(***************************************************************************)
(* The threads never wait for each other in a circle, whoever logs in,     *)
(* bans, shuts down, talks, joins, leaves and kicks at the same time: there *)
(* is an order in which the locks are taken.  Who holds a mUserListLock    *)
(* waits at most for who holds usersLock, who holds usersLock at most for  *)
(* a thread in readln, and that one only for its client.                   *)
(***************************************************************************)
THEOREM NobodyWaitsInACircle == ChannelSpec => []NoCircularWait
PROOF
<1>1. ThreadOK /\ UserInv /\ ListInv /\ HolderSends => NoCircularWait
  <2> SUFFICES ASSUME ThreadOK, UserInv, ListInv, HolderSends,
                      NEW S \in SUBSET Sessions, S # {}
               PROVE  \E s \in S : \A t \in S : ~ WaitsFor(s, t)
    BY DEF NoCircularWait
  <2> DEFINE Holders == {"evict", "ban", "warn", "sweep"}
  <2>1. \A t \in S : usersLock = t => pc[t] \in Holders
    BY UsersLockHolder
  <2>2. ASSUME NEW s \in S, NeedsListLock(s), NEW t \in S,
               listLock[job[s].channel] = t
        PROVE  pc[t] \in {"sending", "deliver"}
    <3>1. job[s].channel \in ChannelNames
      BY <2>2 DEF NeedsListLock, ListInv, JobOK, ChannelLabels
    <3>2. t # NoSession
      BY SessionsAssumption
    <3> QED BY <2>2, <3>1, <3>2 DEF HolderSends, Sending
  <2>3. CASE \E s \in S : pc[s] = "reading"
    <3>1. PICK s \in S : pc[s] = "reading"
      BY <2>3
    <3> QED BY <3>1
            DEF WaitsFor, NeedsUsersLock, NeedsSessionLock, NeedsListLock
  <2>4. CASE /\ \A t \in S : pc[t] # "reading"
             /\ \E s \in S : pc[s] \in Holders
    <3>1. PICK s \in S : pc[s] \in Holders
      BY <2>4
    <3> QED BY <2>4, <3>1 DEF WaitsFor, NeedsUsersLock, NeedsListLock
  <2>5. CASE /\ \A t \in S : pc[t] # "reading" /\ pc[t] \notin Holders
             /\ \E s \in S : pc[s] \in {"sending", "deliver"}
    <3>1. PICK s \in S : pc[s] \in {"sending", "deliver"}
      BY <2>5
    <3> QED BY <2>1, <2>5, <3>1 DEF WaitsFor, NeedsListLock
  <2>6. CASE \A t \in S : /\ pc[t] # "reading" /\ pc[t] \notin Holders
                          /\ pc[t] \notin {"sending", "deliver"}
    <3>1. PICK s \in S : TRUE
      OBVIOUS
    <3> QED BY <2>1, <2>2, <2>6 DEF WaitsFor
  <2> QED BY <2>3, <2>4, <2>5, <2>6
<1>2. ChannelInit => HolderSends
  BY DEF ChannelInit, HolderSends
<1>3. ThreadOK /\ UserInv /\ ListInv /\ HolderSends /\ [ChannelNext]_allVars
      => HolderSends'
  BY HolderSendsStep
<1> QED BY <1>1, <1>2, <1>3, ListInvariant, PTL DEF ChannelSpec

-----------------------------------------------------------------------------
(* Owners and moderators                                                   *)

\* A user's record becomes one of those of the start (again).
Restored ==
  \E u \in UserIds : mUsers'[u] # mUsers[u] /\ mUsers'[u] \in Accounts

\* What a thread that goes on with a kick has found out: its user may act and,
\* after the second look, the user it kicks is no owner if its own is a
\* moderator.  It holds as long as the records of both are those of the start.
MayKick ==
  \A s \in Sessions : Self(s) \in Accounts =>
    /\ pc[s] = "kick_flags" => Acting(Self(s))
    /\ (/\ pc[s] = "kick_list"
        /\ HasFlag(Self(s), "moderator")
        /\ user_from_id(job[s].user) \in Accounts)
       => ~HasFlag(user_from_id(job[s].user), "owner")

\* A user who has the record of the start has had it before the step.
LEMMA RecordStays ==
  ASSUME ~Restored, NEW u, user_from_id(u)' \in Accounts
  PROVE  user_from_id(u)' = user_from_id(u)
PROOF
<1>1. NoUser \notin Accounts
  BY NoUserIsNoUser, DatabaseAssumption
<1> QED BY <1>1 DEF Restored, user_from_id

\* The two lookups of kick_user find out what MayKick says.
LEMMA KickLookups ==
  ASSUME ThreadOK, UserInv, ListInv, MayKick, NEW s \in Sessions,
         ChannelStep(s), Self(s) \in Accounts
  PROVE  /\ pc'[s] = "kick_flags" => Acting(Self(s))
         /\ (/\ pc'[s] = "kick_list"
             /\ HasFlag(Self(s), "moderator")
             /\ user_from_id(job'[s].user) \in Accounts)
            => ~HasFlag(user_from_id(job'[s].user), "owner")
PROOF
<1> USE DEF Finish, Return, Proceed, GoTo
<1>0. /\ pc \in [Sessions -> Labels \union ChannelLabels]
      /\ Self(s).mUserID # 0
  BY DatabaseAssumption DEF ThreadOK, User, UserIds
<1>1. CASE KickFlags(s)
  BY <1>0, <1>1 DEF KickFlags, HasFlag
<1>2. CASE KickTargetFlags(s)
  <2>1. pc'[s] # "kick_flags"
    BY <1>0, <1>2 DEF KickTargetFlags
  <2>2. ASSUME pc'[s] = "kick_list", user_from_id(job'[s].user) \in Accounts
        PROVE  ~HasFlag(user_from_id(job'[s].user), "owner")
    <3>1. /\ UNCHANGED job
          /\ FoundFlags(s, job[s].user) \intersect {"owner", "moderator"} = {}
          /\ pc[s] = "kick_flags"
      BY <1>0, <1>2, <2>2 DEF KickTargetFlags
    <3>2. InGoodStanding(s)
      BY <1>0, <3>1 DEF MayKick, Acting, InGoodStanding
    <3>3. user_from_id(job[s].user).mUserID # 0
      BY <2>2, <3>1, DatabaseAssumption DEF User, UserIds
    <3>4. user_from_id(job[s].user).mUserFlags
            = FoundFlags(s, job[s].user)
      BY <3>2, <3>3 DEF FoundFlags
    <3> QED BY <3>1, <3>4 DEF HasFlag
  <2> QED BY <2>1, <2>2
<1>3. CASE ~KickFlags(s) /\ ~KickTargetFlags(s)
  <2>1. \/ JoinHandler(s) \/ JoinKickList(s) \/ JoinList(s) \/ JoinCurrent(s)
        \/ LeaveHandler(s) \/ LeaveChannel(s) \/ LeaveCurrent(s)
        \/ LeaveList(s)
        => pc'[s] \notin {"kick_flags", "kick_list"}
    BY <1>0
    DEF JoinHandler, JoinKickList, JoinList, JoinCurrent, LeaveHandler,
        LeaveChannel, LeaveCurrent, LeaveList
  <2>2. \/ KickHandler(s) \/ KickList(s) \/ ChatHandler(s) \/ BeginSend(s)
        \/ FindReceiver(s) \/ Deliver(s) \/ EndSend(s) \/ TellKicked(s)
        => pc'[s] \notin {"kick_flags", "kick_list"}
    BY <1>0
    DEF KickHandler, KickList, ChatHandler, BeginSend, FindReceiver, Deliver,
        EndSend, TellKicked
  <2> QED BY <1>3, <2>1, <2>2 DEF ChannelStep
<1> QED BY <1>1, <1>2, <1>3

\* Every step that gives no record back keeps MayKick.
LEMMA MayKickStep ==
  ASSUME ThreadOK, UserInv, ListInv, MayKick, [ChannelNext]_allVars, ~Restored
  PROVE  MayKick'
PROOF
<1>1. CASE UNCHANGED <<vars, channelVars, job>>
  BY <1>1 DEF vars, threadVars, userVars, dbVars, MayKick, Self, user_from_id
<1>2. ASSUME NEW s \in Sessions, UserMove(s)
      PROVE  MayKick'
  <2> SUFFICES ASSUME NEW t \in Sessions, Self(t)' \in Accounts,
                      pc'[t] \in {"kick_flags", "kick_list"}
               PROVE  /\ pc'[t] = "kick_flags" => Acting(Self(t))'
                      /\ (/\ pc'[t] = "kick_list"
                          /\ HasFlag(Self(t), "moderator")'
                          /\ user_from_id(job[t].user)' \in Accounts)
                         => ~HasFlag(user_from_id(job[t].user), "owner")'
    BY DEF MayKick
  <2>1. t # s
    BY <1>2, LabelFacts DEF UserMove, Labels
  <2>2. pc'[t] = pc[t] /\ job'[t] = job[t]
    BY <1>2, <2>1 DEF UserMove
  <2>3. mCurrentUser'[t] = mCurrentUser[t]
    BY <1>2, <2>2 DEF UserMove, ListInv, JobOK, ChannelLabels
  <2>4. Self(t)' = Self(t)
    <3>1. Self(t)' = user_from_id(mCurrentUser[t])'
      BY <2>3 DEF Self, user_from_id
    <3> QED BY <2>3, <3>1, RecordStays DEF Self
  <2>6. ASSUME user_from_id(job[t].user)' \in Accounts
        PROVE  user_from_id(job[t].user)' = user_from_id(job[t].user)
    <3>1. user_from_id(job[t].user)' =
            IF job[t].user \in UserIds THEN mUsers'[job[t].user] ELSE NoUser
      BY <2>2 DEF user_from_id
    <3> QED BY <2>2, <2>6, <3>1, NoUserIsNoUser, DatabaseAssumption
            DEF Restored, user_from_id
  <2>7. /\ Acting(Self(t))' = Acting(Self(t))
        /\ HasFlag(Self(t), "moderator")' = HasFlag(Self(t), "moderator")
    BY <2>4 DEF Acting, Banned, HasFlag
  <2> QED BY <2>2, <2>4, <2>6, <2>7 DEF MayKick, HasFlag
<1>3. ASSUME NEW s \in Sessions, ChannelStep(s)
      PROVE  MayKick'
  <2>1. /\ \A t \in Sessions \ {s} : pc'[t] = pc[t] /\ job'[t] = job[t]
        /\ UNCHANGED <<mCurrentUser, dbVars>>
    <3>1. ChannelMove(s)
      BY <1>3, ChannelStepMoves
    <3> QED BY <1>3, <3>1, ChannelMoveFacts, JobIsOwn
  <2>2. UNCHANGED mUsers
    BY <2>1 DEF dbVars
  <2>3. MayKick' <=> \A t \in Sessions : Self(t) \in Accounts =>
          /\ pc'[t] = "kick_flags" => Acting(Self(t))
          /\ (/\ pc'[t] = "kick_list"
              /\ HasFlag(Self(t), "moderator")
              /\ user_from_id(job'[t].user) \in Accounts)
             => ~HasFlag(user_from_id(job'[t].user), "owner")
    BY <2>1, <2>2 DEF MayKick, Self, user_from_id, Acting, Banned, HasFlag
  <2> SUFFICES ASSUME NEW t \in Sessions, Self(t) \in Accounts
               PROVE  /\ pc'[t] = "kick_flags" => Acting(Self(t))
                      /\ (/\ pc'[t] = "kick_list"
                          /\ HasFlag(Self(t), "moderator")
                          /\ user_from_id(job'[t].user) \in Accounts)
                         => ~HasFlag(user_from_id(job'[t].user), "owner")
    BY <2>3
  <2>4. CASE t = s
    BY <1>3, <2>4, KickLookups
  <2>5. CASE t # s
    BY <2>1, <2>5 DEF MayKick
  <2> QED BY <2>4, <2>5
<1>4. CASE EndChannels
  BY <1>4, EndChannelsFacts DEF MayKick
<1> QED BY <1>1, <1>2, <1>3, <1>4, UserMoves
        DEF ChannelNext, allVars, Finished

(***************************************************************************)
(* Moderators kick no owners (eleven_channel.cpp:197), unless an account   *)
(* is given back what it was at the start while the kick is under way: the *)
(* flags are read in two steps and the kick is a third, and somebody made  *)
(* an owner between the second and the third is kicked all the same.       *)
(***************************************************************************)
THEOREM OwnersKeepTheirRank ==
  ChannelSpec /\ [][~Restored]_allVars => OwnersAreNotKicked
PROOF
<1> DEFINE NoKick == \A s \in Sessions :
       /\ pc[s] = "kick_list" /\ pc'[s] = "leave"
       /\ open[s] /\ Self(s) \in Accounts /\ HasFlag(Self(s), "moderator")
       /\ user_from_id(job[s].user) \in Accounts
       => ~ HasFlag(user_from_id(job[s].user), "owner")
<1>1. ChannelInit => MayKick
  BY DEF ChannelInit, Init, MayKick
<1>2. UNCHANGED allVars => ~Restored
  BY DEF allVars, vars, dbVars, Restored
<1>3. /\ ThreadOK /\ UserInv /\ ListInv /\ MayKick
      /\ [ChannelNext]_allVars /\ [~Restored]_allVars
      => MayKick'
  BY <1>2, MayKickStep
<1>4. MayKick => NoKick
  BY DEF MayKick
<1>5. ASSUME MayKick, [ChannelNext]_allVars
      PROVE  [NoKick]_allVars
  BY <1>4, <1>5
<1>6. MayKick /\ [ChannelNext]_allVars => [NoKick]_allVars
  BY <1>5
<1> QED BY <1>1, <1>3, <1>6, ListInvariant, PTL
        DEF ChannelSpec, OwnersAreNotKicked
=============================================================================
