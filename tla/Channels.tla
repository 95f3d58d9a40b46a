------------------------------ MODULE Channels ------------------------------
(***************************************************************************)
(* The channels of the chat server (eleven_channel.cpp), on top of the     *)
(* connections and users of UserSessions.  What is one step OtherCommand   *)
(* there, a command of the channels, is carried out here in the steps      *)
(* between which other threads can act; everything else is as it was.      *)
(*                                                                         *)
(*   - A channel's mUserListLock is a variable, because a thread that      *)
(*     sends to the channel keeps it while it waits for the mSessionLock   *)
(*     of each receiver.                                                   *)
(*   - channels_lock is held for one lookup only and has no variable.  A   *)
(*     channel that was not created yet is one without members.            *)
(*   - mUsers, called members here, is a vector without duplicates in the  *)
(*     code.  Its order, in which a message goes out, is left open.        *)
(*   - A kick list is taken as it is in memory, where it only grows; it is *)
(*     guarded by the database's lock for the time of one access.          *)
(***************************************************************************)
EXTENDS UserSessions

VARIABLES
  members,  \* mUsers of each channel: ids of the users in it
  kicked,   \* mKicklists of the database, per channel
  listLock, \* the session whose thread holds a channel's mUserListLock
  current,  \* the channel in each session's current_channel data
  job,      \* the local variables of a channel command
  overtook  \* history: kicks of a user who was joining at that moment

channelVars == <<members, kicked, listLock, current, overtook>>

allVars == <<vars, channelVars, job>>

\* What the steps of a channel command leave alone: all but its progress.
otherVars == <<dbVars, open, userVars, usersLock, shutdownVars, historyVars>>

\* channel: the channel the command is about; user: who leaves it;
\* session: that user's session; reason: inBlockedForReason is not empty; rest:
\* the members a message has not gone out to; receiver: the session it is being
\* sent to.
NoJob == [channel |-> NoChannel, user |-> 0, session |-> NoSession,
          reason |-> FALSE, rest |-> {}, receiver |-> NoSession]

ChannelLabels == {"join_kicked", "join_list", "join_current", "leave",
                  "leave_current", "leave_list", "kick", "kick_flags",
                  "kick_list", "send", "sending", "deliver", "tell"}

ListLockFree(c) == listLock[c] = NoSession

-----------------------------------------------------------------------------
ChannelInit ==
  /\ Init
  /\ members = [c \in ChannelNames |-> {}]
  /\ kicked = [c \in ChannelNames |-> {}]
  /\ listLock = [c \in ChannelNames |-> NoSession]
  /\ current = [s \in Sessions |-> NoChannel]
  /\ job = [s \in Sessions |-> NoJob]
  /\ overtook = {}

\* The command goes on at label.
Proceed(s, label) ==
  /\ GoTo(s, label)
  /\ UNCHANGED <<line, target>>

\* The command is over.
Finish(s) ==
  /\ Return(s)
  /\ job' = [job EXCEPT ![s] = NoJob]

\* The channel the command names, or else the session's current one.
ChannelOf(s) ==
  IF line[s].channel # NoChannel THEN line[s].channel ELSE current[s]

\* my_user_flags does not report the session's user as blocked or retired,
\* nor, which it does by the flag for retired, as deleted.
InGoodStanding(s) == Self(s).mUserID # 0 /\ ~Banned(Self(s))

-----------------------------------------------------------------------------
(* /join                                                                   *)

\* join_channel_handler and join_channel's look at the user's flags.
JoinHandler(s) ==
  /\ Handles(s, "/join")
  /\ LET mayTry == attached[s] /\ line[s].channel # NoChannel IN
     \/ /\ mayTry
        /\ UsersLockFree
        /\ InGoodStanding(s)
        /\ job' = [job EXCEPT ![s].channel = line[s].channel]
        /\ Proceed(s, "join_kicked")
     \/ /\ ~mayTry \/ (UsersLockFree /\ ~InGoodStanding(s))
        /\ Finish(s)
  /\ UNCHANGED <<otherVars, channelVars>>

\* A plausible slip: join_channel does not ask for the kick list.
M_JoinAnyway(s) ==
  /\ pc[s] = "join_kicked"
  /\ Proceed(s, "join_list")
  /\ UNCHANGED <<otherVars, channelVars, job>>

\* The look at the channel's kick list, without mUserListLock.
JoinKickList(s) ==
  /\ pc[s] = "join_kicked"
  /\ \/ /\ mCurrentUser[s] \notin kicked[job[s].channel]
        /\ Proceed(s, "join_list")
        /\ UNCHANGED job
     \/ /\ mCurrentUser[s] \in kicked[job[s].channel]
        /\ Finish(s)
  /\ UNCHANGED <<otherVars, channelVars>>

\* A plausible slip: mUsers is changed without its lock.
M_JoinUnlocked(s) ==
  /\ pc[s] = "join_list"
  /\ members' = [members EXCEPT ![job[s].channel] = @ \union {mCurrentUser[s]}]
  /\ Proceed(s, "join_current")
  /\ UNCHANGED <<otherVars, kicked, listLock, current, job, overtook>>

\* The user is appended to mUsers, unless it is in there already; job.user
\* remembers that the others are to be told.
JoinList(s) ==
  /\ pc[s] = "join_list"
  /\ ListLockFree(job[s].channel)
  /\ members' = [members EXCEPT ![job[s].channel] = @ \union {mCurrentUser[s]}]
  /\ job' = [job EXCEPT ![s].user =
       IF mCurrentUser[s] \in members[job[s].channel]
         THEN 0 ELSE mCurrentUser[s]]
  /\ Proceed(s, "join_current")
  /\ UNCHANGED <<otherVars, kicked, listLock, current, overtook>>

\* The channel becomes the session's current one.
JoinCurrent(s) ==
  /\ pc[s] = "join_current"
  /\ current' = [current EXCEPT ![s] = job[s].channel]
  /\ \/ job[s].user # 0 /\ Proceed(s, "send") /\ UNCHANGED job
     \/ job[s].user = 0 /\ Finish(s)
  /\ UNCHANGED <<otherVars, members, kicked, listLock, overtook>>

-----------------------------------------------------------------------------
(* /leave, and leave_channel, which /kick calls for the kicked user        *)

LeaveHandler(s) ==
  /\ Handles(s, "/leave")
  /\ \/ /\ attached[s]
        /\ ChannelOf(s) # NoChannel
        /\ job' = [job EXCEPT ![s].channel = ChannelOf(s),
                              ![s].user = mCurrentUser[s]]
        /\ Proceed(s, "leave")
     \/ /\ ~attached[s] \/ ChannelOf(s) = NoChannel
        /\ Finish(s)
  /\ UNCHANGED <<otherVars, channelVars>>

\* A plausible slip: usersLock is not let go of after the lookup.
M_LeaveChannel(s) ==
  /\ pc[s] = "leave"
  /\ UsersLockFree
  /\ usersLock' = s
  /\ job' = [job EXCEPT ![s].session = loggedInUsers[job[s].user]]
  /\ Proceed(s, "leave_list")
  /\ UNCHANGED <<dbVars, open, userVars, shutdownVars, historyVars,
                 channelVars>>

\* leave_channel looks up the session of the user who leaves, and whether this
\* channel is the session's current one.  The code does the first under
\* usersLock and the second after it; here nothing comes in between.
LeaveChannel(s) ==
  /\ pc[s] = "leave"
  /\ UsersLockFree
  /\ LET t == loggedInUsers[job[s].user] IN
     /\ job' = [job EXCEPT ![s].session = t]
     /\ \/ /\ t # NoSession
           /\ current[t] = job[s].channel
           /\ Proceed(s, "leave_current")
        \/ /\ t # NoSession => current[t] # job[s].channel
           /\ Proceed(s, "leave_list")
  /\ UNCHANGED <<otherVars, channelVars>>

\* remove_sessiondata, whatever channel is the current one by now.
LeaveCurrent(s) ==
  /\ pc[s] = "leave_current"
  /\ current' = [current EXCEPT ![job[s].session] = NoChannel]
  /\ Proceed(s, "leave_list")
  /\ UNCHANGED <<otherVars, members, kicked, listLock, job, overtook>>

\* The user is erased from mUsers, and if it was there the others are told.
LeaveList(s) ==
  /\ pc[s] = "leave_list"
  /\ ListLockFree(job[s].channel)
  /\ members' = [members EXCEPT ![job[s].channel] = @ \ {job[s].user}]
  /\ \/ /\ job[s].user \in members[job[s].channel]
        /\ Proceed(s, "send")
        /\ UNCHANGED job
     \/ /\ job[s].user \notin members[job[s].channel]
        /\ Finish(s)
  /\ UNCHANGED <<otherVars, kicked, listLock, current, overtook>>

-----------------------------------------------------------------------------
(* /kick                                                                   *)

\* A plausible slip: a name nobody has is not told from a user.
M_KickNobody(s) ==
  /\ Handles(s, "/kick")
  /\ LET mayTry == attached[s] /\ ChannelOf(s) # NoChannel
     IN \/ /\ mayTry
           /\ job' = [job EXCEPT ![s].channel = ChannelOf(s),
                ![s].user = user_from_name(line[s].name).mUserID]
           /\ Proceed(s, "kick")
        \/ ~mayTry /\ Finish(s)
  /\ UNCHANGED <<otherVars, channelVars>>

\* kick_handler: the channel and the user, whose id is looked up here.
KickHandler(s) ==
  /\ Handles(s, "/kick")
  /\ LET u == user_from_name(line[s].name).mUserID
         mayTry == attached[s] /\ ChannelOf(s) # NoChannel /\ u # 0
     IN \/ /\ mayTry
           /\ job' = [job EXCEPT ![s].channel = ChannelOf(s), ![s].user = u]
           /\ Proceed(s, "kick")
        \/ ~mayTry /\ Finish(s)
  /\ UNCHANGED <<otherVars, channelVars>>

\* kick_user reads the flags of its own user.  Those of the other user matter
\* only if this one is a moderator.
KickFlags(s) ==
  /\ pc[s] = "kick"
  /\ UsersLockFree
  /\ \/ /\ Acting(Self(s))
        /\ Proceed(s, IF "moderator" \in Self(s).mUserFlags
                        THEN "kick_flags" ELSE "kick_list")
        /\ UNCHANGED job
     \/ ~Acting(Self(s)) /\ Finish(s)
  /\ UNCHANGED <<otherVars, channelVars>>

\* What find_user_flags says of user u: an asking user who was banned or
\* deleted in the meantime is told "retired", as for a user who is not there.
FoundFlags(s, u) ==
  IF InGoodStanding(s) /\ user_from_id(u).mUserID # 0
    THEN user_from_id(u).mUserFlags
    ELSE {"retired"}

\* A plausible slip: only moderators are safe from each other.
M_KickTargetFlags(s) ==
  /\ pc[s] = "kick_flags"
  /\ UsersLockFree
  /\ LET immune == FoundFlags(s, job[s].user) \intersect {"moderator"}
     IN \/ immune = {} /\ Proceed(s, "kick_list") /\ UNCHANGED job
        \/ immune # {} /\ Finish(s)
  /\ UNCHANGED <<otherVars, channelVars>>

\* Moderators may kick neither owners nor each other.
KickTargetFlags(s) ==
  /\ pc[s] = "kick_flags"
  /\ UsersLockFree
  /\ LET immune == FoundFlags(s, job[s].user) \intersect {"owner", "moderator"}
     IN \/ immune = {} /\ Proceed(s, "kick_list") /\ UNCHANGED job
        \/ immune # {} /\ Finish(s)
  /\ UNCHANGED <<otherVars, channelVars>>

\* Sessions of user u that are about to join channel c.
Joining(c, u) ==
  {s \in Sessions : /\ pc[s] = "join_list"
                    /\ job[s].channel = c
                    /\ mCurrentUser[s] = u}

\* Under mUserListLock: neither user is on the kick list yet, and the other one
\* is put on it.  The reason for the kick is this user's name, which is empty
\* if the user was deleted in the meantime.  The code looks it up right after
\* it lets go of the lock; here nothing comes in between.
KickList(s) ==
  /\ pc[s] = "kick_list"
  /\ ListLockFree(job[s].channel)
  /\ LET c == job[s].channel
         u == job[s].user
     IN \/ /\ {mCurrentUser[s], u} \intersect kicked[c] = {}
           /\ kicked' = [kicked EXCEPT ![c] = @ \union {u}]
           /\ overtook' = overtook \union
                (IF Joining(c, u) = {} THEN {} ELSE {<<c, u>>})
           /\ job' = [job EXCEPT ![s].reason = Self(s).mUserID # 0]
           /\ Proceed(s, "leave")
        \/ /\ {mCurrentUser[s], u} \intersect kicked[c] # {}
           /\ Finish(s)
           /\ UNCHANGED <<kicked, overtook>>
  /\ UNCHANGED <<otherVars, members, listLock, current>>

-----------------------------------------------------------------------------
(* Messages: what a user says, and that somebody joined or left            *)

\* chat_handler, for every line that is not a command.
ChatHandler(s) ==
  /\ Handles(s, "*")
  /\ LET mayTalk == /\ attached[s]
                    /\ current[s] # NoChannel
                    /\ mCurrentUser[s] \notin kicked[current[s]]
     IN \/ /\ mayTalk
           /\ job' = [job EXCEPT ![s].channel = current[s]]
           /\ Proceed(s, "send")
        \/ ~mayTalk /\ Finish(s)
  /\ UNCHANGED <<otherVars, channelVars>>

\* A plausible slip: sendln goes through mUsers without its lock.
M_SendUnlocked(s) ==
  /\ pc[s] = "send"
  /\ job' = [job EXCEPT ![s].rest = members[job[s].channel]]
  /\ Proceed(s, "sending")
  /\ UNCHANGED <<otherVars, channelVars>>

\* channel::sendln takes mUserListLock and goes through mUsers.
BeginSend(s) ==
  /\ pc[s] = "send"
  /\ ListLockFree(job[s].channel)
  /\ listLock' = [listLock EXCEPT ![job[s].channel] = s]
  /\ job' = [job EXCEPT ![s].rest = members[job[s].channel]]
  /\ Proceed(s, "sending")
  /\ UNCHANGED <<otherVars, members, kicked, current, overtook>>

\* session_for_user of the next member, if it has a session.
FindReceiver(s) ==
  /\ pc[s] = "sending"
  /\ UsersLockFree
  /\ \E u \in job[s].rest :
       /\ job' = [job EXCEPT ![s].rest = @ \ {u},
                             ![s].receiver = loggedInUsers[u]]
       /\ Proceed(s, IF loggedInUsers[u] = NoSession
                       THEN "sending" ELSE "deliver")
  /\ UNCHANGED <<otherVars, channelVars>>

\* A plausible slip: a send to a closed connection is tried again.
M_DeliverForSure(s) ==
  /\ pc[s] = "deliver"
  /\ SessionLockFree(job[s].receiver)
  /\ open[job[s].receiver]
  /\ job' = [job EXCEPT ![s].receiver = NoSession]
  /\ Proceed(s, "sending")
  /\ UNCHANGED <<otherVars, channelVars>>

\* The receiver's sendln, as soon as its mSessionLock is free.
Deliver(s) ==
  /\ pc[s] = "deliver"
  /\ SessionLockFree(job[s].receiver)
  /\ job' = [job EXCEPT ![s].receiver = NoSession]
  /\ Proceed(s, "sending")
  /\ UNCHANGED <<otherVars, channelVars>>

\* A plausible slip: mUserListLock is not released when the message is out.
M_EndSend(s) ==
  /\ pc[s] = "sending"
  /\ job[s].rest = {}
  /\ LET toTell == job[s].reason /\ job[s].session # NoSession IN
     \/ toTell /\ Proceed(s, "tell") /\ UNCHANGED job
     \/ ~toTell /\ Finish(s)
  /\ UNCHANGED <<otherVars, members, kicked, listLock, current, overtook>>

\* The message is out.  With a reason given the kicked user, if it had a
\* session, is told as well.
EndSend(s) ==
  /\ pc[s] = "sending"
  /\ job[s].rest = {}
  /\ listLock' = [listLock EXCEPT ![job[s].channel] = NoSession]
  /\ LET toTell == job[s].reason /\ job[s].session # NoSession IN
     \/ toTell /\ Proceed(s, "tell") /\ UNCHANGED job
     \/ ~toTell /\ Finish(s)
  /\ UNCHANGED <<otherVars, members, kicked, current, overtook>>

\* A plausible slip: the kicked user is disconnected, as by a ban.
M_TellAndDisconnect(s) ==
  /\ pc[s] = "tell"
  /\ SessionLockFree(job[s].session)
  /\ Disconnect(job[s].session)
  /\ Finish(s)
  /\ UNCHANGED <<dbVars, userVars, usersLock, shutdownVars, historyVars,
                 channelVars>>

\* The kicked user's session gets a message of its own.
TellKicked(s) ==
  /\ pc[s] = "tell"
  /\ SessionLockFree(job[s].session)
  /\ Finish(s)
  /\ UNCHANGED <<otherVars, channelVars>>

\* The process ends; kick lists are the database's.
EndChannels ==
  /\ EndProcess
  /\ members' = [c \in ChannelNames |-> {}]
  /\ listLock' = [c \in ChannelNames |-> NoSession]
  /\ current' = [s \in Sessions |-> NoChannel]
  /\ job' = [s \in Sessions |-> NoJob]
  /\ UNCHANGED <<kicked, overtook>>

-----------------------------------------------------------------------------
ChannelStep(s) ==
  \/ JoinHandler(s) \/ JoinKickList(s) \/ JoinList(s) \/ JoinCurrent(s)
  \/ LeaveHandler(s) \/ LeaveChannel(s) \/ LeaveCurrent(s) \/ LeaveList(s)
  \/ KickHandler(s) \/ KickFlags(s) \/ KickTargetFlags(s) \/ KickList(s)
  \/ ChatHandler(s) \/ BeginSend(s) \/ FindReceiver(s) \/ Deliver(s)
  \/ EndSend(s) \/ TellKicked(s)

\* A step of UserSessions that is not a command of the channels.
UserStep(s) ==
  /\ \/ BeginRead(s)
     \/ End(s)
     \/ LoginStep(s)
     \/ AdminStep(s)
     \/ Logout(s)
     \/ line[s].command = "/version" /\ OtherCommand(s)
     \/ ShutdownStep(s)
  /\ UNCHANGED <<channelVars, job>>

ChannelNext ==
  \/ \E s \in Sessions :
       \/ (Connect(s) \/ ClientStep(s)) /\ UNCHANGED <<channelVars, job>>
       \/ UserStep(s)
       \/ ChannelStep(s)
  \/ EndChannels
  \/ Finished /\ UNCHANGED <<channelVars, job>>

ChannelSpec == ChannelInit /\ [][ChannelNext]_allVars

\* The scheduler runs every thread, as in UserSessions.
ChannelFairness == \A s \in Sessions : SF_allVars(UserStep(s) \/ ChannelStep(s))

\* No client stays connected and silent for ever.
TalkingClients ==
  \A s \in Sessions :
    WF_allVars(ClientStep(s) /\ UNCHANGED <<channelVars, job>>)

SilentChannelSpec == ChannelSpec /\ ChannelFairness

FairChannelSpec == ChannelSpec /\ ChannelFairness /\ TalkingClients

-----------------------------------------------------------------------------
(* Properties                                                              *)

\* The type invariant of the channels' own variables.
ChannelTypeOK ==
  /\ members \in [ChannelNames -> SUBSET UserIds]
  /\ kicked \in [ChannelNames -> SUBSET UserIds]
  /\ listLock \in [ChannelNames -> Sessions \union {NoSession}]
  /\ current \in [Sessions -> ChannelNames \union {NoChannel}]
  /\ job \in [Sessions ->
       [channel : ChannelNames \union {NoChannel},
        user : UserIds \union {0},
        session : Sessions \union {NoSession},
        reason : BOOLEAN,
        rest : SUBSET UserIds,
        receiver : Sessions \union {NoSession}]]
  /\ overtook \subseteq ChannelNames \X UserIds

\* A kick of user u from channel c that has not removed the user yet.
BeingKicked(c, u) ==
  \E s \in Sessions :
    /\ line[s].command = "/kick"
    /\ pc[s] \in {"leave", "leave_current", "leave_list"}
    /\ job[s].channel = c
    /\ job[s].user = u

(***************************************************************************)
(* A user on a channel's kick list is not among its members: the kick      *)
(* removes it, and join_channel does not let it in again                   *)
(* (eleven_channel.cpp:84, 216).  The exception is a join that had passed  *)
(* the kick list when the kick came.                                       *)
(***************************************************************************)
KickedStaysOut ==
  \A c \in ChannelNames : \A u \in kicked[c] \intersect members[c] :
    BeingKicked(c, u) \/ <<c, u>> \in overtook

(***************************************************************************)
(* "Moderators may not kick server owners", nor each other                 *)
(* (eleven_channel.cpp:197, 202): one who is connected and whose account   *)
(* is as it was does not, although the flags of the two users are read in  *)
(* two steps and the kick is a third.  The exception is a moderator who is *)
(* banned between the first two: to somebody banned, find_user_flags calls *)
(* everybody "retired", so that this last kick succeeds against an owner.  *)
(***************************************************************************)
OwnersAreNotKicked ==
  [][\A s \in Sessions :
       /\ pc[s] = "kick_list" /\ pc'[s] = "leave"
       /\ open[s] /\ Self(s) \in Accounts /\ HasFlag(Self(s), "moderator")
       /\ user_from_id(job[s].user) \in Accounts
       => ~ HasFlag(user_from_id(job[s].user), "owner")]_allVars

Sending(s) == pc[s] \in {"sending", "deliver"}

(***************************************************************************)
(* While a message goes out to the members of a channel nobody changes the *)
(* list sendln is going through (eleven_channel.cpp:30): a push_back or an *)
(* erase there would invalidate its iterator.  Only the end of the process *)
(* comes in between.                                                       *)
(***************************************************************************)
ListKeepsStill ==
  [][\A s \in Sessions :
       Sending(s) /\ pc'[s] # "done" =>
         members'[job[s].channel] = members[job[s].channel]]_allVars

(***************************************************************************)
(* Two messages to one channel do not go out at the same time, so that     *)
(* all members see the messages of a channel in the same order.            *)
(***************************************************************************)
OneAtATime ==
  \A s, t \in Sessions :
    Sending(s) /\ Sending(t) /\ job[s].channel = job[t].channel => s = t

\* Where a thread may need usersLock, the mSessionLock of session t, or the
\* mUserListLock of its command's channel to go on.
NeedsUsersLock(s) ==
  pc[s] \in {"dispatch", "log_in", "forget", "act", "authorize", "announce",
            "linger", "kick", "kick_flags", "leave", "sending"}

NeedsSessionLock(s, t) ==
  \/ pc[s] = "evict" /\ t = loggedInUsers[mCurrentUser[s]]
  \/ pc[s] = "ban" /\ t = loggedInUsers[target[s]]
  \/ /\ pc[s] \in {"warn", "sweep"}
     /\ \E u \in todo : (\A v \in todo : u <= v) /\ t = loggedInUsers[u]
  \/ pc[s] = "deliver" /\ t = job[s].receiver
  \/ pc[s] = "tell" /\ t = job[s].session

NeedsListLock(s) == pc[s] \in {"join_list", "leave_list", "kick_list", "send"}

\* s cannot go on before t lets go of a lock.
WaitsFor(s, t) ==
  \/ NeedsUsersLock(s) /\ usersLock = t
  \/ NeedsSessionLock(s, t) /\ pc[t] = "reading"
  \/ NeedsListLock(s) /\ listLock[job[s].channel] = t

(***************************************************************************)
(* No threads ever wait for each other in a circle, through any of the     *)
(* three kinds of locks that are kept while waiting for another one:       *)
(* usersLock, which log_in, a ban and the shutdown keep while they wait    *)
(* for a session (eleven_users.cpp:391, 440, 331); mUserListLock, which    *)
(* sendln keeps while it waits for usersLock and for sessions              *)
(* (eleven_channel.cpp:28); and mSessionLock, which readln keeps while it  *)
(* waits for the client (eleven_session.cpp:332).  So among any threads    *)
(* there is one that waits for none of them.  Nor does a thread wait for   *)
(* itself, so that nothing is lost by modelling the locks, which are       *)
(* recursive in the code, as ones that are not.                            *)
(***************************************************************************)
NoCircularWait ==
  \A S \in (SUBSET Sessions) \ {{}} :
    \E s \in S : \A t \in S : ~ WaitsFor(s, t)

(***************************************************************************)
(* Everyone who listens to a channel gets to hear what is said there:      *)
(* a message about to be sent to a member's session is sent.               *)
(***************************************************************************)
EveryoneHears ==
  \A s \in Sessions : pc[s] = "deliver" ~> pc[s] # "deliver"

\* What UserSessions sees of pc: a thread inside a command of the channels has
\* dispatched that command and not begun it.
UserPc ==
  [s \in Sessions |-> IF pc[s] \in ChannelLabels THEN "dispatch" ELSE pc[s]]

Users == INSTANCE UserSessions WITH pc <- UserPc

\* Carrying out the channels' commands in steps is seen by the rest of the
\* server as the one step OtherCommand: the specification UserSessions, with
\* all that was shown of it, still holds.
ImplementsUsers == Users!Spec
=============================================================================
