----------------------------- MODULE MCChannels -----------------------------
(***************************************************************************)
(* Accounts and sets of commands for TLC's runs of Channels.               *)
(***************************************************************************)
EXTENDS Channels, TLC

\* Nobody is called eve.
MCNames == {"admin", "mod", "bob", "eve"}

SessionSymmetry == Permutations(Sessions)

MCAccounts ==
  {[mUserID |-> 1, mUserName |-> "admin", mUserFlags |-> {"owner"}],
   [mUserID |-> 2, mUserName |-> "mod", mUserFlags |-> {"moderator"}],
   [mUserID |-> 3, mUserName |-> "bob", mUserFlags |-> {}]}

Cmd(command, name, channel) ==
  [command |-> command, name |-> name, good |-> TRUE, flags |-> {},
   channel |-> channel]

Login(name) == Cmd("/login", name, NoChannel)

\* A moderator and an owner talk, come and go and kick each other, until the
\* owner shuts the server down.
RoomLines ==
  {Login("mod"), Login("admin"), Cmd("/leave", "bob", NoChannel),
   Cmd("/kick", "mod", NoChannel), Cmd("/kick", "admin", NoChannel),
   Cmd("*", "bob", NoChannel), Cmd("/version", "bob", NoChannel),
   Cmd("/shutdown", "bob", NoChannel)} \union
  {Cmd("/join", "bob", c) : c \in ChannelNames}

\* Connections of a user replace each other while it joins and is kicked.
KickLines ==
  {Login("mod"), Login("bob"), Cmd("/kick", "bob", "room"),
   Cmd("/kick", "eve", "room"), Cmd("/join", "bob", "room")}
=============================================================================
