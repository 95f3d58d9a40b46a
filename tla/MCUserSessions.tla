--------------------------- MODULE MCUserSessions ---------------------------
(***************************************************************************)
(* Accounts and sets of commands for TLC's runs of UserSessions.  A run    *)
(* picks the commands its question needs.                                  *)
(***************************************************************************)
EXTENDS UserSessions, TLC

MCNames == {"admin", "mod", "bob"}

\* Connections differ in nothing, and no definition chooses among them.
SessionSymmetry == Permutations(Sessions)

\* An owner, a moderator and a plain user.
MCAccounts ==
  {[mUserID |-> 1, mUserName |-> "admin", mUserFlags |-> {"owner"}],
   [mUserID |-> 2, mUserName |-> "mod", mUserFlags |-> {"moderator"}],
   [mUserID |-> 3, mUserName |-> "bob", mUserFlags |-> {}]}

Cmd(command, name, good) ==
  [command |-> command, name |-> name, good |-> good, flags |-> {},
   channel |-> NoChannel]

\* Two users log in, rightly and wrongly; one of them is banned, deleted and
\* created again.
LoginLines ==
  {Cmd("/login", "admin", TRUE), Cmd("/login", "bob", TRUE),
   Cmd("/login", "bob", FALSE), Cmd("/retireuser", "bob", TRUE),
   Cmd("/deleteuser", "bob", TRUE), Cmd("/adduser", "bob", TRUE)}

\* The accounts before anybody adds bob's.
RankAccounts == {a \in MCAccounts : a.mUserName # "bob"}

\* Every command there is: an owner and a moderator use them on each other and
\* on an account that comes and goes and may rise in rank.
RankLines ==
  {Cmd("/login", "admin", TRUE), Cmd("/login", "mod", TRUE),
   Cmd("/blockuser", "admin", TRUE), Cmd("/retireuser", "mod", TRUE),
   Cmd("/deleteuser", "admin", TRUE), Cmd("/deleteuser", "bob", TRUE),
   Cmd("/makemoderator", "bob", TRUE), Cmd("/makeowner", "bob", TRUE),
   Cmd("/shutdown", "bob", TRUE), Cmd("/logout", "bob", TRUE),
   Cmd("*", "bob", TRUE)} \union
  {[Cmd("/adduser", "bob", TRUE) EXCEPT !.flags = f] :
     f \in {{}, {"owner"}, {"moderator"}}}

\* An owner's connections replace each other, ban the owner and shut the server
\* down.
ShutdownLines ==
  {Cmd("/login", "admin", TRUE), Cmd("/blockuser", "admin", TRUE),
   Cmd("/shutdown", "admin", TRUE)}
=============================================================================
