------------------------------ MODULE Database ------------------------------
(***************************************************************************)
(* The user database of the chat server (eleven_database.h) as the flat    *)
(* file implementation keeps it in memory: the two maps mUsers (id to user *)
(* record) and mNamedUsers (name to id).  Every operation of the database  *)
(* runs under its mUsersLock and is one step here.  Password hashes are    *)
(* left out; whether a password is right is part of a client's command.    *)
(***************************************************************************)
EXTENDS Integers

CONSTANTS Names,      \* the user names clients mention
          NoName,     \* the empty string of a default-constructed user
          MaxUserId,  \* the largest user_id, 2^32 - 1 in the code
          Accounts,   \* the records load_users finds at startup, none if it
                      \* cannot open the accounts file
          SaveResults \* what save_users may return

VARIABLES mUsers, mNamedUsers

dbVars == <<mUsers, mNamedUsers>>

UserIds == 1 .. MaxUserId

Flags == {"owner", "moderator", "blocked", "retired"}

User == [mUserID : UserIds, mUserName : Names, mUserFlags : SUBSET Flags]

\* The result of user(): what a failed lookup returns, and here also the
\* entry of an id that mUsers does not contain.
NoUser == [mUserID |-> 0, mUserName |-> NoName, mUserFlags |-> {}]

ASSUME DatabaseAssumption ==
  /\ MaxUserId \in Nat
  /\ NoName \notin Names
  /\ Accounts \subseteq User
  /\ \A a, b \in Accounts :
       a.mUserID = b.mUserID \/ a.mUserName = b.mUserName => a = b
  /\ SaveResults \subseteq BOOLEAN

-----------------------------------------------------------------------------
\* load_users: one entry in each map per line of the accounts file.
LoadUsers ==
  /\ mUsers = [u \in UserIds |->
       IF \E a \in Accounts : a.mUserID = u
         THEN CHOOSE a \in Accounts : a.mUserID = u
         ELSE NoUser]
  /\ mNamedUsers = [n \in Names |->
       IF \E a \in Accounts : a.mUserName = n
         THEN (CHOOSE a \in Accounts : a.mUserName = n).mUserID
         ELSE 0]

user_from_id(u) == IF u \in UserIds THEN mUsers[u] ELSE NoUser

user_from_name(n) == user_from_id(mNamedUsers[n])

\* The search of add_user: ids are tried upwards from 1, and the unsigned
\* counter wraps to 0 when every id is taken.
NextFreeId(id) ==
  \/ /\ id \in UserIds
     /\ mUsers[id] = NoUser
     /\ \A u \in 1 .. (id - 1) : mUsers[u] # NoUser
  \/ /\ id = 0
     /\ \A u \in UserIds : mUsers[u] # NoUser

\* A plausible slip: the name stays in mNamedUsers when its user is deleted.
M_DeleteKeepsName(id) ==
  /\ mUsers' = [mUsers EXCEPT ![id] = NoUser]
  /\ UNCHANGED mNamedUsers

\* add_user, whose result has the id given (0: the name exists or no id is
\* left).  The result of its save_users is only logged.
DbAddUser(n, flags, id) ==
  \/ /\ mNamedUsers[n] = 0
     /\ NextFreeId(id)
     /\ id # 0
     /\ mUsers' = [mUsers EXCEPT ![id] =
          [mUserID |-> id, mUserName |-> n, mUserFlags |-> flags]]
     /\ mNamedUsers' = [mNamedUsers EXCEPT ![n] = id]
  \/ /\ mNamedUsers[n] # 0 \/ NextFreeId(0)
     /\ id = 0
     /\ UNCHANGED dbVars

\* delete_user: every name of the id goes, then the record.
DbDeleteUser(id) ==
  /\ mNamedUsers' = [n \in Names |->
       IF mNamedUsers[n] = id THEN 0 ELSE mNamedUsers[n]]
  /\ mUsers' = [mUsers EXCEPT ![id] = NoUser]

\* change_user_flags of an existing user.  The record changes whether or not
\* the save succeeds; the result is that of the save.
DbChangeUserFlags(id, set, clear, saved) ==
  /\ saved \in SaveResults
  /\ mUsers' = [mUsers EXCEPT
       ![id].mUserFlags = (@ \ clear) \union set]
  /\ UNCHANGED mNamedUsers

-----------------------------------------------------------------------------
DatabaseTypeOK ==
  /\ mUsers \in [UserIds -> User \union {NoUser}]
  /\ mNamedUsers \in [Names -> UserIds \union {0}]

(***************************************************************************)
(* The two maps of the database are inverse to each other: a name leads to *)
(* the record that carries it, a record is stored under its own id and is  *)
(* reachable by its name.  It is what lets add_user trust mNamedUsers for  *)
(* uniqueness and the handlers turn a name into an id and back.            *)
(***************************************************************************)
DatabaseConsistent ==
  /\ \A n \in Names : mNamedUsers[n] # 0 =>
       /\ mUsers[mNamedUsers[n]].mUserID = mNamedUsers[n]
       /\ mUsers[mNamedUsers[n]].mUserName = n
  /\ \A u \in UserIds : mUsers[u] # NoUser =>
       /\ mUsers[u].mUserID = u
       /\ mNamedUsers[mUsers[u].mUserName] = u
=============================================================================
