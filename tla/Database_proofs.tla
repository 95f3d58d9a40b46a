--------------------------- MODULE Database_proofs ---------------------------
(***************************************************************************)
(* The operations of the user database keep its two maps inverse to each   *)
(* other, whatever the accounts, names and ids are.                        *)
(***************************************************************************)
EXTENDS Database, TLAPS

DatabaseInv == DatabaseTypeOK /\ DatabaseConsistent

\* NoUser is no user's record: its name is nobody's.
LEMMA NoUserIsNoUser == NoUser \notin User
BY DatabaseAssumption DEF NoUser, User

\* load_users establishes the invariant, and every account is stored under
\* its own id.
LEMMA LoadUsersOK ==
  ASSUME LoadUsers
  PROVE  /\ DatabaseInv
         /\ \A a \in Accounts : mUsers[a.mUserID] = a
         /\ \A u \in UserIds : mUsers[u] # NoUser => mUsers[u] \in Accounts
PROOF
<1> DEFINE AtId(u) == CHOOSE a \in Accounts : a.mUserID = u
           AtName(n) == CHOOSE a \in Accounts : a.mUserName = n
<1> USE DatabaseAssumption
<1>1. \A a \in Accounts :
        /\ a \in User /\ a.mUserID \in UserIds /\ a.mUserID # 0
        /\ a.mUserName \in Names
  BY DEF User, UserIds
<1>2. ASSUME NEW a \in Accounts
      PROVE  AtId(a.mUserID) = a
  <2>1. AtId(a.mUserID) \in Accounts /\ AtId(a.mUserID).mUserID = a.mUserID
    OBVIOUS
  <2> QED BY <2>1
<1>3. ASSUME NEW a \in Accounts
      PROVE  AtName(a.mUserName) = a
  <2>1. /\ AtName(a.mUserName) \in Accounts
        /\ AtName(a.mUserName).mUserName = a.mUserName
    OBVIOUS
  <2> QED BY <2>1
<1>4. \A a \in Accounts : mUsers[a.mUserID] = a
  BY <1>1, <1>2 DEF LoadUsers
<1>5. \A a \in Accounts : mNamedUsers[a.mUserName] = a.mUserID
  BY <1>1, <1>3 DEF LoadUsers
<1>6. \A u \in UserIds :
        \/ mUsers[u] = NoUser
        \/ mUsers[u] \in Accounts /\ mUsers[u].mUserID = u
  BY <1>2 DEF LoadUsers
<1>7. \A n \in Names :
        \/ mNamedUsers[n] = 0
        \/ \E a \in Accounts : a.mUserName = n /\ mNamedUsers[n] = a.mUserID
  BY <1>3 DEF LoadUsers
<1>8. DatabaseTypeOK
  <2>1. mUsers = [u \in UserIds |-> mUsers[u]]
    BY DEF LoadUsers
  <2>2. mNamedUsers = [n \in Names |-> mNamedUsers[n]]
    BY DEF LoadUsers
  <2>3. \A u \in UserIds : mUsers[u] \in User \union {NoUser}
    BY <1>1, <1>6
  <2>4. \A n \in Names : mNamedUsers[n] \in UserIds \union {0}
    BY <1>1, <1>7
  <2> QED BY <2>1, <2>2, <2>3, <2>4 DEF DatabaseTypeOK
<1>9. DatabaseConsistent
  BY <1>1, <1>4, <1>5, <1>6, <1>7 DEF DatabaseConsistent
<1> QED BY <1>4, <1>6, <1>8, <1>9 DEF DatabaseInv

\* A lookup by name finds nothing, or the record that carries the name, which
\* is stored under its own id.
LEMMA LookupOK ==
  ASSUME DatabaseInv, NEW n \in Names,
         user_from_name(n).mUserID # 0
  PROVE  /\ user_from_name(n).mUserID \in UserIds
         /\ user_from_name(n) = mUsers[user_from_name(n).mUserID]
         /\ user_from_name(n).mUserName = n
         /\ user_from_name(n) \in User
PROOF
<1> USE DatabaseAssumption DEF DatabaseInv, DatabaseTypeOK
<1>1. mNamedUsers[n] \in UserIds
  BY DEF user_from_name, user_from_id, NoUser
<1>2. mNamedUsers[n] # 0
  BY <1>1 DEF UserIds
<1>3. user_from_name(n) = mUsers[mNamedUsers[n]]
  BY <1>1 DEF user_from_name, user_from_id
<1>4. /\ mUsers[mNamedUsers[n]].mUserID = mNamedUsers[n]
      /\ mUsers[mNamedUsers[n]].mUserName = n
  BY <1>2 DEF DatabaseConsistent
<1>5. mUsers[mNamedUsers[n]] # NoUser
  BY <1>4, <1>2 DEF NoUser
<1> QED BY <1>1, <1>3, <1>4, <1>5

\* A user_from_id that found a user has found it under that id.
LEMMA IdOK ==
  ASSUME DatabaseInv, NEW u, user_from_id(u).mUserID # 0
  PROVE  /\ u \in UserIds
         /\ mUsers[u] \in User
         /\ mUsers[u].mUserID = u
         /\ user_from_id(u) = mUsers[u]
PROOF
<1>1. u \in UserIds /\ user_from_id(u) = mUsers[u]
  BY DEF user_from_id, NoUser
<1>2. mUsers[u] # NoUser
  BY <1>1 DEF NoUser
<1> QED BY <1>1, <1>2 DEF DatabaseInv, DatabaseTypeOK, DatabaseConsistent

\* add_user keeps the maps consistent.  It changes at most the entry of an
\* id that was free.
LEMMA AddUserOK ==
  ASSUME DatabaseInv, NEW n \in Names, NEW flags \in SUBSET Flags,
         NEW id \in UserIds \union {0}, DbAddUser(n, flags, id)
  PROVE  /\ DatabaseInv'
         /\ \A u \in UserIds : mUsers[u] # NoUser => mUsers'[u] = mUsers[u]
         /\ \A u \in UserIds : mUsers[u] = NoUser =>
              \/ mUsers'[u] = NoUser
              \/ mUsers'[u].mUserFlags = flags
PROOF
<1> USE DatabaseAssumption DEF DatabaseInv, DatabaseTypeOK
<1>1. CASE UNCHANGED dbVars
  BY <1>1 DEF dbVars, DatabaseConsistent
<1>2. CASE /\ mNamedUsers[n] = 0
           /\ NextFreeId(id)
           /\ id # 0
           /\ mUsers' = [mUsers EXCEPT ![id] =
                [mUserID |-> id, mUserName |-> n, mUserFlags |-> flags]]
           /\ mNamedUsers' = [mNamedUsers EXCEPT ![n] = id]
  <2> DEFINE new == [mUserID |-> id, mUserName |-> n, mUserFlags |-> flags]
  <2>1. id \in UserIds /\ mUsers[id] = NoUser
    BY <1>2 DEF NextFreeId
  <2>2. new \in User
    BY <2>1 DEF User
  <2>3. DatabaseTypeOK'
    BY <1>2, <2>1, <2>2
  <2>4. /\ \A u \in UserIds : mUsers'[u] = IF u = id THEN new ELSE mUsers[u]
        /\ \A m \in Names :
             mNamedUsers'[m] = IF m = n THEN id ELSE mNamedUsers[m]
    BY <1>2, <2>1
  <2>5. \A m \in Names : mNamedUsers[m] # id
    BY <2>1 DEF DatabaseConsistent, NoUser, UserIds
  <2>6. \A u \in UserIds : mUsers[u] # NoUser =>
          mUsers[u].mUserName \in Names /\ mUsers[u].mUserName # n
    BY <1>2 DEF DatabaseConsistent, User, UserIds
  <2>7. ASSUME NEW m \in Names, mNamedUsers'[m] # 0
        PROVE  /\ mUsers'[mNamedUsers'[m]].mUserID = mNamedUsers'[m]
               /\ mUsers'[mNamedUsers'[m]].mUserName = m
    BY <2>1, <2>4, <2>5, <2>7 DEF DatabaseConsistent
  <2>8. ASSUME NEW u \in UserIds, mUsers'[u] # NoUser
        PROVE  /\ mUsers'[u].mUserID = u
               /\ mNamedUsers'[mUsers'[u].mUserName] = u
    BY <2>1, <2>4, <2>6, <2>8 DEF DatabaseConsistent
  <2>9. DatabaseConsistent'
    BY <2>7, <2>8 DEF DatabaseConsistent
  <2> QED BY <2>1, <2>3, <2>4, <2>9
<1> QED BY <1>1, <1>2 DEF DbAddUser

\* delete_user keeps the maps consistent and touches one id.
LEMMA DeleteUserOK ==
  ASSUME DatabaseInv, NEW id \in UserIds, DbDeleteUser(id)
  PROVE  /\ DatabaseInv'
         /\ mUsers'[id] = NoUser
         /\ \A u \in UserIds : u # id => mUsers'[u] = mUsers[u]
PROOF
<1> USE DatabaseAssumption DEF DatabaseInv, DatabaseTypeOK
<1>1. /\ mUsers'[id] = NoUser
      /\ \A u \in UserIds : u # id => mUsers'[u] = mUsers[u]
      /\ \A n \in Names : mNamedUsers'[n] =
           IF mNamedUsers[n] = id THEN 0 ELSE mNamedUsers[n]
  BY DEF DbDeleteUser
<1>2. DatabaseTypeOK'
  BY DEF DbDeleteUser
<1>3. ASSUME NEW n \in Names, mNamedUsers'[n] # 0
      PROVE  /\ mUsers'[mNamedUsers'[n]].mUserID = mNamedUsers'[n]
             /\ mUsers'[mNamedUsers'[n]].mUserName = n
  BY <1>1, <1>3 DEF DatabaseConsistent
<1>4. ASSUME NEW u \in UserIds, mUsers'[u] # NoUser
      PROVE  /\ mUsers'[u].mUserID = u
             /\ mNamedUsers'[mUsers'[u].mUserName] = u
  BY <1>1, <1>4 DEF DatabaseConsistent, User
<1> QED BY <1>1, <1>2, <1>3, <1>4 DEF DatabaseConsistent

\* change_user_flags keeps the maps consistent; it changes the flags of one
\* user and neither anybody's name nor id.
LEMMA ChangeUserFlagsOK ==
  ASSUME DatabaseInv, NEW id \in UserIds, mUsers[id] # NoUser,
         NEW set \in SUBSET Flags, NEW clear \in SUBSET Flags, NEW saved,
         DbChangeUserFlags(id, set, clear, saved)
  PROVE  /\ DatabaseInv'
         /\ mUsers'[id].mUserFlags = (mUsers[id].mUserFlags \ clear) \union set
         /\ mUsers'[id].mUserName = mUsers[id].mUserName
         /\ mUsers'[id] # NoUser
         /\ \A u \in UserIds : u # id => mUsers'[u] = mUsers[u]
PROOF
<1> USE DatabaseAssumption DEF DatabaseInv, DatabaseTypeOK
<1> DEFINE new == [mUsers[id] EXCEPT !.mUserFlags = (@ \ clear) \union set]
<1>1. mUsers[id] \in User
  OBVIOUS
<1>2. /\ new \in User
      /\ new.mUserID = mUsers[id].mUserID
      /\ new.mUserName = mUsers[id].mUserName
      /\ new.mUserFlags = (mUsers[id].mUserFlags \ clear) \union set
  BY <1>1 DEF User
<1>3. mUsers' = [mUsers EXCEPT ![id] = new] /\ UNCHANGED mNamedUsers
  BY DEF DbChangeUserFlags
<1> HIDE DEF new
<1>4. new # NoUser
  BY <1>2, NoUserIsNoUser
<1>5. mUsers'[id] = new /\ \A u \in UserIds : u # id => mUsers'[u] = mUsers[u]
  BY <1>3
<1>6. DatabaseTypeOK'
  BY <1>2, <1>3
<1>7. DatabaseConsistent'
  BY <1>2, <1>3, <1>4, <1>5 DEF DatabaseConsistent
<1> QED BY <1>2, <1>4, <1>5, <1>6, <1>7

\* The two ways the handlers use it: one flag is set, or one is cleared.
LEMMA SetFlagOK ==
  ASSUME DatabaseInv, NEW id \in UserIds, mUsers[id] \in User,
         NEW flag \in Flags, NEW saved,
         DbChangeUserFlags(id, {flag}, {}, saved)
  PROVE  /\ DatabaseInv'
         /\ mUsers'[id].mUserFlags = mUsers[id].mUserFlags \union {flag}
         /\ mUsers'[id].mUserName = mUsers[id].mUserName
         /\ \A u \in UserIds : u # id => mUsers'[u] = mUsers[u]
PROOF
<1> DEFINE set == {flag}
           clear == {}
<1>1. /\ set \in SUBSET Flags
      /\ clear \in SUBSET Flags
      /\ DbChangeUserFlags(id, set, clear, saved)
  OBVIOUS
<1>2. \A F : (F \ clear) \union set = F \union {flag}
  OBVIOUS
<1>3. mUsers[id] # NoUser
  BY NoUserIsNoUser
<1> HIDE DEF set, clear
<1> QED BY <1>1, <1>2, <1>3, ChangeUserFlagsOK

\* One flag is cleared.
LEMMA ClearFlagOK ==
  ASSUME DatabaseInv, NEW id \in UserIds, mUsers[id] \in User,
         NEW flag \in Flags, NEW saved,
         DbChangeUserFlags(id, {}, {flag}, saved)
  PROVE  /\ DatabaseInv'
         /\ mUsers'[id].mUserFlags = mUsers[id].mUserFlags \ {flag}
         /\ mUsers'[id].mUserName = mUsers[id].mUserName
         /\ \A u \in UserIds : u # id => mUsers'[u] = mUsers[u]
PROOF
<1> DEFINE set == {}
           clear == {flag}
<1>1. /\ set \in SUBSET Flags
      /\ clear \in SUBSET Flags
      /\ DbChangeUserFlags(id, set, clear, saved)
  OBVIOUS
<1>2. \A F : (F \ clear) \union set = F \ {flag}
  OBVIOUS
<1>3. mUsers[id] # NoUser
  BY NoUserIsNoUser
<1> HIDE DEF set, clear
<1> QED BY <1>1, <1>2, <1>3, ChangeUserFlagsOK
=============================================================================
