-------------------------- MODULE FlatFile_proofs ---------------------------
(***************************************************************************)
(* Theorems about FlatFile: that saving and loading again gives the same   *)
(* accounts, that a restart loses none unless a save failed, and that a    *)
(* kick that was reported as done is known to everybody who looks for it.  *)
(***************************************************************************)
EXTENDS FlatFile, Database_proofs, SequenceTheorems, FiniteSetTheorems

-----------------------------------------------------------------------------
(* The invariants                                                          *)

\* No two records of a file have the same id or the same name.
Distinct(records) ==
  \A i, j \in 1 .. Len(records) :
    \/ records[i].mUserID = records[j].mUserID
    \/ records[i].mUserName = records[j].mUserName
    => i = j

\* What save_users has written and what it still has to write are the
\* accounts.
SavesAccounts ==
  writing.file = "accounts" =>
    /\ accountsFile \o writing.rest = Records(mUsers)
    /\ mUsers = expected

\* The kicks in the file.
FileKicks == IF kicklistFile = NoFile THEN {} ELSE Range(kicklistFile)

\* Once it has an entry the list in memory has every kick; before that the
\* file has.
KicksAreKept ==
  /\ mKicklist # <<>> => kicked \subseteq Range(mKicklist)
  /\ kicksSaved /\ writing.file # "kicklist" => kicked \subseteq FileKicks
  /\ ~ kicksSaved => mKicklist # <<>> /\ kicklistFile # NoFile

\* What save_kicklist has written and what it still has to write are the list
\* in memory.
SavesKicks ==
  writing.file = "kicklist" =>
    /\ mKicklist # <<>> /\ kicklistFile # NoFile
    /\ kicklistFile \o writing.rest = mKicklist

\* Where the threads are: at most one saves, and the user of a kick exists.
CallsOK ==
  /\ \A t \in Threads : calls[t].at = "read" => kicklistFile # NoFile
  /\ \A t \in Threads : calls[t] # NoCall /\ calls[t].next = "push" =>
       calls[t].user \in UserIds
  /\ \A t \in Threads : calls[t].at \in {"push", "look"} =>
       calls[t].next = calls[t].at
  /\ \A t \in Threads : calls[t].at = "save" =>
       /\ writing.file = "kicklist"
       /\ calls[t].user \in Range(mKicklist)
  /\ \A s, t \in Threads :
       calls[s].at = "save" /\ calls[t].at = "save" => s = t

\* The inductive invariant.
FlatFileInv ==
  /\ FlatFileTypeOK /\ DatabaseConsistent
  /\ Distinct(accountsFile) /\ SavesAccounts /\ RestartKeepsAccounts
  /\ KicksAreKept /\ SavesKicks /\ CallsOK /\ KickIsKnown

-----------------------------------------------------------------------------
(* Saving and loading                                                      *)

\* A set of ids in order: every place from the first to the last is taken by
\* one of them.
LEMMA Ranks ==
  ASSUME NEW S \in SUBSET UserIds
  PROVE  /\ Cardinality(S) \in Nat
         /\ \A i \in 1 .. Cardinality(S) :
              \E u \in S : Cardinality({w \in S : w <= u}) = i
         /\ \A u \in S :
              Cardinality({w \in S : w <= u}) \in 1 .. Cardinality(S)
         /\ \A u, v \in S :
              Cardinality({w \in S : w <= u}) = Cardinality({w \in S : w <= v})
                => u = v
PROOF
<1> DEFINE Below(u) == {w \in S : w <= u}
           f == [u \in S |-> Cardinality(Below(u))]
           n == Cardinality(S)
<1>1. /\ S \subseteq Nat /\ IsFiniteSet(S) /\ n \in Nat
  <2>1. /\ IsFiniteSet(UserIds) /\ UserIds \subseteq Nat
    BY DatabaseAssumption, FS_Interval DEF UserIds
  <2> QED BY <2>1, FS_Subset, FS_CardinalityType
<1>2. \A u \in S : /\ Below(u) \subseteq S /\ u \in Below(u)
                   /\ IsFiniteSet(Below(u)) /\ Cardinality(Below(u)) \in Nat
                   /\ Cardinality(Below(u)) <= n
  BY <1>1, FS_Subset, FS_CardinalityType
<1>3. \A u \in S : Cardinality(Below(u)) \in 1 .. n
  <2>1. TAKE u \in S
  <2>2. Cardinality(Below(u)) # 0
    BY <1>2, FS_EmptySet
  <2> QED BY <1>1, <1>2, <2>2
<1>4. ASSUME NEW u \in S, NEW v \in S, u < v
      PROVE  Cardinality(Below(u)) # Cardinality(Below(v))
  <2>1. \A w \in S : w \in Nat
    BY <1>1
  <2>2. \A w \in S : w <= u => w <= v
    BY <2>1, <1>4
  <2>3. ~ v <= u
    BY <2>1, <1>4
  <2>4. Below(u) \in SUBSET Below(v) /\ Below(u) # Below(v)
    BY <1>2, <2>2, <2>3
  <2>5. IsFiniteSet(Below(v))
    BY <1>2
  <2> HIDE DEF Below
  <2> QED BY <2>4, <2>5, FS_Subset
<1>5. \A u, v \in S : Cardinality(Below(u)) = Cardinality(Below(v)) => u = v
  <2>1. \A u, v \in S : u < v \/ v < u \/ u = v
    BY <1>1
  <2> QED BY <1>4, <2>1
<1>6. f \in Injection(S, 1 .. n)
  BY <1>3, <1>5 DEF Injection, IsInjective
<1>7. IsFiniteSet(1 .. n) /\ Cardinality(1 .. n) = n
  BY <1>1, FS_Interval
<1>8. f \in Surjection(S, 1 .. n)
  BY <1>6, <1>7, FS_Injection
<1>9. \A i \in 1 .. n : \E u \in S : Cardinality(Below(u)) = i
  BY <1>8 DEF Surjection
<1> QED BY <1>1, <1>3, <1>5, <1>9

\* save_users writes one record per user.
LEMMA RecordsOf ==
  ASSUME NEW users \in [UserIds -> User \union {NoUser}]
  PROVE  /\ Records(users) \in Seq(User)
         /\ \A i \in 1 .. Len(Records(users)) :
              \E u \in UserIds :
                /\ users[u] # NoUser /\ Records(users)[i] = users[u]
                /\ Cardinality({w \in UserIds : users[w] # NoUser /\ w <= u})
                     = i
         /\ \A u \in UserIds :
              users[u] # NoUser => users[u] \in Range(Records(users))
PROOF
<1> DEFINE S == {u \in UserIds : users[u] # NoUser}
           Rank(u) == Cardinality({w \in S : w <= u})
           n == Cardinality(S)
           At(i) == CHOOSE u \in S : Rank(u) = i
           r == [i \in 1 .. n |-> users[At(i)]]
<1>1. Records(users) = r
  BY DEF Records
<1>2. /\ n \in Nat
      /\ \A i \in 1 .. n : \E u \in S : Rank(u) = i
      /\ \A u \in S : Rank(u) \in 1 .. n
      /\ \A u, v \in S : Rank(u) = Rank(v) => u = v
  BY Ranks
<1> HIDE DEF Rank, n
<1>3. \A i \in 1 .. n : At(i) \in S /\ Rank(At(i)) = i
  BY <1>2
<1>4. \A u \in S : At(Rank(u)) = u
  BY <1>2, <1>3
<1> HIDE DEF At
<1>5. \A u \in S : users[u] \in User /\ u \in UserIds /\ users[u] # NoUser
  OBVIOUS
<1> HIDE DEF S
<1>6. r \in Seq(User) /\ Len(r) = n /\ DOMAIN r = 1 .. n
  <2>1. \A i \in 1 .. n : users[At(i)] \in User
    BY <1>3, <1>5
  <2> QED BY <1>2, <2>1
<1>7. \A u \in S : users[u] \in Range(r)
  <2>1. TAKE u \in S
  <2>2. Rank(u) \in 1 .. n /\ r[Rank(u)] = users[u]
    BY <1>2, <1>4
  <2> QED BY <1>6, <2>2 DEF Range
<1>8. \A u : Rank(u) =
             Cardinality({w \in UserIds : users[w] # NoUser /\ w <= u})
  <2>1. \A u : {w \in S : w <= u} =
               {w \in UserIds : users[w] # NoUser /\ w <= u}
    BY DEF S
  <2> QED BY <2>1 DEF Rank
<1>9. \A u \in UserIds : users[u] # NoUser => u \in S
  BY DEF S
<1>10. \A i \in 1 .. Len(r) : \E u \in UserIds :
         /\ users[u] # NoUser /\ r[i] = users[u]
         /\ Cardinality({w \in UserIds : users[w] # NoUser /\ w <= u}) = i
  BY <1>3, <1>5, <1>6, <1>8
<1> QED BY <1>1, <1>6, <1>7, <1>9, <1>10

\* What save_users writes, load_users reads.
LEMMA LoadsWhatIsSaved ==
  DatabaseInv =>
    /\ Records(mUsers) \in Seq(User)
    /\ Distinct(Records(mUsers))
    /\ LoadedUsers(Records(mUsers)) = mUsers
    /\ LoadedNames(Records(mUsers)) = mNamedUsers
PROOF
<1> SUFFICES ASSUME DatabaseInv
             PROVE  /\ Records(mUsers) \in Seq(User)
                    /\ Distinct(Records(mUsers))
                    /\ LoadedUsers(Records(mUsers)) = mUsers
                    /\ LoadedNames(Records(mUsers)) = mNamedUsers
  OBVIOUS
<1> DEFINE r == Records(mUsers)
<1>1. /\ mUsers \in [UserIds -> User \union {NoUser}]
      /\ mNamedUsers \in [Names -> UserIds \union {0}]
  BY DEF DatabaseInv, DatabaseTypeOK
<1>2. /\ r \in Seq(User)
      /\ \A i \in 1 .. Len(r) :
           \E u \in UserIds :
             /\ mUsers[u] # NoUser /\ r[i] = mUsers[u]
             /\ Cardinality({w \in UserIds : mUsers[w] # NoUser /\ w <= u}) = i
      /\ \A u \in UserIds : mUsers[u] # NoUser => mUsers[u] \in Range(r)
  BY <1>1, RecordsOf
<1> HIDE DEF r
<1>3. \A u \in UserIds : mUsers[u] # NoUser =>
        /\ mUsers[u].mUserID = u
        /\ mNamedUsers[mUsers[u].mUserName] = u
        /\ mUsers[u].mUserName \in Names
  BY <1>1 DEF DatabaseInv, DatabaseConsistent, User
<1>4. \A x \in Range(r) :
        \E u \in UserIds : mUsers[u] # NoUser /\ x = mUsers[u]
  <2>1. Range(r) = {r[i] : i \in 1 .. Len(r)}
    BY <1>2, RangeEquality
  <2>2. TAKE x \in Range(r)
  <2>3. PICK i \in 1 .. Len(r) : x = r[i]
    BY <2>1
  <2> QED BY <1>2, <2>3
<1>5. Distinct(r)
  <2>1. SUFFICES ASSUME NEW i \in 1 .. Len(r), NEW j \in 1 .. Len(r),
                        \/ r[i].mUserID = r[j].mUserID
                        \/ r[i].mUserName = r[j].mUserName
                 PROVE  i = j
    BY DEF Distinct
  <2>2. PICK u \in UserIds :
          /\ mUsers[u] # NoUser /\ r[i] = mUsers[u]
          /\ Cardinality({w \in UserIds : mUsers[w] # NoUser /\ w <= u}) = i
    BY <1>2
  <2>3. PICK v \in UserIds :
          /\ mUsers[v] # NoUser /\ r[j] = mUsers[v]
          /\ Cardinality({w \in UserIds : mUsers[w] # NoUser /\ w <= v}) = j
    BY <1>2
  <2>4. u = v
    BY <1>3, <2>1, <2>2, <2>3
  <2> QED BY <2>2, <2>3, <2>4
<1>6. ASSUME NEW u \in UserIds
      PROVE  LoadedUsers(r)[u] = mUsers[u]
  <2>1. CASE mUsers[u] # NoUser
    <3>1. mUsers[u] \in Range(r) /\ mUsers[u].mUserID = u
      BY <1>2, <1>3, <2>1
    <3>2. \A x \in Range(r) : x.mUserID = u => x = mUsers[u]
      BY <1>3, <1>4
    <3> QED BY <3>1, <3>2 DEF LoadedUsers
  <2>2. CASE mUsers[u] = NoUser
    <3>1. ~ \E x \in Range(r) : x.mUserID = u
      BY <1>3, <1>4, <2>2
    <3> QED BY <2>2, <3>1 DEF LoadedUsers
  <2> QED BY <2>1, <2>2
<1>7. ASSUME NEW n \in Names
      PROVE  LoadedNames(r)[n] = mNamedUsers[n]
  <2>1. CASE mNamedUsers[n] # 0
    <3> DEFINE x == mUsers[mNamedUsers[n]]
    <3>1. /\ mNamedUsers[n] \in UserIds
          /\ x.mUserID = mNamedUsers[n] /\ x.mUserName = n
      BY <1>1, <2>1 DEF DatabaseInv, DatabaseConsistent
    <3>2. x # NoUser
      BY <2>1, <3>1 DEF NoUser
    <3>3. x \in Range(r)
      BY <1>2, <3>1, <3>2
    <3>4. \A y \in Range(r) : y.mUserName = n => y = x
      BY <1>3, <1>4
    <3> HIDE DEF x
    <3> QED BY <3>1, <3>3, <3>4 DEF LoadedNames
  <2>2. CASE mNamedUsers[n] = 0
    <3>1. ~ \E x \in Range(r) : x.mUserName = n
      <4>1. 0 \notin UserIds
        BY DEF UserIds
      <4> QED BY <1>3, <1>4, <2>2, <4>1
    <3> QED BY <2>2, <3>1 DEF LoadedNames
  <2> QED BY <2>1, <2>2
<1>8. LoadedUsers(r) = mUsers
  BY <1>1, <1>6 DEF LoadedUsers
<1>9. LoadedNames(r) = mNamedUsers
  BY <1>1, <1>7 DEF LoadedNames
<1> QED BY <1>2, <1>5, <1>8, <1>9 DEF r

\* load_users makes consistent maps of any file with distinct records.
LEMMA LoadsConsistently ==
  ASSUME NEW records \in Seq(User), Distinct(records),
         mUsers' = LoadedUsers(records), mNamedUsers' = LoadedNames(records)
  PROVE  DatabaseInv'
PROOF
<1> DEFINE AtId(u) == CHOOSE x \in Range(records) : x.mUserID = u
           AtName(n) == CHOOSE x \in Range(records) : x.mUserName = n
<1>1. \A x \in Range(records) :
        /\ x \in User /\ x.mUserID \in UserIds /\ x.mUserID # 0
        /\ x.mUserName \in Names
  <2>1. Range(records) \subseteq User
    BY RangeOfSeq
  <2> QED BY <2>1 DEF User, UserIds
<1>2. \A x, y \in Range(records) :
        x.mUserID = y.mUserID \/ x.mUserName = y.mUserName => x = y
  <2>1. Range(records) = {records[i] : i \in 1 .. Len(records)}
    BY RangeEquality
  <2> QED BY <2>1 DEF Distinct
<1>3. \A x \in Range(records) :
        AtId(x.mUserID) = x /\ AtName(x.mUserName) = x
  BY <1>2
<1>4. ASSUME NEW u \in UserIds
      PROVE  \/ /\ mUsers'[u] \in Range(records)
                /\ mUsers'[u].mUserID = u
             \/ mUsers'[u] = NoUser
  BY DEF LoadedUsers
<1>5. \A x \in Range(records) : mUsers'[x.mUserID] = x
  BY <1>1, <1>3 DEF LoadedUsers
<1>6. \A x \in Range(records) : mNamedUsers'[x.mUserName] = x.mUserID
  BY <1>1, <1>3 DEF LoadedNames
<1>7. ASSUME NEW n \in Names
      PROVE  \/ \E x \in Range(records) :
                  x.mUserName = n /\ mNamedUsers'[n] = x.mUserID
             \/ mNamedUsers'[n] = 0
  BY DEF LoadedNames
<1>8. DatabaseTypeOK'
  <2>1. /\ mUsers' = [u \in UserIds |-> mUsers'[u]]
        /\ mNamedUsers' = [n \in Names |-> mNamedUsers'[n]]
    BY DEF LoadedUsers, LoadedNames
  <2>2. \A u \in UserIds : mUsers'[u] \in User \union {NoUser}
    BY <1>1, <1>4
  <2>3. \A n \in Names : mNamedUsers'[n] \in UserIds \union {0}
    BY <1>1, <1>7
  <2> QED BY <2>1, <2>2, <2>3 DEF DatabaseTypeOK
<1>9. DatabaseConsistent'
  <2>1. ASSUME NEW n \in Names, mNamedUsers'[n] # 0
        PROVE  /\ mUsers'[mNamedUsers'[n]].mUserID = mNamedUsers'[n]
               /\ mUsers'[mNamedUsers'[n]].mUserName = n
    BY <1>5, <1>7, <2>1
  <2>2. ASSUME NEW u \in UserIds, mUsers'[u] # NoUser
        PROVE  /\ mUsers'[u].mUserID = u
               /\ mNamedUsers'[mUsers'[u].mUserName] = u
    BY <1>4, <1>6, <2>2
  <2> QED BY <2>1, <2>2 DEF DatabaseConsistent
<1> QED BY <1>8, <1>9 DEF DatabaseInv

\* Whatever the file has, load_users makes a map of it.
LEMMA LoadedType ==
  ASSUME NEW records \in Seq(User)
  PROVE  LoadedUsers(records) \in [UserIds -> User \union {NoUser}]
BY RangeOfSeq DEF LoadedUsers

\* And a server that loads no file has maps that are consistent.
LEMMA EmptyIsConsistent ==
  ASSUME mUsers' = [u \in UserIds |-> NoUser],
         mNamedUsers' = [n \in Names |-> 0]
  PROVE  DatabaseInv'
BY DEF DatabaseInv, DatabaseTypeOK, DatabaseConsistent

-----------------------------------------------------------------------------
(* Types                                                                   *)

\* Calls that are under way.
CallRecords ==
  [at : {"open", "read", "push", "look", "save"},
   next : {"push", "look"}, user : UserIds \union {0}, loaded : BOOLEAN]

\* What is known of the file that is being written.
LEMMA WritingFacts ==
  ASSUME FlatFileTypeOK
  PROVE  /\ writing.file \in {"none", "accounts", "kicklist"}
         /\ writing.file = "none" => writing = NotWriting
         /\ writing.file = "accounts" =>
              /\ writing.rest \in Seq(User)
              /\ writing = [file |-> "accounts", rest |-> writing.rest]
         /\ writing.file = "kicklist" =>
              /\ writing.rest \in Seq(UserIds)
              /\ writing = [file |-> "kicklist", rest |-> writing.rest]
PROOF
<1>1. \/ writing = NotWriting
      \/ writing \in [file : {"accounts"}, rest : Seq(User)]
      \/ writing \in [file : {"kicklist"}, rest : Seq(UserIds)]
  BY DEF FlatFileTypeOK
<1> QED BY <1>1 DEF NotWriting

\* And of a call that is at some place.
LEMMA CallFacts ==
  ASSUME FlatFileTypeOK, NEW t \in Threads
  PROVE  /\ calls[t] = NoCall \/ calls[t] \in CallRecords
         /\ calls[t].at # "idle" => calls[t] \in CallRecords
         /\ DOMAIN calls = Threads
         /\ calls \in [Threads -> {NoCall} \union CallRecords]
PROOF
<1>1. calls \in [Threads -> {NoCall} \union CallRecords]
  BY DEF FlatFileTypeOK, CallRecords
<1> QED BY <1>1 DEF NoCall

\* A call that moves on.
LEMMA GotoOK ==
  ASSUME FlatFileTypeOK, NEW t \in Threads, calls[t].at # "idle",
         NEW place \in {"open", "read", "push", "look", "save"},
         NEW loaded \in BOOLEAN,
         \/ Goto(t, place) /\ loaded = calls[t].loaded
         \/ calls' = [calls EXCEPT ![t].at = place, ![t].loaded = loaded]
  PROVE  /\ calls' \in [Threads -> {NoCall} \union CallRecords]
         /\ calls'[t] = [at |-> place, next |-> calls[t].next,
                         user |-> calls[t].user, loaded |-> loaded]
         /\ \A s \in Threads : s # t => calls'[s] = calls[s]
PROOF
<1>1. calls \in [Threads -> {NoCall} \union CallRecords]
      /\ calls[t] \in CallRecords
  BY CallFacts
<1>2. calls[t] = [at |-> calls[t].at, next |-> calls[t].next,
                  user |-> calls[t].user, loaded |-> calls[t].loaded]
  BY <1>1 DEF CallRecords
<1> DEFINE c == [at |-> place, next |-> calls[t].next,
                 user |-> calls[t].user, loaded |-> loaded]
<1>3. c \in CallRecords
  BY <1>1 DEF CallRecords
<1>4. calls' = [calls EXCEPT ![t] = c]
  <2>1. CASE Goto(t, place) /\ loaded = calls[t].loaded
    <3>1. [calls[t] EXCEPT !.at = place] = c
      BY <1>2, <2>1
    <3>2. calls' = [calls EXCEPT ![t] = [calls[t] EXCEPT !.at = place]]
      BY <2>1 DEF Goto
    <3> QED BY <3>1, <3>2
  <2>2. CASE calls' = [calls EXCEPT ![t].at = place, ![t].loaded = loaded]
    <3> DEFINE e == [at |-> place, next |-> calls[t].next,
                     user |-> calls[t].user, loaded |-> calls[t].loaded]
    <3>1. /\ [calls[t] EXCEPT !.at = place] = e
          /\ [e EXCEPT !.loaded = loaded] = c
      <4>1. [e EXCEPT !.loaded = loaded] = c
        OBVIOUS
      <4> QED BY <1>2, <4>1
    <3> DEFINE d == [calls EXCEPT ![t].at = place]
    <3>2. /\ d \in [Threads -> {NoCall} \union CallRecords]
          /\ d[t] = [calls[t] EXCEPT !.at = place]
          /\ \A s \in Threads : s # t => d[s] = calls[s]
      <4>1. [calls[t] EXCEPT !.at = place] \in CallRecords
        BY <1>1 DEF CallRecords
      <4> QED BY <1>1, <4>1
    <3>3. calls' = [d EXCEPT ![t].loaded = loaded]
      BY <2>2
    <3> HIDE DEF d, c, e
    <3>4. calls' = [d EXCEPT ![t] = c]
      <4>1. calls' = [d EXCEPT ![t] = [d[t] EXCEPT !.loaded = loaded]]
        BY <3>3
      <4> QED BY <3>1, <3>2, <4>1
    <3>5. \A s \in Threads :
            calls'[s] = IF s = t THEN c ELSE calls[s]
      BY <3>2, <3>4
    <3>6. calls' = [s \in Threads |-> calls'[s]]
      BY <3>2, <3>4
    <3> QED BY <1>1, <3>5, <3>6
  <2> QED BY <2>1, <2>2
<1> HIDE DEF c
<1>5. /\ calls' \in [Threads -> {NoCall} \union CallRecords]
      /\ calls'[t] = c
      /\ \A s \in Threads : s # t => calls'[s] = calls[s]
  BY <1>1, <1>3, <1>4
<1> QED BY <1>5 DEF c

\* The beginning of a save of the accounts, after one of them changed.
LEMMA SaveBegins ==
  ASSUME DatabaseInv, FlatFileTypeOK, RestartKeepsAccounts,
         \/ \E n \in Names, flags \in NewFlags : AddUser(n, flags)
         \/ \E id \in UserIds : DeleteUser(id)
         \/ \E id \in UserIds, c \in Changes : ChangeUserFlags(id, c[1], c[2])
  PROVE  /\ DatabaseInv'
         /\ Unlocked /\ expected' = mUsers'
         /\ UNCHANGED <<calls, kickVars>>
         /\ \/ /\ accountsFile' = <<>>
               /\ writing' = [file |-> "accounts", rest |-> Records(mUsers')]
               /\ UNCHANGED accountsSaved
            \/ /\ accountsSaved' = FALSE
               /\ UNCHANGED <<accountsFile, writing>>
PROOF
<1>s. ASSUME NEW saved \in BOOLEAN, Asked, BeginSaveUsers(saved), DatabaseInv'
      PROVE  expected' = mUsers'
  <2>1. mUsers = expected
    BY <1>s DEF Asked, RestartKeepsAccounts, NoUser
  <2>2. mUsers' = [u \in UserIds |-> mUsers'[u]]
    BY <1>s DEF DatabaseInv, DatabaseTypeOK
  <2> QED BY <1>s, <2>1, <2>2 DEF BeginSaveUsers
<1>1. CASE \E n \in Names, flags \in NewFlags : AddUser(n, flags)
  <2>1. PICK n \in Names, flags \in NewFlags, id \in UserIds :
          /\ DbAddUser(n, flags, id)
          /\ Unlocked /\ Asked /\ UNCHANGED <<calls, kickVars>>
          /\ \E saved \in BOOLEAN : BeginSaveUsers(saved)
    BY <1>1 DEF AddUser
  <2>2. flags \in SUBSET Flags
    BY FlatFileAssumption
  <2>3. DatabaseInv'
    BY <2>1, <2>2, AddUserOK
  <2> QED BY <1>s, <2>1, <2>3 DEF BeginSaveUsers, ToSave
<1>2. CASE \E id \in UserIds : DeleteUser(id)
  <2>1. PICK id \in UserIds :
          /\ DbDeleteUser(id)
          /\ Unlocked /\ Asked /\ UNCHANGED <<calls, kickVars>>
          /\ \E saved \in BOOLEAN : BeginSaveUsers(saved)
    BY <1>2 DEF DeleteUser
  <2>2. DatabaseInv'
    BY <2>1, DeleteUserOK
  <2> QED BY <1>s, <2>1, <2>2 DEF BeginSaveUsers, ToSave
<1>3. CASE \E id \in UserIds, c \in Changes : ChangeUserFlags(id, c[1], c[2])
  <2>1. PICK id \in UserIds, c \in Changes, saved \in BOOLEAN :
          /\ mUsers[id] # NoUser
          /\ DbChangeUserFlags(id, c[1], c[2], saved)
          /\ Unlocked /\ Asked /\ UNCHANGED <<calls, kickVars>>
          /\ BeginSaveUsers(saved)
    BY <1>3 DEF ChangeUserFlags
  <2>2. c[1] \in SUBSET Flags /\ c[2] \in SUBSET Flags
    BY FlatFileAssumption
  <2>3. DatabaseInv'
    BY <2>1, <2>2, ChangeUserFlagsOK
  <2> QED BY <1>s, <2>1, <2>3 DEF BeginSaveUsers, ToSave
<1> QED BY <1>1, <1>2, <1>3

\* One turn of a loop that writes a file: what is written and what is left
\* are together what they were.
LEMMA WriteOne ==
  ASSUME NEW S, NEW f \in Seq(S), NEW r \in Seq(S), r # <<>>
  PROVE  /\ Head(r) \in S /\ Tail(r) \in Seq(S)
         /\ Append(f, Head(r)) \in Seq(S)
         /\ Append(f, Head(r)) \o Tail(r) = f \o r
PROOF
<1>1. Head(r) \in S /\ Tail(r) \in Seq(S) /\ <<Head(r)>> \in Seq(S)
  BY HeadTailProperties
<1>2. Append(f, Head(r)) \in Seq(S) /\ Append(f, Head(r)) = f \o <<Head(r)>>
  BY <1>1, AppendProperties, AppendIsConcat
<1>3. r = <<Head(r)>> \o Tail(r)
  OBVIOUS
<1>4. (f \o <<Head(r)>>) \o Tail(r) = f \o (<<Head(r)>> \o Tail(r))
  BY <1>1, ConcatAssociative
<1> QED BY <1>1, <1>2, <1>3, <1>4

\* A file stays distinct when a record of the next id and name is added.
LEMMA WriteDistinct ==
  ASSUME NEW f \in Seq(User), NEW r \in Seq(User), r # <<>>, Distinct(f \o r),
         NEW x \in User, x.mUserID = Head(r).mUserID,
         x.mUserName = Head(r).mUserName
  PROVE  Append(f, x) \in Seq(User) /\ Distinct(Append(f, x))
PROOF
<1>1. Len(f) \in Nat /\ Len(r) \in Nat /\ Len(r) # 0
  BY LenProperties, EmptySeq
<1>2. /\ Len(f \o r) = Len(f) + Len(r)
      /\ \A i \in 1 .. Len(f) : (f \o r)[i] = f[i]
      /\ (f \o r)[Len(f) + 1] = Head(r)
  <2>1. \A i \in 1 .. Len(f) + Len(r) :
          (f \o r)[i] = IF i <= Len(f) THEN f[i] ELSE r[i - Len(f)]
    BY ConcatProperties
  <2>2. Head(r) = r[1]
    OBVIOUS
  <2> QED BY <1>1, <2>1, <2>2, ConcatProperties
<1>3. /\ Append(f, x) \in Seq(User) /\ Len(Append(f, x)) = Len(f) + 1
      /\ \A i \in 1 .. Len(f) : Append(f, x)[i] = f[i]
      /\ Append(f, x)[Len(f) + 1] = x
  BY AppendProperties
<1> DEFINE g == Append(f, x)
           h == f \o r
<1>4. \A i \in 1 .. Len(g) :
        /\ i \in 1 .. Len(h)
        /\ g[i].mUserID = h[i].mUserID /\ g[i].mUserName = h[i].mUserName
  BY <1>1, <1>2, <1>3
<1>5. Distinct(h)
  OBVIOUS
<1> HIDE DEF g, h
<1>6. Distinct(g)
  BY <1>4, <1>5 DEF Distinct
<1> QED BY <1>3, <1>6 DEF g

\* The types, and that the maps of users are inverse to each other.
LEMMA FlatFileTypeStep ==
  ASSUME FlatFileInv, [Next]_vars
  PROVE  FlatFileTypeOK' /\ DatabaseConsistent'
PROOF
<1>t. /\ FlatFileTypeOK /\ DatabaseConsistent /\ DatabaseInv /\ CallsOK
      /\ RestartKeepsAccounts
  BY DEF FlatFileInv, FlatFileTypeOK, DatabaseInv
<1>d. UNCHANGED dbVars => DatabaseInv'
  BY <1>t DEF DatabaseInv, DatabaseTypeOK, DatabaseConsistent, dbVars
<1>u. /\ accountsFile \in Seq(User) /\ mKicklist \in Seq(UserIds)
      /\ kicklistFile \in Seq(UserIds) \union {NoFile}
      /\ kicked \in SUBSET UserIds
      /\ accountsSaved \in BOOLEAN /\ kicksSaved \in BOOLEAN
      /\ expected \in [UserIds -> User \union {NoUser}]
  BY <1>t DEF FlatFileTypeOK
<1>w. /\ writing \in {NotWriting}
           \union [file : {"accounts"}, rest : Seq(User)]
           \union [file : {"kicklist"}, rest : Seq(UserIds)]
      /\ NotWriting' = NotWriting
  BY <1>t DEF FlatFileTypeOK, NotWriting
<1>c. calls \in [Threads -> {NoCall} \union CallRecords]
  BY <1>t DEF FlatFileTypeOK, CallRecords
<1> DEFINE DbFiles ==
             /\ DatabaseInv
             /\ accountsFile \in Seq(User) /\ accountsSaved \in BOOLEAN
             /\ expected \in [UserIds -> User \union {NoUser}]
           KickFiles ==
             /\ mKicklist \in Seq(UserIds)
             /\ kicklistFile \in Seq(UserIds) \union {NoFile}
             /\ kicked \in SUBSET UserIds /\ kicksSaved \in BOOLEAN
           WritingOK ==
             writing \in {NotWriting}
               \union [file : {"accounts"}, rest : Seq(User)]
               \union [file : {"kicklist"}, rest : Seq(UserIds)]
           CallsTypeOK == calls \in [Threads -> {NoCall} \union CallRecords]
<1>g. DbFiles' /\ KickFiles' /\ WritingOK' /\ CallsTypeOK' =>
        FlatFileTypeOK' /\ DatabaseConsistent'
  BY DEF FlatFileTypeOK, DatabaseInv, CallRecords
<1>k. UNCHANGED kickVars => KickFiles'
  BY <1>u DEF kickVars
<1>a. UNCHANGED accountVars => DbFiles'
  BY <1>d, <1>u DEF accountVars
<1>b. UNCHANGED calls => CallsTypeOK'
  BY <1>c
<1>e. UNCHANGED writing => WritingOK'
  BY <1>w
<1>n. writing' = NotWriting => WritingOK'
  OBVIOUS
<1> HIDE DEF DbFiles, KickFiles, WritingOK, CallsTypeOK
<1>1. CASE \/ \E n \in Names, flags \in NewFlags : AddUser(n, flags)
           \/ \E id \in UserIds : DeleteUser(id)
           \/ \E id \in UserIds, c \in Changes :
                ChangeUserFlags(id, c[1], c[2])
  <2>1. /\ DatabaseInv' /\ expected' = mUsers' /\ UNCHANGED <<calls, kickVars>>
        /\ \/ /\ accountsFile' = <<>>
              /\ writing' = [file |-> "accounts", rest |-> Records(mUsers')]
              /\ UNCHANGED accountsSaved
           \/ /\ accountsSaved' = FALSE
              /\ UNCHANGED <<accountsFile, writing>>
    BY <1>1, <1>t, SaveBegins
  <2>2. Records(mUsers') \in Seq(User)
    <3>1. mUsers' \in [UserIds -> User \union {NoUser}]
      BY <2>1 DEF DatabaseInv, DatabaseTypeOK
    <3> QED BY <3>1, RecordsOf
  <2>3. DbFiles'
    <3>1. accountsFile' \in Seq(User) /\ accountsSaved' \in BOOLEAN
      BY <1>u, <2>1, EmptySeq
    <3>2. expected' \in [UserIds -> User \union {NoUser}]
      BY <2>1 DEF DatabaseInv, DatabaseTypeOK
    <3> QED BY <2>1, <3>1, <3>2 DEF DbFiles
  <2>4. WritingOK'
    <3> DEFINE rest == Records(mUsers')
    <3>1. rest \in Seq(User)
      BY <2>1, <2>2
    <3>2. \/ writing' = [file |-> "accounts", rest |-> rest]
          \/ UNCHANGED writing
      BY <2>1
    <3> HIDE DEF rest
    <3>3. CASE writing' = [file |-> "accounts", rest |-> rest]
      BY <3>1, <3>3 DEF WritingOK
    <3> QED BY <1>e, <3>2, <3>3
  <2> QED BY <1>g, <1>k, <1>b, <2>1, <2>3, <2>4
<1>2. CASE WriteUser \/ EndSaveUsers \/ DiskFullOfUsers
  <2>1. /\ UNCHANGED <<dbVars, calls, expected, kickVars>>
        /\ writing.file = "accounts" /\ writing.rest \in Seq(User)
        /\ writing = [file |-> "accounts", rest |-> writing.rest]
    BY <1>2, <1>t, WritingFacts DEF WriteUser, EndSaveUsers, DiskFullOfUsers
  <2>2. CASE WriteUser
    <3>1. /\ accountsFile' = Append(accountsFile, Head(writing.rest))
          /\ writing.rest # <<>>
          /\ writing' = [writing EXCEPT !.rest = Tail(@)]
          /\ UNCHANGED accountsSaved
      BY <2>2 DEF WriteUser
    <3>2. /\ accountsFile' \in Seq(User) /\ Tail(writing.rest) \in Seq(User)
      BY <1>u, <2>1, <3>1, WriteOne
    <3>3. writing' = [file |-> "accounts", rest |-> Tail(writing.rest)]
      BY <2>1, <3>1
    <3>4. DbFiles'
      BY <1>d, <1>u, <2>1, <3>1, <3>2 DEF DbFiles
    <3>5. WritingOK'
      BY <3>2, <3>3 DEF WritingOK
    <3> QED BY <1>g, <1>k, <1>b, <2>1, <3>4, <3>5
  <2>3. CASE EndSaveUsers
    <3>1. /\ accountsSaved' = TRUE /\ writing' = NotWriting
          /\ UNCHANGED accountsFile
      BY <2>3 DEF EndSaveUsers
    <3>2. DbFiles'
      BY <1>d, <1>u, <2>1, <3>1 DEF DbFiles
    <3> QED BY <1>g, <1>k, <1>b, <1>n, <2>1, <3>1, <3>2
  <2>4. CASE DiskFullOfUsers
    <3> DEFINE x == [Head(writing.rest) EXCEPT !.mUserFlags = {}]
    <3>1. /\ accountsFile' \in {accountsFile, Append(accountsFile, x)}
          /\ writing.rest # <<>>
          /\ accountsSaved' = FALSE /\ writing' = NotWriting
      BY <2>4 DEF DiskFullOfUsers
    <3>2. x \in User
      <4>1. Head(writing.rest) \in User
        BY <2>1, <3>1, HeadTailProperties
      <4> QED BY <4>1 DEF User
    <3>3. accountsFile' \in Seq(User)
      BY <1>u, <3>1, <3>2, AppendProperties
    <3>4. DbFiles'
      BY <1>d, <1>u, <2>1, <3>1, <3>3 DEF DbFiles
    <3> QED BY <1>g, <1>k, <1>b, <1>n, <2>1, <3>1, <3>4
  <2> QED BY <1>2, <2>2, <2>3, <2>4
<1>3. ASSUME NEW t \in Threads,
             \/ \E u \in Targets : Call(t, "push", u)
             \/ Call(t, "look", 0)
      PROVE  FlatFileTypeOK' /\ DatabaseConsistent'
  <2>1. PICK next \in {"push", "look"}, u \in UserIds \union {0} :
          Call(t, next, u)
    BY <1>3, FlatFileAssumption
  <2>2. /\ UNCHANGED <<accountVars, writing, kickVars>>
        /\ calls' = [calls EXCEPT ![t] = [at |-> AfterTest(next),
                       next |-> next, user |-> u, loaded |-> TRUE]]
    BY <2>1 DEF Call
  <2>3. [at |-> AfterTest(next), next |-> next, user |-> u, loaded |-> TRUE]
          \in CallRecords
    BY DEF AfterTest, CallRecords
  <2>4. CallsTypeOK'
    BY <1>c, <2>2, <2>3 DEF CallsTypeOK
  <2> QED BY <1>g, <1>a, <1>k, <1>e, <2>2, <2>4
<1>4. ASSUME NEW t \in Threads, OpenKicklist(t) \/ OpenKicklistFails(t)
      PROVE  FlatFileTypeOK' /\ DatabaseConsistent'
  <2>1. /\ UNCHANGED <<accountVars, writing, kickVars>>
        /\ calls[t].at = "open"
    BY <1>4 DEF OpenKicklist, OpenKicklistFails
  <2>2. calls[t].next \in {"push", "look"} /\ calls[t].loaded \in BOOLEAN
    BY <1>t, <2>1, CallFacts DEF CallRecords
  <2>3. CASE OpenKicklist(t)
    <3> DEFINE place == IF kicklistFile # NoFile THEN "read" ELSE calls[t].next
    <3>1. Goto(t, place) /\ place \in {"open", "read", "push", "look", "save"}
      BY <2>2, <2>3 DEF OpenKicklist
    <3> HIDE DEF place
    <3>2. CallsTypeOK'
      BY <1>t, <2>1, <2>2, <3>1, GotoOK DEF CallsTypeOK
    <3> QED BY <1>g, <1>a, <1>k, <1>e, <2>1, <3>2
  <2>4. CASE OpenKicklistFails(t)
    <3>1. calls' = [calls EXCEPT ![t].at = calls[t].next, ![t].loaded = FALSE]
      BY <2>4 DEF OpenKicklistFails
    <3>2. CallsTypeOK'
      BY <1>t, <2>1, <2>2, <3>1, GotoOK DEF CallsTypeOK
    <3> QED BY <1>g, <1>a, <1>k, <1>e, <2>1, <3>2
  <2> QED BY <1>4, <2>3, <2>4
<1>5. ASSUME NEW t \in Threads, ReadKicklist(t)
      PROVE  FlatFileTypeOK' /\ DatabaseConsistent'
  <2>1. /\ UNCHANGED <<accountVars, writing, kicklistFile, kicked,
                       kicksSaved>>
        /\ calls[t].at = "read" /\ mKicklist' = mKicklist \o kicklistFile
        /\ Goto(t, calls[t].next)
    BY <1>5 DEF ReadKicklist
  <2>2. calls[t].next \in {"push", "look"} /\ calls[t].loaded \in BOOLEAN
    BY <1>t, <2>1, CallFacts DEF CallRecords
  <2>3. CallsTypeOK'
    BY <1>t, <2>1, <2>2, GotoOK DEF CallsTypeOK
  <2>4. kicklistFile \in Seq(UserIds)
    BY <1>t, <1>u, <2>1 DEF CallsOK
  <2>5. mKicklist' \in Seq(UserIds)
    BY <1>u, <2>1, <2>4, ConcatProperties
  <2>6. KickFiles'
    BY <1>u, <2>1, <2>5 DEF KickFiles
  <2> QED BY <1>g, <1>a, <1>e, <2>1, <2>3, <2>6
<1>6. ASSUME NEW t \in Threads, Push(t)
      PROVE  FlatFileTypeOK' /\ DatabaseConsistent'
  <2>1. /\ UNCHANGED <<accountVars, kicksSaved>>
        /\ calls[t].at = "push"
        /\ mKicklist' = Append(mKicklist, calls[t].user)
        /\ kicked' \subseteq kicked
    BY <1>6 DEF Push
  <2>2. calls[t].user \in UserIds
    BY <1>t, <2>1 DEF CallsOK, NoCall
  <2>3. mKicklist' \in Seq(UserIds)
    BY <1>u, <2>1, <2>2, AppendProperties
  <2>4. CASE /\ kicklistFile' = <<>>
             /\ writing' = [file |-> "kicklist", rest |-> mKicklist']
             /\ Goto(t, "save")
    <3>1. KickFiles' /\ WritingOK'
      BY <1>u, <2>1, <2>3, <2>4, EmptySeq DEF KickFiles, WritingOK
    <3>2. calls[t].loaded \in BOOLEAN
      BY <1>t, <2>1, CallFacts DEF CallRecords
    <3>3. CallsTypeOK'
      BY <1>t, <2>1, <2>4, <3>2, GotoOK DEF CallsTypeOK
    <3> QED BY <1>g, <1>a, <2>1, <3>1, <3>3
  <2>5. CASE /\ calls' = [calls EXCEPT ![t] = NoCall]
             /\ UNCHANGED <<kicklistFile, writing>>
    <3>1. KickFiles'
      BY <1>u, <2>1, <2>3, <2>5 DEF KickFiles
    <3>2. CallsTypeOK'
      BY <1>c, <2>5 DEF CallsTypeOK
    <3> QED BY <1>g, <1>a, <1>e, <2>1, <2>5, <3>1, <3>2
  <2> QED BY <1>6, <2>4, <2>5 DEF Push
<1>7. ASSUME NEW t \in Threads, EndSaveKicklist(t) \/ DiskFullOfKicks(t)
      PROVE  FlatFileTypeOK' /\ DatabaseConsistent'
  <2>1. PICK saved \in BOOLEAN : EndKick(t, saved)
    BY <1>7 DEF EndSaveKicklist, DiskFullOfKicks
  <2>2. /\ UNCHANGED <<accountVars, mKicklist, kicklistFile>>
        /\ calls[t].at = "save" /\ kicksSaved' = saved
        /\ writing' = NotWriting
        /\ calls' = [calls EXCEPT ![t] = NoCall]
        /\ kicked' = kicked \union {calls[t].user}
    BY <2>1 DEF EndKick
  <2>3. calls[t].user \in UserIds
    <3>1. Range(mKicklist) \subseteq UserIds
      BY <1>u, RangeOfSeq
    <3> QED BY <1>t, <2>2, <3>1 DEF CallsOK
  <2>4. CallsTypeOK'
    BY <1>c, <2>2 DEF CallsTypeOK
  <2>5. KickFiles'
    BY <1>u, <2>2, <2>3 DEF KickFiles
  <2> QED BY <1>g, <1>a, <1>n, <2>2, <2>4, <2>5
<1>8. ASSUME NEW t \in Threads, Look(t)
      PROVE  FlatFileTypeOK' /\ DatabaseConsistent'
  <2>1. /\ UNCHANGED <<accountVars, writing, kickVars>>
        /\ calls' = [calls EXCEPT ![t] = NoCall]
    BY <1>8 DEF Look
  <2>2. CallsTypeOK'
    BY <1>c, <2>1 DEF CallsTypeOK
  <2> QED BY <1>g, <1>a, <1>k, <1>e, <2>1, <2>2
<1>9. CASE WriteKick
  <2>1. /\ UNCHANGED <<accountVars, calls, mKicklist, kicked, kicksSaved>>
        /\ writing.file = "kicklist" /\ writing.rest # <<>>
        /\ kicklistFile' = Append(kicklistFile, Head(writing.rest))
        /\ writing' = [writing EXCEPT !.rest = Tail(@)]
    BY <1>9 DEF WriteKick
  <2>2. /\ writing.rest \in Seq(UserIds)
        /\ writing = [file |-> "kicklist", rest |-> writing.rest]
    BY <1>t, <2>1, WritingFacts
  <2>3. kicklistFile \in Seq(UserIds)
    BY <1>u, <2>1 DEF FlatFileInv, SavesKicks
  <2>4. kicklistFile' \in Seq(UserIds) /\ Tail(writing.rest) \in Seq(UserIds)
    BY <2>1, <2>2, <2>3, WriteOne
  <2>5. writing' = [file |-> "kicklist", rest |-> Tail(writing.rest)]
    BY <2>1, <2>2
  <2>6. KickFiles' /\ WritingOK'
    BY <1>u, <2>1, <2>4, <2>5 DEF KickFiles, WritingOK
  <2> QED BY <1>g, <1>a, <1>b, <2>1, <2>6
<1>10. CASE Restart
  <2>1. /\ StartUsers
        /\ expected' = IF Intact THEN expected ELSE LoadedUsers(accountsFile)
        /\ mKicklist' = <<>> /\ writing' = NotWriting
        /\ calls' = [t \in Threads |-> NoCall]
        /\ accountsSaved' = TRUE /\ kicksSaved' = TRUE
        /\ kicked' \subseteq kicked
        /\ UNCHANGED <<accountsFile, kicklistFile>>
    BY <1>10 DEF Restart
  <2>2. DatabaseInv'
    BY <1>u, <2>1, LoadsConsistently, EmptyIsConsistent
    DEF FlatFileInv, StartUsers
  <2>3. expected' \in [UserIds -> User \union {NoUser}]
    BY <1>u, <2>1, LoadedType
  <2>4. DbFiles' /\ KickFiles' /\ CallsTypeOK'
    BY <1>u, <2>1, <2>2, <2>3, EmptySeq DEF DbFiles, KickFiles, CallsTypeOK
  <2> QED BY <1>g, <1>n, <2>1, <2>4
<1>11. CASE UNCHANGED vars
  BY <1>11, <1>g, <1>a, <1>k, <1>b, <1>e DEF vars
<1> QED BY <1>1, <1>2, <1>3, <1>4, <1>5, <1>6, <1>7, <1>8, <1>9, <1>10, <1>11
        DEF Next

-----------------------------------------------------------------------------
(* The accounts                                                            *)

\* The file has what it should have, written or still to write, and loads as
\* what the server has in memory.
LEMMA AccountsStep ==
  ASSUME FlatFileInv, [Next]_vars
  PROVE  Distinct(accountsFile)' /\ SavesAccounts' /\ RestartKeepsAccounts'
PROOF
<1>t. /\ FlatFileTypeOK /\ DatabaseInv /\ CallsOK
      /\ Distinct(accountsFile) /\ SavesAccounts /\ RestartKeepsAccounts
      /\ accountsFile \in Seq(User)
  BY DEF FlatFileInv, FlatFileTypeOK, DatabaseInv
<1>k. ASSUME UNCHANGED accountVars,
             \/ UNCHANGED writing
             \/ writing.file # "accounts" /\ writing'.file # "accounts"
      PROVE  Distinct(accountsFile)' /\ SavesAccounts' /\ RestartKeepsAccounts'
  <2>1. Distinct(accountsFile)'
    BY <1>t, <1>k DEF Distinct, accountVars
  <2>2. SavesAccounts'
    BY <1>t, <1>k DEF SavesAccounts, accountVars, dbVars
  <2>3. /\ mUsers' = mUsers /\ expected' = expected
        /\ LoadedUsers(accountsFile)' = LoadedUsers(accountsFile)
    BY <1>k DEF LoadedUsers, accountVars, dbVars
  <2>4. RestartKeepsAccounts'
    BY <1>t, <1>k, <2>3 DEF RestartKeepsAccounts, Intact, accountVars
  <2> QED BY <2>1, <2>2, <2>4
<1>1. CASE \/ \E n \in Names, flags \in NewFlags : AddUser(n, flags)
           \/ \E id \in UserIds : DeleteUser(id)
           \/ \E id \in UserIds, c \in Changes :
                ChangeUserFlags(id, c[1], c[2])
  <2>1. /\ DatabaseInv' /\ Unlocked /\ expected' = mUsers'
        /\ \/ /\ accountsFile' = <<>>
              /\ writing' = [file |-> "accounts", rest |-> Records(mUsers')]
              /\ UNCHANGED accountsSaved
           \/ /\ accountsSaved' = FALSE
              /\ UNCHANGED <<accountsFile, writing>>
    BY <1>1, <1>t, SaveBegins
  <2>2. CASE /\ accountsFile' = <<>>
             /\ writing' = [file |-> "accounts", rest |-> Records(mUsers')]
    <3>1. Records(mUsers') \in Seq(User)
      <4>1. mUsers' \in [UserIds -> User \union {NoUser}]
        BY <2>1 DEF DatabaseInv, DatabaseTypeOK
      <4> QED BY <4>1, RecordsOf
    <3>2. Distinct(accountsFile)'
      BY <2>2 DEF Distinct
    <3>3. RestartKeepsAccounts'
      BY <2>1, <2>2 DEF RestartKeepsAccounts, Intact
    <3>4. accountsFile' \o writing'.rest = Records(mUsers')
      <4>1. <<>> \o Records(mUsers') = Records(mUsers')
        BY <3>1, ConcatEmptySeq
      <4> QED BY <2>2, <4>1
    <3>5. SavesAccounts'
      BY <2>1, <3>4 DEF SavesAccounts
    <3> QED BY <3>2, <3>3, <3>5
  <2>3. CASE accountsSaved' = FALSE /\ UNCHANGED <<accountsFile, writing>>
    <3>1. writing'.file = "none"
      BY <2>1, <2>3 DEF Unlocked, NotWriting
    <3> QED BY <1>t, <2>1, <2>3, <3>1
            DEF Distinct, SavesAccounts, RestartKeepsAccounts, Intact
  <2> QED BY <2>1, <2>2, <2>3
<1>2. CASE WriteUser \/ EndSaveUsers \/ DiskFullOfUsers
  <2>1. /\ UNCHANGED <<dbVars, expected>>
        /\ writing.file = "accounts" /\ writing.rest \in Seq(User)
        /\ writing = [file |-> "accounts", rest |-> writing.rest]
    BY <1>2, <1>t, WritingFacts DEF WriteUser, EndSaveUsers, DiskFullOfUsers
  <2>2. /\ accountsFile \o writing.rest = Records(mUsers)
        /\ mUsers = expected /\ mUsers' = expected'
        /\ Distinct(accountsFile \o writing.rest)
    BY <1>t, <2>1, LoadsWhatIsSaved DEF SavesAccounts, dbVars
  <2>3. CASE WriteUser
    <3>1. /\ accountsFile' = Append(accountsFile, Head(writing.rest))
          /\ writing.rest # <<>>
          /\ writing' = [writing EXCEPT !.rest = Tail(@)]
      BY <2>3 DEF WriteUser
    <3>2. writing'.file = "accounts" /\ writing'.rest = Tail(writing.rest)
      BY <2>1, <3>1
    <3>3. /\ Head(writing.rest) \in User
          /\ accountsFile' \o writing'.rest = accountsFile \o writing.rest
      BY <1>t, <2>1, <3>1, <3>2, WriteOne
    <3>4. Distinct(Append(accountsFile, Head(writing.rest)))
      BY <1>t, <2>1, <2>2, <3>1, <3>3, WriteDistinct
    <3>5. Distinct(accountsFile)'
      BY <3>1, <3>4 DEF Distinct
    <3>6. SavesAccounts'
      BY <2>1, <2>2, <3>3 DEF SavesAccounts, Records, dbVars
    <3>7. RestartKeepsAccounts'
      BY <2>2, <3>2 DEF RestartKeepsAccounts, Intact
    <3> QED BY <3>5, <3>6, <3>7
  <2>4. CASE EndSaveUsers
    <3>1. /\ writing.rest = <<>> /\ writing' = NotWriting
          /\ UNCHANGED accountsFile
      BY <2>4 DEF EndSaveUsers
    <3>2. accountsFile = Records(mUsers)
      BY <1>t, <2>2, <3>1, ConcatEmptySeq
    <3>3. LoadedUsers(accountsFile) = mUsers
      BY <1>t, <3>2, LoadsWhatIsSaved
    <3>4. RestartKeepsAccounts'
      BY <2>1, <2>2, <3>1, <3>3 DEF RestartKeepsAccounts, dbVars, LoadedUsers
    <3>5. SavesAccounts'
      BY <3>1 DEF SavesAccounts, NotWriting
    <3> QED BY <1>t, <3>1, <3>4, <3>5 DEF Distinct
  <2>5. CASE DiskFullOfUsers
    <3> DEFINE x == [Head(writing.rest) EXCEPT !.mUserFlags = {}]
    <3>1. /\ accountsFile' \in {accountsFile, Append(accountsFile, x)}
          /\ writing.rest # <<>>
          /\ accountsSaved' = FALSE /\ writing' = NotWriting
      BY <2>5 DEF DiskFullOfUsers
    <3>2. /\ x \in User /\ x.mUserID = Head(writing.rest).mUserID
          /\ x.mUserName = Head(writing.rest).mUserName
      <4>1. Head(writing.rest) \in User
        BY <2>1, <3>1, HeadTailProperties
      <4> QED BY <4>1 DEF User
    <3> HIDE DEF x
    <3>3. Distinct(Append(accountsFile, x))
      BY <1>t, <2>1, <2>2, <3>1, <3>2, WriteDistinct
    <3>4. Distinct(accountsFile)'
      BY <1>t, <3>1, <3>3 DEF Distinct
    <3>5. SavesAccounts' /\ RestartKeepsAccounts'
      BY <2>2, <3>1 DEF SavesAccounts, RestartKeepsAccounts, Intact, NotWriting
    <3> QED BY <3>4, <3>5
  <2> QED BY <1>2, <2>3, <2>4, <2>5
<1>3. ASSUME NEW t \in Threads,
             \/ \E u \in Targets : Call(t, "push", u)
             \/ Call(t, "look", 0)
             \/ OpenKicklist(t) \/ OpenKicklistFails(t)
             \/ ReadKicklist(t) \/ Look(t)
      PROVE  Distinct(accountsFile)' /\ SavesAccounts' /\ RestartKeepsAccounts'
  <2>1. UNCHANGED <<accountVars, writing>>
    BY <1>3 DEF Call, OpenKicklist, OpenKicklistFails, ReadKicklist, Look
  <2> QED BY <1>k, <2>1
<1>4. ASSUME NEW t \in Threads,
             Push(t) \/ EndSaveKicklist(t) \/ DiskFullOfKicks(t)
      PROVE  Distinct(accountsFile)' /\ SavesAccounts' /\ RestartKeepsAccounts'
  <2>1. UNCHANGED accountVars
    BY <1>4 DEF Push, EndSaveKicklist, DiskFullOfKicks, EndKick
  <2>2. CASE Push(t)
    <3>1. writing.file # "accounts" /\ writing'.file # "accounts"
      BY <2>2 DEF Push, Unlocked, NotWriting
    <3> QED BY <1>k, <2>1, <3>1
  <2>3. CASE EndSaveKicklist(t) \/ DiskFullOfKicks(t)
    <3>1. calls[t].at = "save" /\ writing' = NotWriting
      BY <2>3 DEF EndSaveKicklist, DiskFullOfKicks, EndKick
    <3>2. writing.file # "accounts" /\ writing'.file # "accounts"
      BY <1>t, <3>1 DEF CallsOK, NotWriting
    <3> QED BY <1>k, <2>1, <3>2
  <2> QED BY <1>4, <2>2, <2>3
<1>5. CASE WriteKick
  <2>1. /\ UNCHANGED accountVars
        /\ writing.file = "kicklist"
        /\ writing' = [writing EXCEPT !.rest = Tail(@)]
    BY <1>5 DEF WriteKick
  <2>2. writing'.file = "kicklist"
    <3>1. writing = [file |-> "kicklist", rest |-> writing.rest]
      BY <1>t, <2>1, WritingFacts
    <3> QED BY <2>1, <3>1
  <2> QED BY <1>k, <2>1, <2>2
<1>6. CASE Restart
  <2>1. /\ \/ mUsers' = LoadedUsers(accountsFile)
           \/ mUsers' = [u \in UserIds |-> NoUser]
        /\ expected' = IF Intact THEN expected ELSE LoadedUsers(accountsFile)
        /\ writing' = NotWriting /\ UNCHANGED accountsFile
    BY <1>6 DEF Restart, StartUsers
  <2>2. RestartKeepsAccounts'
    <3>1. LoadedUsers(accountsFile)' = LoadedUsers(accountsFile)
      BY <2>1 DEF LoadedUsers
    <3>2. expected' = LoadedUsers(accountsFile)
      BY <1>t, <2>1 DEF RestartKeepsAccounts
    <3>3. mUsers' = expected' \/ \A u \in UserIds : mUsers'[u] = NoUser
      BY <2>1, <3>2
    <3>4. \/ mUsers' = expected'
          \/ \A u \in UserIds : mUsers'[u] = NoUser'
      BY <3>3 DEF NoUser
    <3> QED BY <3>1, <3>2, <3>4 DEF RestartKeepsAccounts
  <2>3. SavesAccounts'
    BY <2>1 DEF SavesAccounts, NotWriting
  <2> QED BY <1>t, <2>1, <2>2, <2>3 DEF Distinct
<1>7. CASE UNCHANGED vars
  BY <1>7, <1>k DEF vars
<1> QED BY <1>1, <1>2, <1>3, <1>4, <1>5, <1>6, <1>7 DEF Next

-----------------------------------------------------------------------------
(* The kick list                                                           *)

KickFacts == KicksAreKept /\ SavesKicks /\ CallsOK /\ KickIsKnown

\* As long as the list in memory is empty, the file has every kick.
LEMMA ListOrFile ==
  ASSUME KicksAreKept, SavesKicks, mKicklist = <<>>
  PROVE  kicked \subseteq FileKicks /\ kicksSaved /\ writing.file # "kicklist"
BY DEF KicksAreKept, SavesKicks

\* A step that touches neither the list nor its file.
LEMMA ListStill ==
  ASSUME FlatFileTypeOK, KickFacts, UNCHANGED <<calls, kickVars>>,
         \/ UNCHANGED writing
         \/ writing.file # "kicklist" /\ writing'.file # "kicklist"
  PROVE  KickFacts'
PROOF
<1>1. KicksAreKept'
  BY DEF KickFacts, KicksAreKept, FileKicks, kickVars
<1>2. SavesKicks'
  BY DEF KickFacts, SavesKicks, kickVars
<1>3. CallsOK'
  BY DEF KickFacts, CallsOK, kickVars
<1>4. KickIsKnown'
  BY DEF KickFacts, KickIsKnown, kickVars
<1> QED BY <1>1, <1>2, <1>3, <1>4 DEF KickFacts

\* A step in which one call moves to a place before or after the save.
LEMMA CallMoves ==
  ASSUME FlatFileTypeOK, KickFacts, UNCHANGED <<writing, kickVars>>,
         NEW t \in Threads,
         \A s \in Threads : s # t => calls'[s] = calls[s],
         calls'[t].at # "save",
         calls'[t].at = "read" => kicklistFile # NoFile,
         calls'[t] # NoCall /\ calls'[t].next = "push" =>
           calls'[t].user \in UserIds,
         calls'[t].at \in {"push", "look"} => calls'[t].next = calls'[t].at,
         calls'[t].at \in {"push", "look"} /\ calls'[t].loaded =>
           kicked \subseteq Range(mKicklist)
  PROVE  KickFacts'
PROOF
<1>1. KicksAreKept'
  BY DEF KickFacts, KicksAreKept, FileKicks, kickVars
<1>2. SavesKicks'
  BY DEF KickFacts, SavesKicks, kickVars
<1>3. CallsOK'
  BY DEF KickFacts, CallsOK, kickVars, NoCall
<1>4. KickIsKnown'
  BY DEF KickFacts, KickIsKnown, kickVars
<1> QED BY <1>1, <1>2, <1>3, <1>4 DEF KickFacts

\* No kick is lost, whichever threads load, extend and write the list.
LEMMA KicksStep ==
  ASSUME FlatFileInv, [Next]_vars
  PROVE  KickFacts'
PROOF
<1>t. /\ FlatFileTypeOK /\ KickFacts
      /\ KicksAreKept /\ SavesKicks /\ CallsOK /\ KickIsKnown
  BY DEF FlatFileInv, KickFacts
<1>d. DatabaseInv /\ RestartKeepsAccounts
  BY DEF FlatFileInv, FlatFileTypeOK, DatabaseInv
<1>u. /\ mKicklist \in Seq(UserIds)
      /\ kicklistFile \in Seq(UserIds) \union {NoFile}
      /\ kicked \in SUBSET UserIds
      /\ calls \in [Threads -> {NoCall} \union CallRecords]
  BY <1>t DEF FlatFileTypeOK, CallRecords
<1>n. \A t \in Threads : Unlocked => calls[t].at # "save"
  BY <1>t DEF CallsOK, Unlocked, NotWriting
<1>c. ASSUME NEW t \in Threads, calls' = [calls EXCEPT ![t] = NoCall]
      PROVE  /\ calls'[t] = NoCall /\ calls'[t].at = "idle"
             /\ \A s \in Threads : s # t => calls'[s] = calls[s]
  BY <1>u, <1>c DEF NoCall
<1>1. CASE \/ \E n \in Names, flags \in NewFlags : AddUser(n, flags)
           \/ \E id \in UserIds : DeleteUser(id)
           \/ \E id \in UserIds, c \in Changes :
                ChangeUserFlags(id, c[1], c[2])
  <2>1. /\ Unlocked /\ UNCHANGED <<calls, kickVars>>
        /\ \/ writing' = [file |-> "accounts", rest |-> Records(mUsers')]
           \/ UNCHANGED writing
    BY <1>1, <1>t, <1>d, SaveBegins
  <2>2. \/ UNCHANGED writing
        \/ writing.file # "kicklist" /\ writing'.file # "kicklist"
    <3> DEFINE rest == Records(mUsers')
    <3>1. \/ writing' = [file |-> "accounts", rest |-> rest]
          \/ UNCHANGED writing
      BY <2>1
    <3> HIDE DEF rest
    <3> QED BY <2>1, <3>1 DEF Unlocked, NotWriting
  <2> QED BY <1>t, <2>1, <2>2, ListStill
<1>2. CASE WriteUser \/ EndSaveUsers \/ DiskFullOfUsers \/ UNCHANGED vars
  <2>1. UNCHANGED <<calls, kickVars>>
    BY <1>2 DEF WriteUser, EndSaveUsers, DiskFullOfUsers, vars
  <2>2. \/ UNCHANGED writing
        \/ writing.file # "kicklist" /\ writing'.file # "kicklist"
    <3>1. CASE WriteUser
      <4>1. writing = [file |-> "accounts", rest |-> writing.rest]
        BY <1>t, <3>1, WritingFacts DEF WriteUser
      <4>2. writing' = [writing EXCEPT !.rest = Tail(@)]
        BY <3>1 DEF WriteUser
      <4>3. writing'.file = "accounts"
        BY <4>1, <4>2
      <4> QED BY <4>1, <4>3
    <3>2. CASE EndSaveUsers \/ DiskFullOfUsers
      BY <3>2 DEF EndSaveUsers, DiskFullOfUsers, NotWriting
    <3> QED BY <1>2, <3>1, <3>2 DEF vars
  <2> QED BY <1>t, <2>1, <2>2, ListStill
<1>3. ASSUME NEW t \in Threads,
             \/ \E u \in Targets : Call(t, "push", u)
             \/ Call(t, "look", 0)
      PROVE  KickFacts'
  <2>1. PICK next \in {"push", "look"}, u \in UserIds \union {0} :
          Call(t, next, u) /\ (next = "push" => u \in UserIds)
    BY <1>3, FlatFileAssumption
  <2>2. /\ UNCHANGED <<writing, kickVars>>
        /\ calls' = [calls EXCEPT ![t] = [at |-> AfterTest(next),
                       next |-> next, user |-> u, loaded |-> TRUE]]
    BY <2>1 DEF Call
  <2>3. /\ calls'[t] = [at |-> AfterTest(next), next |-> next, user |-> u,
                        loaded |-> TRUE]
        /\ \A s \in Threads : s # t => calls'[s] = calls[s]
    BY <1>u, <2>2
  <2>4. \/ AfterTest(next) = "open"
        \/ AfterTest(next) = next /\ mKicklist # <<>>
    <3>1. CASE mKicklist = <<>>
      BY <3>1 DEF AfterTest
    <3>2. CASE mKicklist # <<>>
      BY <3>2 DEF AfterTest
    <3> QED BY <3>1, <3>2
  <2>5. mKicklist # <<>> => kicked \subseteq Range(mKicklist)
    BY <1>t DEF KicksAreKept
  <2> QED BY <1>t, <2>1, <2>2, <2>3, <2>4, <2>5, CallMoves
<1>4. ASSUME NEW t \in Threads, OpenKicklist(t) \/ OpenKicklistFails(t)
      PROVE  KickFacts'
  <2>1. /\ UNCHANGED <<writing, kickVars>>
        /\ calls[t].at = "open"
    BY <1>4 DEF OpenKicklist, OpenKicklistFails
  <2>2. /\ calls[t] \in CallRecords /\ calls[t] # NoCall
        /\ calls[t].next \in {"push", "look"} /\ calls[t].loaded \in BOOLEAN
        /\ calls[t].next = "push" => calls[t].user \in UserIds
    <3>1. calls[t] \in CallRecords /\ calls[t] # NoCall
      BY <1>t, <2>1, CallFacts DEF NoCall
    <3> QED BY <1>t, <3>1 DEF CallRecords, CallsOK
  <2>3. CASE OpenKicklist(t)
    <3> DEFINE place == IF kicklistFile # NoFile THEN "read" ELSE calls[t].next
    <3>1. Goto(t, place) /\ place \in {"open", "read", "push", "look", "save"}
      BY <2>2, <2>3 DEF OpenKicklist
    <3>2. /\ place = "read" => kicklistFile # NoFile
          /\ place # "read" => place = calls[t].next /\ kicklistFile = NoFile
      BY <2>2
    <3>3. kicklistFile = NoFile => kicked \subseteq Range(mKicklist)
      BY <1>t, ListOrFile DEF KicksAreKept, FileKicks
    <3> HIDE DEF place
    <3>4. /\ calls'[t] = [at |-> place, next |-> calls[t].next,
                          user |-> calls[t].user, loaded |-> calls[t].loaded]
          /\ \A s \in Threads : s # t => calls'[s] = calls[s]
      BY <1>t, <2>1, <2>2, <3>1, GotoOK
    <3> QED BY <1>t, <2>1, <2>2, <3>2, <3>3, <3>4, CallMoves
  <2>4. CASE OpenKicklistFails(t)
    <3>1. calls' = [calls EXCEPT ![t].at = calls[t].next, ![t].loaded = FALSE]
      BY <2>4 DEF OpenKicklistFails
    <3>2. /\ calls'[t] = [at |-> calls[t].next, next |-> calls[t].next,
                          user |-> calls[t].user, loaded |-> FALSE]
          /\ \A s \in Threads : s # t => calls'[s] = calls[s]
      BY <1>t, <2>1, <2>2, <3>1, GotoOK
    <3> QED BY <1>t, <2>1, <2>2, <3>2, CallMoves
  <2> QED BY <1>4, <2>3, <2>4
<1>5. ASSUME NEW t \in Threads, Look(t)
      PROVE  KickFacts'
  <2>1. /\ UNCHANGED <<writing, kickVars>>
        /\ calls' = [calls EXCEPT ![t] = NoCall]
    BY <1>5 DEF Look
  <2> QED BY <1>t, <1>c, <2>1, CallMoves
<1>6. ASSUME NEW t \in Threads, ReadKicklist(t)
      PROVE  KickFacts'
  <2>1. /\ UNCHANGED <<writing, kicklistFile, kicked, kicksSaved>> /\ Unlocked
        /\ calls[t].at = "read" /\ mKicklist' = mKicklist \o kicklistFile
        /\ Goto(t, calls[t].next)
    BY <1>6 DEF ReadKicklist
  <2>2. /\ calls[t] # NoCall
        /\ calls[t].next \in {"push", "look"} /\ calls[t].loaded \in BOOLEAN
        /\ calls[t].next = "push" => calls[t].user \in UserIds
    <3>1. calls[t] \in CallRecords /\ calls[t] # NoCall
      BY <1>t, <2>1, CallFacts DEF NoCall
    <3> QED BY <1>t, <3>1 DEF CallRecords, CallsOK
  <2>3. kicklistFile \in Seq(UserIds) /\ kicklistFile # NoFile
    BY <1>t, <1>u, <2>1 DEF CallsOK
  <2>4. /\ Range(mKicklist') = Range(mKicklist) \union Range(kicklistFile)
        /\ mKicklist # <<>> => mKicklist' # <<>>
    BY <1>u, <2>1, <2>3, RangeConcatenation, ConcatEqualIffEmpty
  <2>5. kicked' \subseteq Range(mKicklist')
    BY <1>t, <2>1, <2>3, <2>4, ListOrFile DEF KicksAreKept, FileKicks
  <2>6. /\ calls'[t] = [at |-> calls[t].next, next |-> calls[t].next,
                        user |-> calls[t].user, loaded |-> calls[t].loaded]
        /\ \A s \in Threads : s # t => calls'[s] = calls[s]
    BY <1>t, <2>1, <2>2, GotoOK
  <2>7. KicksAreKept'
    BY <1>t, <2>1, <2>3, <2>4, <2>5 DEF KicksAreKept, FileKicks
  <2>8. SavesKicks'
    BY <2>1 DEF SavesKicks, Unlocked, NotWriting
  <2>9. \A s \in Threads : calls'[s].at # "save"
    <3>1. calls'[t].at = calls[t].next
      BY <2>6
    <3>2. \A s \in Threads : s # t => calls'[s].at # "save"
      BY <1>n, <2>1, <2>6
    <3> QED BY <2>2, <3>1, <3>2
  <2>10. CallsOK'
    <3>1. ASSUME NEW s \in Threads
          PROVE  /\ calls'[s].at = "read" => kicklistFile' # NoFile
                 /\ calls'[s] # NoCall /\ calls'[s].next = "push" =>
                      calls'[s].user \in UserIds
                 /\ calls'[s].at \in {"push", "look"} =>
                      calls'[s].next = calls'[s].at
      <4>1. CASE s = t
        <5>1. /\ calls'[s].at = calls[t].next /\ calls'[s].next = calls[t].next
              /\ calls'[s].user = calls[t].user
          BY <2>6, <4>1
        <5> QED BY <2>1, <2>2, <2>3, <5>1
      <4>2. CASE s # t
        <5>1. calls'[s] = calls[s] /\ kicklistFile' = kicklistFile
          BY <2>1, <2>6, <4>2
        <5> QED BY <1>t, <5>1 DEF CallsOK
      <4> QED BY <4>1, <4>2
    <3> QED BY <2>9, <3>1 DEF CallsOK
  <2> QED BY <2>5, <2>7, <2>8, <2>10 DEF KickFacts, KickIsKnown
<1>7. ASSUME NEW t \in Threads, Push(t)
      PROVE  KickFacts'
  <2> DEFINE u == calls[t].user
  <2>1. /\ UNCHANGED kicksSaved /\ Unlocked
        /\ calls[t].at = "push"
        /\ mKicklist' = Append(mKicklist, u)
        /\ kicked' = IF calls[t].loaded THEN kicked
                       ELSE kicked \intersect Range(mKicklist')
    BY <1>7 DEF Push
  <2>2. u \in UserIds /\ calls[t] \in CallRecords
    <3>1. calls[t] \in CallRecords /\ calls[t] # NoCall
      BY <1>t, <2>1, CallFacts DEF NoCall
    <3> QED BY <1>t, <2>1, <3>1 DEF CallsOK
  <2>3. calls[t].loaded \in BOOLEAN
    BY <2>2 DEF CallRecords
  <2> HIDE DEF u
  <2>4. /\ mKicklist' \in Seq(UserIds) /\ mKicklist' # <<>>
        /\ Range(mKicklist') = Range(mKicklist) \union {u}
    <3>1. /\ Append(mKicklist, u) = mKicklist \o <<u>>
          /\ <<u>> \in Seq(UserIds) /\ Range(<<u>>) = {u}
      <4>1. <<u>> \in Seq(UserIds) /\ Len(<<u>>) = 1 /\ <<u>>[1] = u
        BY <2>2
      <4>2. Range(<<u>>) = {<<u>>[i] : i \in 1 .. Len(<<u>>)}
        BY <4>1, RangeEquality
      <4> QED BY <1>u, <2>2, <4>1, <4>2, AppendIsConcat
    <3>2. mKicklist' \in Seq(UserIds) /\ mKicklist' # <<>>
      BY <1>u, <2>1, <2>2, AppendProperties
    <3>3. Range(mKicklist \o <<u>>) = Range(mKicklist) \union Range(<<u>>)
      <4> DEFINE last == <<u>>
      <4>1. last \in Seq(UserIds)
        BY <3>1
      <4> HIDE DEF last
      <4>2. Range(mKicklist \o last) = Range(mKicklist) \union Range(last)
        BY <1>u, <4>1, RangeConcatenation
      <4> QED BY <4>2 DEF last
    <3> QED BY <2>1, <3>1, <3>2, <3>3
  <2>5. /\ kicked' \subseteq Range(mKicklist') /\ kicked' \subseteq kicked
    BY <1>t, <2>1, <2>4 DEF KickIsKnown
  <2>6. KickIsKnown'
    BY <2>5 DEF KickIsKnown
  <2>7. CASE /\ kicklistFile' = <<>>
             /\ writing' = [file |-> "kicklist", rest |-> mKicklist']
             /\ Goto(t, "save")
    <3>1. kicklistFile' # NoFile
      <4>1. <<>> \in Seq(UserIds)
        BY EmptySeq
      <4> QED BY <2>7, <4>1, FlatFileAssumption
    <3>2. /\ calls'[t] = [at |-> "save", next |-> calls[t].next,
                          user |-> u, loaded |-> calls[t].loaded]
          /\ \A s \in Threads : s # t => calls'[s] = calls[s]
      BY <1>t, <2>1, <2>3, <2>7, GotoOK DEF u
    <3>3. writing'.file = "kicklist" /\ writing'.rest = mKicklist'
      BY <2>7
    <3>4. KicksAreKept'
      BY <2>4, <2>5, <3>1, <3>3 DEF KicksAreKept
    <3>5. SavesKicks'
      <4>1. <<>> \o mKicklist' = mKicklist'
        BY <2>4, ConcatEmptySeq
      <4> QED BY <2>4, <2>7, <3>1, <3>3, <4>1 DEF SavesKicks
    <3>6. \A s \in Threads : s # t => calls'[s].at # "save"
      BY <1>n, <2>1, <3>2
    <3>7. CallsOK'
      BY <1>t, <2>2, <2>4, <3>1, <3>2, <3>3, <3>6 DEF CallsOK
    <3> QED BY <2>6, <3>4, <3>5, <3>7 DEF KickFacts
  <2>8. CASE /\ calls' = [calls EXCEPT ![t] = NoCall]
             /\ UNCHANGED <<kicklistFile, writing>>
    <3>1. /\ calls'[t] = NoCall /\ calls'[t].at = "idle"
          /\ \A s \in Threads : s # t => calls'[s] = calls[s]
      BY <1>c, <2>8
    <3>2. KicksAreKept'
      BY <1>t, <2>1, <2>4, <2>5, <2>8 DEF KicksAreKept, FileKicks
    <3>3. SavesKicks'
      BY <2>1, <2>8 DEF SavesKicks, Unlocked, NotWriting
    <3>4. \A s \in Threads : calls'[s].at # "save"
      BY <1>n, <2>1, <3>1
    <3>5. CallsOK'
      BY <1>t, <2>8, <3>1, <3>4 DEF CallsOK
    <3> QED BY <2>6, <3>2, <3>3, <3>5 DEF KickFacts
  <2> QED BY <1>7, <2>7, <2>8 DEF Push, u
<1>8. ASSUME NEW t \in Threads, NEW saved \in BOOLEAN,
             EndKick(t, saved), saved => writing.rest = <<>>
      PROVE  KickFacts'
  <2>1. /\ UNCHANGED <<mKicklist, kicklistFile>>
        /\ calls[t].at = "save" /\ kicksSaved' = saved
        /\ writing' = NotWriting
        /\ calls' = [calls EXCEPT ![t] = NoCall]
        /\ kicked' = kicked \union {calls[t].user}
    BY <1>8 DEF EndKick
  <2>2. /\ writing.file = "kicklist" /\ calls[t].user \in Range(mKicklist)
        /\ mKicklist # <<>> /\ kicklistFile # NoFile
        /\ kicklistFile \o writing.rest = mKicklist
    BY <1>t, <2>1 DEF CallsOK, SavesKicks
  <2>3. kicked' \subseteq Range(mKicklist)
    BY <1>t, <2>1, <2>2 DEF KicksAreKept
  <2>4. saved => kicklistFile = mKicklist
    BY <1>u, <1>8, <2>2, ConcatEmptySeq
  <2>5. /\ calls'[t] = NoCall /\ calls'[t].at = "idle"
        /\ \A s \in Threads : s # t => calls'[s] = calls[s]
    BY <1>c, <2>1
  <2>6. KicksAreKept'
    BY <2>1, <2>2, <2>3, <2>4 DEF KicksAreKept, FileKicks
  <2>7. SavesKicks'
    BY <2>1 DEF SavesKicks, NotWriting
  <2>8. \A s \in Threads : calls'[s].at # "save"
    BY <1>t, <2>1, <2>5 DEF CallsOK
  <2>9. CallsOK'
    BY <1>t, <2>1, <2>5, <2>8 DEF CallsOK
  <2>10. KickIsKnown'
    BY <2>1, <2>3 DEF KickIsKnown
  <2> QED BY <2>6, <2>7, <2>9, <2>10 DEF KickFacts
<1>9. CASE WriteKick
  <2>1. /\ UNCHANGED <<calls, mKicklist, kicked, kicksSaved>>
        /\ writing.file = "kicklist" /\ writing.rest # <<>>
        /\ kicklistFile' = Append(kicklistFile, Head(writing.rest))
        /\ writing' = [writing EXCEPT !.rest = Tail(@)]
    BY <1>9 DEF WriteKick
  <2>2. /\ writing.rest \in Seq(UserIds)
        /\ writing = [file |-> "kicklist", rest |-> writing.rest]
    BY <1>t, <2>1, WritingFacts
  <2>3. /\ kicklistFile \in Seq(UserIds) /\ mKicklist # <<>>
        /\ kicklistFile \o writing.rest = mKicklist
    BY <1>t, <1>u, <2>1 DEF SavesKicks
  <2>4. writing'.file = "kicklist" /\ writing'.rest = Tail(writing.rest)
    BY <2>1, <2>2
  <2>5. /\ kicklistFile' \in Seq(UserIds)
        /\ kicklistFile' \o writing'.rest = mKicklist
    BY <2>1, <2>2, <2>3, <2>4, WriteOne
  <2>6. kicklistFile' # NoFile
    BY <2>5, FlatFileAssumption
  <2>7. KicksAreKept'
    BY <1>t, <2>1, <2>3, <2>4, <2>6 DEF KicksAreKept
  <2>8. SavesKicks'
    BY <2>1, <2>3, <2>5, <2>6 DEF SavesKicks
  <2>9. CallsOK'
    BY <1>t, <2>1, <2>4, <2>6 DEF CallsOK
  <2>10. KickIsKnown'
    BY <1>t, <2>1 DEF KickIsKnown
  <2> QED BY <2>7, <2>8, <2>9, <2>10 DEF KickFacts
<1>10. CASE Restart
  <2>1. /\ mKicklist' = <<>> /\ writing' = NotWriting
        /\ calls' = [t \in Threads |-> NoCall]
        /\ kicksSaved' = TRUE /\ UNCHANGED kicklistFile
        /\ kicked' = IF kicksSaved /\ writing.file # "kicklist" THEN kicked
                       ELSE kicked \intersect Range(kicklistFile)
    BY <1>10 DEF Restart
  <2>2. kicked' \subseteq FileKicks
    BY <1>t, <2>1 DEF KicksAreKept, SavesKicks, FileKicks
  <2>3. KicksAreKept'
    BY <2>1, <2>2 DEF KicksAreKept, FileKicks
  <2>4. \A t \in Threads : calls'[t] = NoCall /\ calls'[t].at = "idle"
    BY <2>1 DEF NoCall
  <2>5. SavesKicks'
    BY <2>1 DEF SavesKicks, NotWriting
  <2>6. CallsOK' /\ KickIsKnown'
    BY <2>4 DEF CallsOK, KickIsKnown
  <2> QED BY <2>3, <2>5, <2>6 DEF KickFacts
<1>11. ASSUME NEW t \in Threads, EndSaveKicklist(t) \/ DiskFullOfKicks(t)
       PROVE  KickFacts'
  BY <1>8, <1>11 DEF EndSaveKicklist, DiskFullOfKicks
<1> QED BY <1>1, <1>2, <1>3, <1>4, <1>5, <1>6, <1>7, <1>9, <1>10, <1>11
        DEF Next

-----------------------------------------------------------------------------
(* The theorems                                                            *)

LEMMA InitFlatFile == Init => FlatFileInv
PROOF
<1> SUFFICES ASSUME Init PROVE FlatFileInv
  OBVIOUS
<1>1. DatabaseInv
  BY LoadUsersOK DEF Init
<1>2. /\ accountsFile = Records(mUsers) /\ expected = mUsers
      /\ mKicklist = <<>>
      /\ kicklistFile = NoFile /\ writing = NotWriting
      /\ calls = [t \in Threads |-> NoCall]
      /\ accountsSaved = TRUE /\ kicksSaved = TRUE /\ kicked = {}
  BY DEF Init
<1>3. /\ accountsFile \in Seq(User) /\ Distinct(accountsFile)
      /\ LoadedUsers(accountsFile) = mUsers
      /\ LoadedNames(accountsFile) = mNamedUsers
  BY <1>1, <1>2, LoadsWhatIsSaved
<1>4. FlatFileTypeOK
  <2>1. expected \in [UserIds -> User \union {NoUser}]
    BY <1>1, <1>2 DEF DatabaseInv, DatabaseTypeOK
  <2> QED BY <1>1, <1>2, <1>3, <2>1, EmptySeq DEF FlatFileTypeOK, DatabaseInv
<1>5. SavesAccounts /\ RestartKeepsAccounts /\ SavesKicks
  BY <1>2, <1>3 DEF SavesAccounts, RestartKeepsAccounts, SavesKicks, NotWriting
<1>6. KicksAreKept
  BY <1>2 DEF KicksAreKept
<1>7. CallsOK /\ KickIsKnown
  BY <1>2 DEF CallsOK, KickIsKnown, NoCall
<1> QED BY <1>1, <1>3, <1>4, <1>5, <1>6, <1>7 DEF FlatFileInv, DatabaseInv

LEMMA FlatFileStep == FlatFileInv /\ [Next]_vars => FlatFileInv'
BY FlatFileTypeStep, AccountsStep, KicksStep DEF FlatFileInv, KickFacts

(***************************************************************************)
(* The types, and that the two maps of the database stay inverse to each   *)
(* other also when they are loaded from a file that a crash or a full disk *)
(* has cut off (eleven_database_flatfile.cpp, load_users and save_users).  *)
(***************************************************************************)
THEOREM FlatFileTypeCorrect ==
  Spec => [](FlatFileTypeOK /\ DatabaseConsistent)
PROOF
<1>1. FlatFileInv => FlatFileTypeOK /\ DatabaseConsistent
  BY DEF FlatFileInv
<1> QED BY <1>1, InitFlatFile, FlatFileStep, PTL DEF Spec

(***************************************************************************)
(* No restart changes an account unless a save was cut off or failed       *)
(* (save_users, load_users): for any accounts, whatever changes them, and  *)
(* wherever the server stops, also when some of its starts cannot open the *)
(* accounts file and let nobody log in.                                    *)
(***************************************************************************)
THEOREM RestartsKeepAccounts == Spec => []RestartKeepsAccounts
PROOF
<1>1. FlatFileInv => RestartKeepsAccounts
  BY DEF FlatFileInv
<1> QED BY <1>1, InitFlatFile, FlatFileStep, PTL DEF Spec

(***************************************************************************)
(* A kick that was reported as done is known to whoever has loaded the     *)
(* kick list (load_kicklist, kick_user_from_channel): for any number of    *)
(* threads that load, extend and write the list at the same time, and      *)
(* across restarts.                                                        *)
(***************************************************************************)
THEOREM KicksAreKnown == Spec => []KickIsKnown
PROOF
<1>1. FlatFileInv => KickIsKnown
  BY DEF FlatFileInv
<1> QED BY <1>1, InitFlatFile, FlatFileStep, PTL DEF Spec
=============================================================================
