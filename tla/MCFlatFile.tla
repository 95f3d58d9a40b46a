----------------------------- MODULE MCFlatFile -----------------------------
(***************************************************************************)
(* TLC's instance of FlatFile: a server with one owner.                    *)
(***************************************************************************)
EXTENDS FlatFile, TLC

MCAccounts == {[mUserID |-> 1, mUserName |-> "admin", mUserFlags |-> {"owner"}]}

MCNames == {"admin", "bob"}

\* Anybody may be made an owner.
MCChanges == {<<{"owner"}, {}>>}

ThreadSymmetry == Permutations(Threads)
=============================================================================
