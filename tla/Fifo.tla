-------------------------------- MODULE Fifo --------------------------------
(***************************************************************************)
(* What a queue between threads promises: an element that was put in comes *)
(* out once, to one taker, and elements come out in the order in which     *)
(* they went in.                                                           *)
(***************************************************************************)
EXTENDS Integers, Sequences

CONSTANTS Elements, Takers

VARIABLES waiting, \* elements put in and not yet taken
          given    \* what each taker got, in order

fifoVars == <<waiting, given>>

FifoInit ==
  /\ waiting = <<>>
  /\ given = [t \in Takers |-> <<>>]

\* Nothing goes in that is in there already.
Put(e) ==
  /\ \A i \in 1 .. Len(waiting) : waiting[i] # e
  /\ waiting' = Append(waiting, e)
  /\ UNCHANGED given

Take(t) ==
  /\ waiting # <<>>
  /\ given' = [given EXCEPT ![t] = Append(@, Head(waiting))]
  /\ waiting' = Tail(waiting)

FifoNext ==
  \/ \E e \in Elements : Put(e)
  \/ \E t \in Takers : Take(t)

FifoSpec == FifoInit /\ [][FifoNext]_fifoVars
=============================================================================
