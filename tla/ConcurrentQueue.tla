-------------------------- MODULE ConcurrentQueue ---------------------------
(***************************************************************************)
(* concurrent_queue (eleven_concurrent_queue.h) and its semaphore          *)
(* (eleven_semaphore.h): a linked list under mHeadTailMutex and a counter  *)
(* under a lock of its own.  Producers call push, consumers run wait with  *)
(* a callback, and others may call pop themselves.                         *)
(*                                                                         *)
(* A critical section is one step unless it takes the second lock inside:  *)
(* push links its element, still holds mHeadTailMutex, and then signals.   *)
(* linked, taken and handed are history.                                   *)
(***************************************************************************)
EXTENDS Integers, Sequences, FiniteSets

CONSTANTS Producers, \* threads that call push
          Consumers, \* threads that call wait
          Poppers,   \* threads that call pop
          NULL,
          Pushes,    \* how often a producer pushes
          Pops,      \* how often a popper pops
          KeepGoing  \* what the callback may return

VARIABLES mHead, mTail, mNext, \* the list
          mHeadTailMutex,      \* the producer that holds it between two steps
          mCount,              \* of the semaphore
          pc, calls,           \* per thread: where it is, its finished calls
          payload,             \* per taker: the element that it has taken
          linked, taken,       \* elements in list order; how many left it
          handed               \* per taker: what its callback or caller got

listVars == <<mHead, mTail, mNext, linked, taken>>
vars == <<mHead, mTail, mNext, mHeadTailMutex, mCount, pc, calls, payload,
          linked, taken, handed>>

Takers == Consumers \union Poppers

Threads == Producers \union Takers

\* What a producer pushes is its own and new each time.
Elements == Producers \X (1 .. Pushes)

ASSUME QueueAssumption ==
  /\ NULL \notin Elements \union Producers
  /\ Producers \intersect Takers = {}
  /\ Consumers \intersect Poppers = {}
  /\ IsFiniteSet(Producers) /\ IsFiniteSet(Consumers)
  /\ Pushes \in Nat /\ Pops \in Nat
  /\ KeepGoing \subseteq BOOLEAN

Init ==
  /\ mHead = NULL /\ mTail = NULL
  /\ mNext = [e \in Elements |-> NULL]
  /\ mHeadTailMutex = NULL
  /\ mCount = 0
  /\ pc = [t \in Threads |-> IF t \in Consumers THEN "wait" ELSE "idle"]
  /\ calls = [t \in Threads |-> 0]
  /\ payload = [t \in Takers |-> NULL]
  /\ linked = <<>> /\ taken = 0
  /\ handed = [t \in Takers |-> <<>>]

-----------------------------------------------------------------------------
\* A plausible slip: mTail moves on before the old tail is linked.
M_LinkTailFirst(newElem) ==
  /\ \/ mTail # NULL /\ mNext' = [mNext EXCEPT ![newElem] = newElem]
                     /\ UNCHANGED mHead
     \/ mTail = NULL /\ mHead' = newElem /\ UNCHANGED mNext
  /\ mTail' = newElem

\* The new element goes behind the tail, or it is the whole list.
Link(newElem) ==
  /\ \/ mTail # NULL /\ mNext' = [mNext EXCEPT ![mTail] = newElem]
                     /\ UNCHANGED mHead
     \/ mTail = NULL /\ mHead' = newElem /\ UNCHANGED mNext
  /\ mTail' = newElem

\* push, up to the signal.
Push(p) ==
  /\ pc[p] = "idle" /\ calls[p] < Pushes
  /\ mHeadTailMutex = NULL
  /\ mHeadTailMutex' = p
  /\ Link(<<p, calls[p] + 1>>)
  /\ linked' = Append(linked, <<p, calls[p] + 1>>)
  /\ pc' = [pc EXCEPT ![p] = "signal"]
  /\ UNCHANGED <<mCount, calls, payload, taken, handed>>

\* Consumers that sleep in mCondition.
Sleepers == {c \in Consumers : pc[c] = "asleep"}

\* A plausible slip: nobody is told of the new count.
M_NotifyNobody(p) == pc' = [pc EXCEPT ![p] = "idle"]

\* A signal that also wakes a sleeper, if there is one.
NotifyOne(p) ==
  \/ /\ Sleepers = {}
     /\ pc' = [pc EXCEPT ![p] = "idle"]
  \/ \E c \in Sleepers :
       pc' = [pc EXCEPT ![p] = "idle", ![c] = "wait"]

\* A plausible slip: the semaphore is binary.
M_IncrementToOne == mCount' = 1

\* The count of a signal.
Increment == mCount' = mCount + 1

\* The end of push: semaphore::signal, then both locks are released.
Signal(p) ==
  /\ pc[p] = "signal"
  /\ Increment
  /\ NotifyOne(p)
  /\ calls' = [calls EXCEPT ![p] = @ + 1]
  /\ mHeadTailMutex' = NULL
  /\ UNCHANGED <<mHead, mTail, mNext, payload, linked, taken, handed>>

-----------------------------------------------------------------------------
\* A plausible slip: a thread that was woken takes a count unseen.
M_Decrement == mCount' = mCount - 1

Decrement == mCount > 0 /\ mCount' = mCount - 1

\* semaphore::wait finds a count and takes one, or sleeps.
SemaphoreWait(c) ==
  /\ pc[c] = "wait"
  /\ \/ Decrement /\ pc' = [pc EXCEPT ![c] = "pop"]
     \/ mCount = 0 /\ pc' = [pc EXCEPT ![c] = "asleep"] /\ UNCHANGED mCount
  /\ UNCHANGED <<mHead, mTail, mNext, mHeadTailMutex, calls, payload, linked,
                 taken, handed>>

\* A condition variable may wake a thread that nobody notified; the loop
\* around it looks at the count again.
SpuriousWakeup(c) ==
  /\ pc[c] = "asleep"
  /\ pc' = [pc EXCEPT ![c] = "wait"]
  /\ UNCHANGED <<mHead, mTail, mNext, mHeadTailMutex, mCount, calls, payload,
                 linked, taken, handed>>

\* A plausible slip: the tail of an empty list dangles.
M_UnlinkKeepsTail == mHead' = mNext[mHead] /\ UNCHANGED mTail

\* The list loses its head, and its tail with the last element.
Unlink ==
  /\ mHead' = mNext[mHead]
  /\ mTail' = IF mNext[mHead] = NULL THEN NULL ELSE mTail

\* The critical section of pop when there is an element.
PopElement(t) ==
  /\ mHeadTailMutex = NULL /\ mHead # NULL
  /\ payload' = [payload EXCEPT ![t] = mHead]
  /\ Unlink
  /\ taken' = taken + 1
  /\ UNCHANGED <<mNext, mHeadTailMutex, mCount, linked, handed>>

\* The critical section of pop when there is none.
PopNothing == mHeadTailMutex = NULL /\ mHead = NULL

\* wait pops what it was signalled for, and ignores that somebody else has
\* taken it.
ConsumerPop(c) ==
  /\ pc[c] = "pop"
  /\ \/ PopElement(c) /\ pc' = [pc EXCEPT ![c] = "callback"]
     \/ /\ PopNothing
        /\ pc' = [pc EXCEPT ![c] = "wait"]
        /\ UNCHANGED <<listVars, mHeadTailMutex, mCount, payload, handed>>
  /\ UNCHANGED calls

\* The element reaches the callback or the caller of pop.
HandOver(t) ==
  /\ handed' = [handed EXCEPT ![t] = Append(@, payload[t])]
  /\ payload' = [payload EXCEPT ![t] = NULL]
  /\ UNCHANGED <<listVars, mHeadTailMutex, mCount>>

\* The callback decides whether wait goes on.
Callback(c) ==
  /\ pc[c] = "callback"
  /\ HandOver(c)
  /\ \E keepGoing \in KeepGoing :
       pc' = [pc EXCEPT ![c] = IF keepGoing THEN "wait" ELSE "done"]
  /\ UNCHANGED calls

\* pop called directly, without a look at the semaphore.
Pop(t) ==
  /\ pc[t] = "idle" /\ calls[t] < Pops
  /\ calls' = [calls EXCEPT ![t] = @ + 1]
  /\ \/ PopElement(t) /\ pc' = [pc EXCEPT ![t] = "return"]
     \/ PopNothing /\ UNCHANGED <<listVars, mHeadTailMutex, mCount, pc,
                                  payload, handed>>

PopReturns(t) ==
  /\ pc[t] = "return"
  /\ HandOver(t)
  /\ pc' = [pc EXCEPT ![t] = "idle"]
  /\ UNCHANGED calls

-----------------------------------------------------------------------------
ProducerStep(p) == Push(p) \/ Signal(p)

ConsumerStep(c) == SemaphoreWait(c) \/ ConsumerPop(c) \/ Callback(c)

PopperStep(t) == Pop(t) \/ PopReturns(t)

Next ==
  \/ \E p \in Producers : ProducerStep(p)
  \/ \E c \in Consumers : ConsumerStep(c) \/ SpuriousWakeup(c)
  \/ \E t \in Poppers : PopperStep(t)

\* Threads run; a condition variable need not wake anybody spuriously, and
\* nobody need call push or pop.
Fairness ==
  /\ \A p \in Producers : WF_vars(Signal(p))
  /\ \A c \in Consumers : WF_vars(ConsumerStep(c))
  /\ \A t \in Poppers : WF_vars(PopReturns(t))

Spec == Init /\ [][Next]_vars /\ Fairness

-----------------------------------------------------------------------------
Places ==
  {"idle", "signal", "wait", "asleep", "pop", "callback", "return", "done"}

QueueTypeOK ==
  /\ mHead \in Elements \union {NULL}
  /\ mTail \in Elements \union {NULL}
  /\ mNext \in [Elements -> Elements \union {NULL}]
  /\ mHeadTailMutex \in Producers \union {NULL}
  /\ mCount \in Nat
  /\ pc \in [Threads -> Places]
  /\ calls \in [Threads -> Nat]
  /\ payload \in [Takers -> Elements \union {NULL}]
  /\ linked \in Seq(Elements)
  /\ taken \in 0 .. Len(linked)
  /\ handed \in [Takers -> Seq(Elements)]

\* A consumer that is awake and will look at the count, or has taken one.
Awake == {c \in Consumers : pc[c] \in {"wait", "pop"}}

(***************************************************************************)
(* No wake-up is lost: for every element in the list there is a count that *)
(* nobody has taken yet, a consumer between its semaphore and its pop, or  *)
(* a producer about to signal.  push links before it signals, pop takes    *)
(* elements without the semaphore and several consumers share one count.   *)
(***************************************************************************)
NoLostSignal ==
  Len(linked) - taken <=
    mCount + Cardinality({c \in Consumers : pc[c] = "pop"})
           + Cardinality({p \in Producers : pc[p] = "signal"})

(***************************************************************************)
(* Consumers do not all sleep over work: with a count to take, some        *)
(* consumer that has not been stopped by its callback is awake or busy.    *)
(* notify_one wakes a single thread, which need not be the one that takes  *)
(* the count.  It holds for callbacks that go on, as asset_server's does:  *)
(* one that stops its consumer can leave the others asleep.                *)
(***************************************************************************)
SomeoneAwake ==
  mCount > 0 => \/ \A c \in Consumers : pc[c] = "done"
                \/ \E c \in Consumers : pc[c] \in {"wait", "pop", "callback"}

\* The elements in the list, and what each taker got, as Fifo has them.
Waiting == SubSeq(linked, taken + 1, Len(linked))

Given ==
  [t \in Takers |->
    IF payload[t] = NULL THEN handed[t] ELSE Append(handed[t], payload[t])]

(***************************************************************************)
(* The list implements a queue: what left it is what a taker holds or was  *)
(* handed, each element once and in the order in which they were linked.   *)
(***************************************************************************)
Queue == INSTANCE Fifo WITH waiting <- Waiting, given <- Given

IsFifo == Queue!FifoSpec

Handed(e) ==
  \E t \in Takers : \E i \in 1 .. Len(handed[t]) : handed[t][i] = e

(***************************************************************************)
(* What is pushed is handed to a callback or to a caller of pop: under     *)
(* fair threads no element stays in the list while consumers wait.         *)
(***************************************************************************)
EachIsHandedOut ==
  \A e \in Elements : (\E i \in 1 .. Len(linked) : linked[i] = e) ~> Handed(e)
=============================================================================
