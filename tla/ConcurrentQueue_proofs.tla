----------------------- MODULE ConcurrentQueue_proofs -----------------------
(***************************************************************************)
(* Proofs about ConcurrentQueue: types, the shape of the list, and that it *)
(* implements a queue, for any threads and any number of calls.            *)
(***************************************************************************)
EXTENDS ConcurrentQueue, FiniteSetTheorems, SequenceTheorems, TLAPS

\* What is linked has been pushed, or is being pushed.
Pushed ==
  \A i \in 1 .. Len(linked) :
    \/ linked[i][2] <= calls[linked[i][1]]
    \/ linked[i][2] = calls[linked[i][1]] + 1 /\ pc[linked[i][1]] = "signal"

\* Nothing is linked twice.
Once ==
  \A i, j \in 1 .. Len(linked) : linked[i] = linked[j] => i = j

\* mHead and mTail are the ends of what has not left the list.
Ends ==
  IF taken = Len(linked)
    THEN mHead = NULL /\ mTail = NULL
    ELSE mHead = linked[taken + 1] /\ mTail = linked[Len(linked)]

\* And mNext leads from one end to the other.
Chain ==
  \A i \in (taken + 1) .. Len(linked) :
    mNext[linked[i]] = IF i = Len(linked) THEN NULL ELSE linked[i + 1]

\* An element that was never linked has no successor.
Unlinked ==
  \A e \in Elements :
    (\A i \in 1 .. Len(linked) : linked[i] # e) => mNext[e] = NULL

ListInv == Pushed /\ Once /\ Ends /\ Chain /\ Unlinked

\* A taker holds an element between pop and its return.
Holding ==
  \A t \in Takers : payload[t] # NULL <=> pc[t] \in {"callback", "return"}

\* The places of threads that run wait.
ConsumerPlaces ==
  \A c \in Consumers : pc[c] \in {"wait", "asleep", "pop", "callback", "done"}

QueueInv == QueueTypeOK /\ ListInv /\ Holding /\ ConsumerPlaces

-----------------------------------------------------------------------------
(* Append, without the parts of its theorem that are not needed here.      *)
LEMMA AppendTo ==
  ASSUME NEW S, NEW s \in Seq(S), NEW e \in S
  PROVE  /\ Append(s, e) \in Seq(S)
         /\ Len(Append(s, e)) = Len(s) + 1
         /\ Append(s, e)[Len(s) + 1] = e
         /\ \A i \in 1 .. Len(s) : Append(s, e)[i] = s[i]
  BY AppendProperties

(* What a taker takes is the head of the list.                             *)
LEMMA HeadIsFirst ==
  ASSUME QueueTypeOK, Ends, mHead # NULL
  PROVE  /\ taken + 1 \in 1 .. Len(linked)
         /\ mHead = linked[taken + 1]
         /\ mHead \in Elements
  <1>1. taken \in 0 .. Len(linked) /\ linked \in Seq(Elements)
    BY DEF QueueTypeOK
  <1>2. Len(linked) \in Nat
    BY <1>1, LenProperties
  <1>3. taken # Len(linked)
    BY DEF Ends
  <1>4. mHead = linked[taken + 1]
    BY <1>3 DEF Ends
  <1>5. taken + 1 \in 1 .. Len(linked)
    BY <1>1, <1>2, <1>3
  <1> QED
    BY <1>1, <1>4, <1>5, ElementOfSeq

(* The invariant holds in the beginning.                                   *)
LEMMA InitQueueInv == Init => QueueInv
  <1> SUFFICES ASSUME Init PROVE QueueInv
    OBVIOUS
  <1> USE DEF Init
  <1>1. linked = <<>> /\ taken = 0 /\ Len(linked) = 0
    OBVIOUS
  <1>2. QueueTypeOK
    BY <1>1, QueueAssumption DEF QueueTypeOK, Places, Threads, Takers
  <1>3. ListInv
    BY <1>1 DEF ListInv, Pushed, Once, Ends, Chain, Unlinked
  <1>4. Holding /\ ConsumerPlaces
    BY QueueAssumption DEF Holding, ConsumerPlaces, Threads, Takers
  <1> QED
    BY <1>2, <1>3, <1>4 DEF QueueInv

-----------------------------------------------------------------------------
(* push links an element that is not in the list at its end.               *)
LEMMA PushQueueInv ==
  ASSUME QueueInv, NEW p \in Producers, Push(p)
  PROVE  QueueInv'
  <1> DEFINE e == <<p, calls[p] + 1>>
             n == Len(linked)
  <1>1. QueueTypeOK /\ Pushed /\ Once /\ Ends /\ Chain /\ Unlinked
    BY DEF QueueInv, ListInv
  <1>2. p \in Threads /\ pc[p] = "idle" /\ calls[p] \in Nat /\ calls[p] + 1 <= Pushes
    <2>1. p \in Threads /\ pc[p] = "idle" /\ calls[p] < Pushes
      BY DEF Push, Threads
    <2>2. calls[p] \in Nat
      BY <1>1, <2>1 DEF QueueTypeOK
    <2>3. Pushes \in Nat
      BY QueueAssumption
    <2> QED
      BY <2>1, <2>2, <2>3
  <1>3. e \in Elements /\ e # NULL
    BY <1>2, QueueAssumption DEF Elements
  <1>4. linked \in Seq(Elements) /\ n \in Nat /\ taken \in 0 .. n
    BY <1>1, LenProperties DEF QueueTypeOK
  <1>5. \A i \in 1 .. n : linked[i] \in Elements /\ linked[i] # NULL
    BY <1>4, ElementOfSeq, QueueAssumption
  <1>6. \A i \in 1 .. n : linked[i] # e
    <2>1. SUFFICES ASSUME NEW i \in 1 .. n, linked[i] = e PROVE FALSE
      OBVIOUS
    <2>2. calls[p] + 1 <= calls[p] \/ pc[p] = "signal"
      BY <1>1, <2>1, <1>2 DEF Pushed
    <2> QED
      BY <1>2, <2>2
  <1>7. /\ linked' = Append(linked, e)
        /\ linked' \in Seq(Elements)
        /\ Len(linked') = n + 1
        /\ linked'[n + 1] = e
        /\ \A i \in 1 .. n : linked'[i] = linked[i]
    BY <1>3, <1>4, AppendTo DEF Push
  <1>8. mTail' = e /\ taken' = taken /\ calls' = calls /\ payload' = payload
    BY DEF Push, Link
  <1>9. pc' = [pc EXCEPT ![p] = "signal"] /\ pc \in [Threads -> Places]
    BY <1>1 DEF Push, QueueTypeOK
  <1>10. ASSUME mTail # NULL
         PROVE  QueueTypeOK' /\ Ends' /\ Chain' /\ Unlinked'
    <2>1. mNext' = [mNext EXCEPT ![mTail] = e] /\ mHead' = mHead
      BY <1>10 DEF Push, Link
    <2>2. taken # n /\ mTail = linked[n] /\ n \in 1 .. n
      BY <1>1, <1>4, <1>10 DEF Ends
    <2>3. mTail \in Elements /\ mNext \in [Elements -> Elements \union {NULL}]
      BY <1>1, <1>10 DEF QueueTypeOK
    <2>4. QueueTypeOK'
      BY <1>1, <1>2, <1>3, <1>4, <1>7, <1>8, <1>9, <2>1, <2>3
      DEF QueueTypeOK, Push, Threads, Places
    <2>5. Ends'
      BY <1>1, <1>4, <1>7, <1>8, <2>1, <2>2 DEF Ends
    <2>6. mNext[e] = NULL
      BY <1>1, <1>3, <1>6 DEF Unlinked
    <2>7. Chain'
      <3>1. SUFFICES ASSUME NEW i \in (taken + 1) .. (n + 1)
                     PROVE  mNext'[linked'[i]] =
                              IF i = n + 1 THEN NULL ELSE linked'[i + 1]
        BY <1>7, <1>8 DEF Chain
      <3>2. CASE i = n + 1
        BY <1>3, <1>5, <1>6, <1>7, <2>1, <2>2, <2>3, <2>6, <3>2
      <3>3. CASE i = n
        BY <1>3, <1>4, <1>7, <2>1, <2>2, <2>3, <3>3
      <3>4. CASE i < n
        <4>1. i \in 1 .. n /\ i + 1 \in 1 .. n /\ i \in (taken + 1) .. n
          BY <1>4, <3>4
        <4>2. linked[i] # mTail /\ linked[i] \in Elements
          BY <1>1, <1>5, <2>2, <3>4, <4>1 DEF Once
        <4>3. mNext[linked[i]] = linked[i + 1]
          BY <1>1, <3>4, <4>1 DEF Chain
        <4> QED
          BY <1>7, <2>1, <2>3, <3>4, <4>1, <4>2, <4>3
      <3> QED
        BY <1>4, <3>2, <3>3, <3>4
    <2>8. Unlinked'
      <3>1. SUFFICES ASSUME NEW x \in Elements,
                            \A i \in 1 .. (n + 1) : linked'[i] # x
                     PROVE  mNext'[x] = NULL
        BY <1>7 DEF Unlinked
      <3>2. \A i \in 1 .. n : linked[i] # x
        BY <1>4, <1>7, <3>1
      <3> QED
        BY <1>1, <2>1, <2>2, <2>3, <3>2 DEF Unlinked
    <2> QED
      BY <2>4, <2>5, <2>7, <2>8
  <1>11. ASSUME mTail = NULL
         PROVE  QueueTypeOK' /\ Ends' /\ Chain' /\ Unlinked'
    <2>1. mNext' = mNext /\ mHead' = e
      BY <1>11 DEF Push, Link
    <2>2. taken = n
      BY <1>1, <1>4, <1>5, <1>11 DEF Ends
    <2>3. mNext \in [Elements -> Elements \union {NULL}]
      BY <1>1 DEF QueueTypeOK
    <2>4. QueueTypeOK'
      BY <1>1, <1>2, <1>3, <1>4, <1>7, <1>8, <1>9, <2>1
      DEF QueueTypeOK, Push, Threads, Places
    <2>5. Ends'
      BY <1>4, <1>7, <1>8, <2>1, <2>2 DEF Ends
    <2>6. Chain'
      <3>1. mNext[e] = NULL
        BY <1>1, <1>3, <1>6 DEF Unlinked
      <3>2. \A i \in (taken + 1) .. (n + 1) : i = n + 1
        BY <1>4, <2>2
      <3> QED
        BY <1>7, <1>8, <2>1, <3>1, <3>2 DEF Chain
    <2>7. Unlinked'
      <3>1. SUFFICES ASSUME NEW x \in Elements,
                            \A i \in 1 .. (n + 1) : linked'[i] # x
                     PROVE  mNext'[x] = NULL
        BY <1>7 DEF Unlinked
      <3>2. \A i \in 1 .. n : linked[i] # x
        BY <1>4, <1>7, <3>1
      <3> QED
        BY <1>1, <2>1, <3>2 DEF Unlinked
    <2> QED
      BY <2>4, <2>5, <2>6, <2>7
  <1>12. Pushed'
    <2>1. SUFFICES ASSUME NEW i \in 1 .. (n + 1)
                   PROVE  \/ linked'[i][2] <= calls[linked'[i][1]]
                          \/ /\ linked'[i][2] = calls[linked'[i][1]] + 1
                             /\ pc'[linked'[i][1]] = "signal"
      BY <1>7, <1>8 DEF Pushed
    <2>2. CASE i = n + 1
      BY <1>2, <1>7, <1>9, <2>2
    <2>3. CASE i \in 1 .. n
      BY <1>1, <1>2, <1>7, <1>9, <2>3 DEF Pushed
    <2> QED
      BY <1>4, <2>2, <2>3
  <1>13. Once'
    <2>1. SUFFICES ASSUME NEW i \in 1 .. (n + 1), NEW j \in 1 .. (n + 1),
                          linked'[i] = linked'[j]
                   PROVE  i = j
      BY <1>7 DEF Once
    <2> QED
      BY <1>1, <1>4, <1>6, <1>7, <2>1 DEF Once
  <1>14. Holding' /\ ConsumerPlaces'
    BY <1>2, <1>8, <1>9, QueueAssumption
    DEF QueueInv, Holding, ConsumerPlaces, Takers, Threads
  <1>15. QueueTypeOK' /\ Ends' /\ Chain' /\ Unlinked'
    BY <1>10, <1>11
  <1> QED
    BY <1>12, <1>13, <1>14, <1>15 DEF QueueInv, ListInv

(* What was linked stays pushed while its producers do not go back.        *)
LEMMA StaysPushed ==
  ASSUME QueueTypeOK, Pushed, linked' = linked,
         \A q \in Producers : calls'[q] = calls[q] /\ pc'[q] = pc[q]
  PROVE  Pushed'
  <1>1. \A i \in 1 .. Len(linked) : linked[i][1] \in Producers
    BY ElementOfSeq DEF QueueTypeOK, Elements
  <1> QED
    BY <1>1 DEF Pushed

(* Steps that leave the list alone keep its shape.                         *)
LEMMA SameList ==
  ASSUME QueueInv, UNCHANGED listVars,
         \A q \in Producers : calls'[q] = calls[q] /\ pc'[q] = pc[q]
  PROVE  ListInv'
  <1>1. Pushed'
    BY StaysPushed DEF QueueInv, ListInv, listVars
  <1> QED
    BY <1>1 DEF QueueInv, ListInv, listVars, Once, Ends, Chain, Unlinked

(* The end of push: the element counts as pushed by its producer.          *)
LEMMA SignalQueueInv ==
  ASSUME QueueInv, NEW p \in Producers, Signal(p)
  PROVE  QueueInv'
  <1>1. /\ QueueTypeOK /\ ListInv /\ Holding /\ ConsumerPlaces
        /\ UNCHANGED <<listVars, payload, handed>>
        /\ p \in Threads /\ p \notin Takers /\ pc[p] = "signal"
        /\ calls' = [calls EXCEPT ![p] = @ + 1]
    BY QueueAssumption DEF QueueInv, Signal, listVars, Threads
  <1>2. /\ pc \in [Threads -> Places] /\ pc' \in [Threads -> Places]
        /\ \A t \in Threads : t # p => \/ pc'[t] = pc[t]
                                       \/ /\ t \in Consumers
                                          /\ pc[t] = "asleep" /\ pc'[t] = "wait"
    BY <1>1 DEF Signal, NotifyOne, Sleepers, QueueTypeOK, Places, Threads, Takers
  <1>3. calls \in [Threads -> Nat] /\ calls' \in [Threads -> Nat]
    BY <1>1 DEF QueueTypeOK
  <1>4. QueueTypeOK'
    BY <1>1, <1>2, <1>3 DEF QueueTypeOK, Signal, Increment, listVars
  <1>5. Pushed'
    <2>1. SUFFICES ASSUME NEW i \in 1 .. Len(linked)
                   PROVE  \/ linked[i][2] <= calls'[linked[i][1]]
                          \/ /\ linked[i][2] = calls'[linked[i][1]] + 1
                             /\ pc'[linked[i][1]] = "signal"
      BY <1>1 DEF Pushed, listVars
    <2> DEFINE q == linked[i][1]
    <2>2. linked[i] \in Elements
      BY <1>1, ElementOfSeq DEF QueueTypeOK
    <2>3. q \in Producers /\ q \in Threads /\ q \notin Consumers /\ linked[i][2] \in Nat
      BY <2>2, QueueAssumption DEF Elements, Threads, Takers
    <2>4. \/ linked[i][2] <= calls[q]
          \/ linked[i][2] = calls[q] + 1 /\ pc[q] = "signal"
      BY <1>1 DEF ListInv, Pushed
    <2>5. calls[q] \in Nat
      BY <1>3, <2>3
    <2>6. CASE q = p
      <3>1. calls'[q] = calls[q] + 1
        BY <1>1, <1>3, <2>3, <2>6
      <3>2. linked[i][2] <= calls'[q]
        BY <2>3, <2>4, <2>5, <3>1
      <3> QED
        BY <3>2
    <2>7. CASE q # p
      <3>1. calls'[q] = calls[q] /\ pc'[q] = pc[q]
        BY <1>1, <1>2, <1>3, <2>3, <2>7
      <3> QED
        BY <2>4, <3>1
    <2> QED
      BY <2>6, <2>7
  <1>6. ListInv'
    BY <1>1, <1>5 DEF ListInv, listVars, Once, Ends, Chain, Unlinked
  <1>7. Holding' /\ ConsumerPlaces'
    BY <1>1, <1>2, QueueAssumption DEF Holding, ConsumerPlaces, Threads, Takers
  <1> QED
    BY <1>4, <1>6, <1>7 DEF QueueInv

(* The semaphore moves threads and its count only.                         *)
LEMMA SemaphoreQueueInv ==
  ASSUME QueueInv, NEW c \in Consumers, SemaphoreWait(c) \/ SpuriousWakeup(c)
  PROVE  QueueInv'
  <1>1. /\ QueueTypeOK /\ Holding /\ ConsumerPlaces
        /\ UNCHANGED <<listVars, mHeadTailMutex, calls, payload, handed>>
        /\ c \in Threads /\ c \notin Producers /\ c \in Takers
    BY QueueAssumption
    DEF QueueInv, SemaphoreWait, SpuriousWakeup, listVars, Threads, Takers
  <1>2. /\ \E x \in {"wait", "asleep", "pop"} : pc' = [pc EXCEPT ![c] = x]
        /\ pc[c] \in {"wait", "asleep"}
    BY DEF SemaphoreWait, SpuriousWakeup, Decrement
  <1>3. pc \in [Threads -> Places] /\ pc' \in [Threads -> Places]
    BY <1>1, <1>2 DEF QueueTypeOK, Places
  <1>4. mCount \in Nat /\ mCount' \in Nat
    BY <1>1 DEF QueueTypeOK, SemaphoreWait, SpuriousWakeup, Decrement
  <1>5. QueueTypeOK'
    BY <1>1, <1>3, <1>4 DEF QueueTypeOK, listVars
  <1>6. ListInv'
    BY <1>1, <1>2, <1>3, SameList DEF Threads
  <1>7. Holding' /\ ConsumerPlaces'
    BY <1>1, <1>2, <1>3 DEF Holding, ConsumerPlaces, Threads, Takers
  <1> QED
    BY <1>5, <1>6, <1>7 DEF QueueInv

-----------------------------------------------------------------------------
(* The list after its head has left it.                                    *)
LEMMA UnlinkedHead ==
  ASSUME QueueInv, NEW t \in Takers, PopElement(t)
  PROVE  /\ mHead' \in Elements \union {NULL} /\ mTail' \in Elements \union {NULL}
         /\ taken' \in 0 .. Len(linked)
         /\ Once' /\ Ends' /\ Chain' /\ Unlinked'
  <1> DEFINE n == Len(linked)
  <1>1. QueueTypeOK /\ Once /\ Ends /\ Chain /\ Unlinked
    BY DEF QueueInv, ListInv
  <1>2. /\ mHead # NULL /\ mHead' = mNext[mHead]
        /\ mTail' = IF mNext[mHead] = NULL THEN NULL ELSE mTail
        /\ taken' = taken + 1 /\ linked' = linked /\ mNext' = mNext
    BY DEF PopElement, Unlink
  <1>3. taken + 1 \in 1 .. n /\ mHead = linked[taken + 1] /\ mHead \in Elements
    BY <1>1, <1>2, HeadIsFirst
  <1>4. n \in Nat /\ taken \in 0 .. n /\ linked \in Seq(Elements)
    BY <1>1, LenProperties DEF QueueTypeOK
  <1>5. \A i \in 1 .. n : linked[i] \in Elements /\ linked[i] # NULL
    BY <1>4, ElementOfSeq, QueueAssumption
  <1>6. mNext[mHead] = IF taken + 1 = n THEN NULL ELSE linked[taken + 2]
    BY <1>1, <1>3, <1>4 DEF Chain
  <1>7. mTail = linked[n]
    BY <1>1, <1>3, <1>4 DEF Ends
  <1>8. Ends'
    <2>1. CASE taken + 1 = n
      BY <1>2, <1>6, <2>1 DEF Ends
    <2>2. CASE taken + 1 # n
      <3>1. taken + 2 \in 1 .. n
        BY <1>3, <1>4, <2>2
      <3>2. mHead' = linked[taken + 2] /\ mHead' # NULL
        BY <1>2, <1>5, <1>6, <2>2, <3>1
      <3> QED
        BY <1>2, <1>4, <1>7, <2>2, <3>2 DEF Ends
    <2> QED
      BY <2>1, <2>2
  <1>9. mHead' \in Elements \union {NULL} /\ mTail' \in Elements \union {NULL}
    BY <1>1, <1>2, <1>3 DEF QueueTypeOK
  <1>10. taken' \in 0 .. n
    BY <1>2, <1>3, <1>4
  <1>11. Chain'
    BY <1>1, <1>2, <1>4 DEF Chain
  <1>12. Once' /\ Unlinked'
    BY <1>1, <1>2 DEF Once, Unlinked
  <1> QED
    BY <1>8, <1>9, <1>10, <1>11, <1>12

(* pop takes the head of the list, or finds none.                          *)
LEMMA PopQueueInv ==
  ASSUME QueueInv, NEW t \in Takers,
         \/ t \in Consumers /\ ConsumerPop(t)
         \/ t \in Poppers /\ Pop(t)
  PROVE  QueueInv'
  <1>1. /\ QueueTypeOK /\ Pushed /\ Holding /\ ConsumerPlaces
        /\ t \in Threads /\ t \notin Producers
    BY QueueAssumption DEF QueueInv, ListInv, Threads
  <1>2. /\ calls \in [Threads -> Nat] /\ calls' \in [Threads -> Nat]
        /\ \A q \in Producers : calls'[q] = calls[q]
    <2>1. calls' = calls \/ calls' = [calls EXCEPT ![t] = @ + 1]
      BY DEF ConsumerPop, Pop
    <2>2. calls \in [Threads -> Nat]
      BY <1>1 DEF QueueTypeOK
    <2>3. calls[t] \in Nat /\ Producers \subseteq Threads
      BY <1>1, <2>2 DEF Threads
    <2>4. CASE calls' = calls
      BY <2>2, <2>4
    <2>5. CASE calls' = [calls EXCEPT ![t] = @ + 1]
      BY <1>1, <2>2, <2>3, <2>5
    <2> QED
      BY <2>1, <2>4, <2>5
  <1>3. pc \in [Threads -> Places] /\ payload \in [Takers -> Elements \union {NULL}]
    BY <1>1 DEF QueueTypeOK
  <1>4. ASSUME PopElement(t),
               pc' = [pc EXCEPT ![t] = IF t \in Consumers THEN "callback" ELSE "return"]
        PROVE  QueueInv'
    <2>1. /\ mHead' \in Elements \union {NULL} /\ mTail' \in Elements \union {NULL}
          /\ taken' \in 0 .. Len(linked)
          /\ Once' /\ Ends' /\ Chain' /\ Unlinked'
      BY <1>4, UnlinkedHead
    <2>2. /\ payload' = [payload EXCEPT ![t] = mHead] /\ mHead # NULL
          /\ UNCHANGED <<linked, mNext, mHeadTailMutex, mCount, handed>>
      BY <1>4 DEF PopElement
    <2>3. pc' \in [Threads -> Places]
      BY <1>3, <1>4 DEF Places
    <2>4. payload' \in [Takers -> Elements \union {NULL}]
      BY <1>1, <1>3, <2>2 DEF QueueTypeOK
    <2>5. QueueTypeOK'
      BY <1>1, <1>2, <2>1, <2>2, <2>3, <2>4 DEF QueueTypeOK
    <2>6. Pushed'
      BY <1>1, <1>2, <1>3, <1>4, <2>2, StaysPushed DEF Threads
    <2>7. Holding'
      BY <1>1, <1>3, <1>4, <2>2 DEF Holding, Threads
    <2>8. ConsumerPlaces'
      BY <1>1, <1>3, <1>4 DEF ConsumerPlaces, Threads, Takers
    <2> QED
      BY <2>1, <2>5, <2>6, <2>7, <2>8 DEF QueueInv, ListInv
  <1>5. ASSUME UNCHANGED <<listVars, mHeadTailMutex, mCount, payload, handed>>,
               pc[t] \notin {"callback", "return"},
               pc' = [pc EXCEPT ![t] = IF t \in Consumers THEN "wait" ELSE @]
        PROVE  QueueInv'
    <2>1. pc' \in [Threads -> Places]
      BY <1>3, <1>5 DEF Places
    <2>2. QueueTypeOK'
      BY <1>1, <1>2, <1>5, <2>1 DEF QueueTypeOK, listVars
    <2>3. ListInv'
      BY <1>1, <1>2, <1>3, <1>5, SameList DEF Threads
    <2>4. Holding' /\ ConsumerPlaces'
      BY <1>1, <1>3, <1>5 DEF Holding, ConsumerPlaces, Threads, Takers
    <2> QED
      BY <2>2, <2>3, <2>4 DEF QueueInv
  <1>6. CASE t \in Consumers /\ ConsumerPop(t)
    BY <1>4, <1>5, <1>6 DEF ConsumerPop
  <1>7. CASE t \in Poppers /\ Pop(t)
    <2>1. t \notin Consumers
      BY <1>7, QueueAssumption
    <2>2. pc = [pc EXCEPT ![t] = @]
      BY <1>1, <1>3
    <2> QED
      BY <1>4, <1>5, <1>7, <2>1, <2>2 DEF Pop
  <1> QED
    BY <1>6, <1>7

(* A taker hands over what it holds.                                       *)
LEMMA HandOverQueueInv ==
  ASSUME QueueInv, NEW t \in Takers,
         \/ t \in Consumers /\ Callback(t)
         \/ t \in Poppers /\ PopReturns(t)
  PROVE  QueueInv'
  <1>1. /\ QueueTypeOK /\ Holding /\ ConsumerPlaces
        /\ t \in Threads /\ t \notin Producers
    BY QueueAssumption DEF QueueInv, Threads
  <1>2. /\ UNCHANGED <<listVars, mHeadTailMutex, mCount, calls>>
        /\ handed' = [handed EXCEPT ![t] = Append(@, payload[t])]
        /\ payload' = [payload EXCEPT ![t] = NULL]
        /\ pc[t] \in {"callback", "return"}
        /\ \E x \in {"wait", "done", "idle"} :
             /\ pc' = [pc EXCEPT ![t] = x]
             /\ t \in Consumers => x # "idle"
    BY QueueAssumption DEF Callback, PopReturns, HandOver
  <1>3. /\ pc \in [Threads -> Places] /\ payload \in [Takers -> Elements \union {NULL}]
        /\ handed \in [Takers -> Seq(Elements)]
    BY <1>1 DEF QueueTypeOK
  <1>4. payload[t] \in Elements
    BY <1>1, <1>2, <1>3 DEF Holding
  <1>5. handed' \in [Takers -> Seq(Elements)]
    <2>1. Append(handed[t], payload[t]) \in Seq(Elements)
      BY <1>3, <1>4, AppendTo
    <2> QED
      BY <1>2, <1>3, <2>1
  <1>6. pc' \in [Threads -> Places] /\ payload' \in [Takers -> Elements \union {NULL}]
    BY <1>2, <1>3 DEF Places
  <1>7. QueueTypeOK'
    BY <1>1, <1>2, <1>5, <1>6 DEF QueueTypeOK, listVars
  <1>8. ListInv'
    BY <1>1, <1>2, <1>3, SameList DEF Threads
  <1>9. Holding' /\ ConsumerPlaces'
    BY <1>1, <1>2, <1>3 DEF Holding, ConsumerPlaces, Threads, Takers
  <1> QED
    BY <1>7, <1>8, <1>9 DEF QueueInv

-----------------------------------------------------------------------------
(* The invariant is inductive.                                             *)
LEMMA StepQueueInv ==
  ASSUME QueueInv, [Next]_vars
  PROVE  QueueInv'
  <1>1. ASSUME NEW p \in Producers, ProducerStep(p) PROVE QueueInv'
    BY <1>1, PushQueueInv, SignalQueueInv DEF ProducerStep
  <1>2. ASSUME NEW c \in Consumers, ConsumerStep(c) \/ SpuriousWakeup(c)
        PROVE  QueueInv'
    BY <1>2, SemaphoreQueueInv, PopQueueInv, HandOverQueueInv
    DEF ConsumerStep, Takers
  <1>3. ASSUME NEW t \in Poppers, PopperStep(t) PROVE QueueInv'
    BY <1>3, PopQueueInv, HandOverQueueInv DEF PopperStep, Takers
  <1>4. CASE UNCHANGED vars
    BY <1>4 DEF vars, QueueInv, QueueTypeOK, ListInv, Pushed, Once, Ends, Chain,
                Unlinked, Holding, ConsumerPlaces
  <1> QED
    BY <1>1, <1>2, <1>3, <1>4 DEF Next

LEMMA QueueInvCorrect == Spec => []QueueInv
  BY InitQueueInv, StepQueueInv, PTL DEF Spec

(* The variables keep their types: the list holds pushed elements only.    *)
THEOREM QueueTypeCorrect == Spec => []QueueTypeOK
  <1>1. QueueInv => QueueTypeOK
    BY DEF QueueInv
  <1> QED
    BY <1>1, QueueInvCorrect, PTL

-----------------------------------------------------------------------------
(* The end of a sequence, without its first k elements.                    *)
LEMMA EndOfSeq ==
  ASSUME NEW S, NEW s \in Seq(S), NEW k \in 0 .. Len(s)
  PROVE  /\ SubSeq(s, k + 1, Len(s)) \in Seq(S)
         /\ Len(SubSeq(s, k + 1, Len(s))) = Len(s) - k
         /\ \A i \in 1 .. (Len(s) - k) : SubSeq(s, k + 1, Len(s))[i] = s[k + i]
  <1> DEFINE m == k + 1
             n == Len(s)
             w == SubSeq(s, m, n)
  <1>1. n \in Nat /\ k \in Nat /\ k <= n
    BY LenProperties
  <1>2. \A i \in m .. n : s[i] \in S
    BY <1>1, ElementOfSeq
  <1>3. m \in Int /\ n \in Int /\ m = k + 1
    BY <1>1
  <1> HIDE DEF m, n
  <1>4. /\ w \in Seq(S)
        /\ Len(w) = IF m <= n THEN n - m + 1 ELSE 0
        /\ \A i \in 1 .. n - m + 1 : w[i] = s[m + i - 1]
    BY <1>2, <1>3, SubSeqProperties
  <1> HIDE DEF w
  <1>5. Len(w) = n - k
    BY <1>1, <1>3, <1>4
  <1>6. \A i \in 1 .. (n - k) : w[i] = s[k + i]
    <2>1. SUFFICES ASSUME NEW i \in 1 .. (n - k) PROVE w[i] = s[k + i]
      OBVIOUS
    <2>2. i \in 1 .. n - m + 1 /\ m + i - 1 = k + i
      BY <1>1, <1>3
    <2> QED
      BY <1>4, <2>2
  <1> QED
    BY <1>4, <1>5, <1>6 DEF m, n, w

(* push puts its element in, behind what is there.                         *)
LEMMA PushIsPut ==
  ASSUME QueueInv, NEW p \in Producers, Push(p)
  PROVE  Queue!Put(<<p, calls[p] + 1>>) /\ <<p, calls[p] + 1>> \in Elements
  <1> DEFINE e == <<p, calls[p] + 1>>
  <1>1. linked' = Append(linked, e) /\ UNCHANGED <<taken, payload, handed>>
    BY DEF Push, Link
  <1>2. QueueInv'
    BY PushQueueInv
  <1>3. linked \in Seq(Elements) /\ Len(linked) \in Nat /\ taken \in 0 .. Len(linked)
    BY LenProperties DEF QueueInv, QueueTypeOK
  <1>4. e \in Elements
    <2>1. p \in Threads /\ calls[p] < Pushes
      BY DEF Push, Threads
    <2>2. calls[p] \in Nat /\ Pushes \in Nat
      BY <2>1, QueueAssumption DEF QueueInv, QueueTypeOK
    <2>3. calls[p] + 1 \in 1 .. Pushes
      BY <2>1, <2>2
    <2> QED
      BY <2>3 DEF Elements
  <1>5. /\ Len(linked') = Len(linked) + 1
        /\ linked'[Len(linked) + 1] = e
        /\ \A i \in 1 .. Len(linked) : linked'[i] = linked[i]
    BY <1>1, <1>3, <1>4, AppendTo
  <1>6. /\ Waiting \in Seq(Elements)
        /\ Len(Waiting) = Len(linked) - taken
        /\ \A i \in 1 .. (Len(linked) - taken) : Waiting[i] = linked[taken + i]
    BY <1>3, EndOfSeq DEF Waiting
  <1>7. /\ Waiting' \in Seq(Elements)
        /\ Len(Waiting') = Len(linked) + 1 - taken
        /\ \A i \in 1 .. (Len(linked) + 1 - taken) : Waiting'[i] = linked'[taken + i]
    <2>1. linked' \in Seq(Elements) /\ taken' \in 0 .. Len(linked')
      BY <1>2 DEF QueueInv, QueueTypeOK
    <2> QED
      BY <1>1, <1>5, <2>1, EndOfSeq DEF Waiting
  <1>8. /\ Append(Waiting, e) \in Seq(Elements)
        /\ Len(Append(Waiting, e)) = Len(linked) - taken + 1
        /\ Append(Waiting, e)[Len(linked) - taken + 1] = e
        /\ \A i \in 1 .. (Len(linked) - taken) : Append(Waiting, e)[i] = Waiting[i]
    BY <1>4, <1>6, AppendTo
  <1>9. \A i \in 1 .. Len(Waiting') : Waiting'[i] = Append(Waiting, e)[i]
    <2>1. SUFFICES ASSUME NEW i \in 1 .. (Len(linked) + 1 - taken)
                   PROVE  Waiting'[i] = Append(Waiting, e)[i]
      BY <1>7
    <2>2. CASE i = Len(linked) + 1 - taken
      <3>1. i = Len(linked) - taken + 1 /\ taken + i = Len(linked) + 1
        BY <1>3, <2>2
      <3> QED
        BY <1>5, <1>7, <1>8, <3>1
    <2>3. CASE i # Len(linked) + 1 - taken
      <3>1. i \in 1 .. (Len(linked) - taken) /\ taken + i \in 1 .. Len(linked)
        BY <1>3, <2>3
      <3> QED
        BY <1>5, <1>6, <1>7, <1>8, <3>1
    <2> QED
      BY <2>2, <2>3
  <1>10. Len(Waiting') = Len(Append(Waiting, e))
    BY <1>3, <1>7, <1>8
  <1>11. Waiting' = Append(Waiting, e)
    BY <1>7, <1>8, <1>9, <1>10, SeqEqual
  <1>12. \A i \in 1 .. Len(linked) : linked[i] # e
    <2>1. Once'
      BY <1>2 DEF QueueInv, ListInv
    <2>2. SUFFICES ASSUME NEW i \in 1 .. Len(linked), linked[i] = e PROVE FALSE
      OBVIOUS
    <2>3. i = Len(linked) + 1
      BY <1>3, <1>5, <2>1, <2>2 DEF Once
    <2> QED
      BY <1>3, <2>3
  <1>13. \A i \in 1 .. Len(Waiting) : Waiting[i] # e
    BY <1>3, <1>6, <1>12
  <1>14. Given' = Given
    BY <1>1 DEF Given
  <1> QED
    BY <1>4, <1>11, <1>13, <1>14 DEF Queue!Put

(* pop takes the first element that waits.                                 *)
LEMMA PopIsTake ==
  ASSUME QueueInv, NEW t \in Takers, PopElement(t), payload[t] = NULL
  PROVE  Queue!Take(t)
  <1>1. /\ mHead # NULL /\ payload' = [payload EXCEPT ![t] = mHead]
        /\ taken' = taken + 1 /\ UNCHANGED <<linked, handed>>
    BY DEF PopElement
  <1>2. QueueTypeOK /\ Ends
    BY DEF QueueInv, ListInv
  <1>3. taken + 1 \in 1 .. Len(linked) /\ mHead = linked[taken + 1]
    BY <1>1, <1>2, HeadIsFirst
  <1>4. /\ linked \in Seq(Elements) /\ Len(linked) \in Nat
        /\ payload \in [Takers -> Elements \union {NULL}]
    BY <1>2, LenProperties DEF QueueTypeOK
  <1>5. Head(Waiting) = mHead /\ Tail(Waiting) = Waiting'
    <2> DEFINE m == taken + 1
               n == Len(linked)
    <2>1. m \in 1 .. n /\ n \in m .. n
      BY <1>3, <1>4
    <2> HIDE DEF m, n
    <2>2. /\ Head(SubSeq(linked, m, n)) = linked[m]
          /\ Tail(SubSeq(linked, m, n)) = SubSeq(linked, m + 1, n)
      BY <1>4, <2>1, HeadTailOfSubSeq
    <2> QED
      BY <1>1, <1>3, <2>2 DEF m, n, Waiting
  <1>6. Waiting # <<>>
    <2>1. Len(Waiting) = Len(linked) - taken /\ taken \in Nat
      BY <1>2, <1>4, EndOfSeq DEF QueueTypeOK, Waiting
    <2>2. Len(Waiting) # 0
      BY <1>3, <1>4, <2>1
    <2> QED
      BY <2>2, EmptySeq
  <1>7. Given' = [Given EXCEPT ![t] = Append(@, mHead)]
    <2>1. payload' = [x \in Takers |-> IF x = t THEN mHead ELSE payload[x]]
      BY <1>1, <1>4
    <2> QED
      BY <1>1, <2>1 DEF Given
  <1> QED
    BY <1>5, <1>6, <1>7 DEF Queue!Take

(* Handing over changes nothing that a queue promises.                     *)
LEMMA HandOverIsStutter ==
  ASSUME QueueInv, NEW t \in Takers, HandOver(t), payload[t] # NULL
  PROVE  UNCHANGED <<Waiting, Given>>
  <1>1. /\ handed' = [handed EXCEPT ![t] = Append(@, payload[t])]
        /\ payload' = [payload EXCEPT ![t] = NULL]
        /\ UNCHANGED <<linked, taken>>
    BY DEF HandOver, listVars
  <1>2. /\ payload \in [Takers -> Elements \union {NULL}]
        /\ handed \in [Takers -> Seq(Elements)]
    BY DEF QueueInv, QueueTypeOK
  <1>3. \A x \in Takers :
          (IF payload'[x] = NULL THEN handed'[x] ELSE Append(handed'[x], payload'[x]))
          = (IF payload[x] = NULL THEN handed[x] ELSE Append(handed[x], payload[x]))
    BY <1>1, <1>2
  <1>4. Given' = Given
    BY <1>3 DEF Given
  <1>5. Waiting' = Waiting
    BY <1>1 DEF Waiting
  <1> QED
    BY <1>4, <1>5

LEMMA InitIsFifo == Init => Queue!FifoInit
  <1> SUFFICES ASSUME Init PROVE Queue!FifoInit
    OBVIOUS
  <1>1. linked = <<>> /\ taken + 1 = 1 /\ Len(linked) = 0
    BY DEF Init
  <1>2. SubSeq(<<>>, 1, 0) = <<>>
    BY SubSeqEmpty
  <1>3. Waiting = <<>>
    BY <1>1, <1>2 DEF Waiting
  <1>4. Given = [t \in Takers |-> <<>>]
    BY DEF Init, Given
  <1> QED
    BY <1>3, <1>4 DEF Queue!FifoInit

(* Every step of the threads is a step of the queue or none at all.        *)
LEMMA StepIsFifo ==
  ASSUME QueueInv, [Next]_vars
  PROVE  [Queue!FifoNext]_(Queue!fifoVars)
  <1>1. ASSUME UNCHANGED <<linked, taken, payload, handed>>
        PROVE  UNCHANGED <<Waiting, Given>>
    BY <1>1 DEF Waiting, Given
  <1>2. Holding
    BY DEF QueueInv
  <1>3. ASSUME NEW p \in Producers, ProducerStep(p)
        PROVE  [Queue!FifoNext]_(Queue!fifoVars)
    <2>1. CASE Push(p)
      BY <2>1, PushIsPut DEF Queue!FifoNext
    <2>2. CASE Signal(p)
      BY <1>1, <2>2 DEF Signal, Queue!fifoVars
    <2> QED
      BY <1>3, <2>1, <2>2 DEF ProducerStep
  <1>4. ASSUME NEW t \in Takers,
               \/ t \in Consumers /\ ConsumerPop(t)
               \/ t \in Poppers /\ Pop(t)
        PROVE  [Queue!FifoNext]_(Queue!fifoVars)
    <2>1. pc[t] \notin {"callback", "return"}
      BY <1>4 DEF ConsumerPop, Pop
    <2>2. payload[t] = NULL
      BY <1>2, <2>1 DEF Holding
    <2>3. CASE PopElement(t)
      BY <2>2, <2>3, PopIsTake DEF Queue!FifoNext
    <2>4. CASE ~PopElement(t)
      BY <1>1, <1>4, <2>4 DEF ConsumerPop, Pop, listVars, Queue!fifoVars
    <2> QED
      BY <2>3, <2>4
  <1>5. ASSUME NEW t \in Takers,
               \/ t \in Consumers /\ Callback(t)
               \/ t \in Poppers /\ PopReturns(t)
        PROVE  [Queue!FifoNext]_(Queue!fifoVars)
    <2>1. pc[t] \in {"callback", "return"} /\ HandOver(t)
      BY <1>5 DEF Callback, PopReturns
    <2>2. payload[t] # NULL
      BY <1>2, <2>1 DEF Holding
    <2> QED
      BY <2>1, <2>2, HandOverIsStutter DEF Queue!fifoVars
  <1>6. ASSUME NEW c \in Consumers, SemaphoreWait(c) \/ SpuriousWakeup(c)
        PROVE  [Queue!FifoNext]_(Queue!fifoVars)
    BY <1>1, <1>6 DEF SemaphoreWait, SpuriousWakeup, Queue!fifoVars
  <1>7. CASE UNCHANGED vars
    BY <1>1, <1>7 DEF vars, Queue!fifoVars
  <1>8. CASE Next
    BY <1>3, <1>4, <1>5, <1>6, <1>8 DEF Next, ConsumerStep, PopperStep, Takers
  <1> QED
    BY <1>7, <1>8

(***************************************************************************)
(* concurrent_queue is a queue: whatever threads push, wait and pop, each  *)
(* element leaves once, to one of them, in the order of the pushes.        *)
(***************************************************************************)
THEOREM QueueIsFifo == Spec => IsFifo
  BY InitIsFifo, StepIsFifo, QueueInvCorrect, PTL DEF Spec, IsFifo, Queue!FifoSpec

-----------------------------------------------------------------------------
\* The two sides of a signal that is on its way.
Popping == {c \in Consumers : pc[c] = "pop"}

Signalling == {p \in Producers : pc[p] = "signal"}

(* Both are finite, so that they can be counted.                           *)
LEMMA FiniteSides ==
  /\ IsFiniteSet(Popping) /\ Cardinality(Popping) \in Nat
  /\ IsFiniteSet(Signalling) /\ Cardinality(Signalling) \in Nat
  <1>1. Popping \in SUBSET Consumers /\ Signalling \in SUBSET Producers
    BY DEF Popping, Signalling
  <1>2. IsFiniteSet(Popping) /\ IsFiniteSet(Signalling)
    BY <1>1, QueueAssumption, FS_Subset
  <1> QED
    BY <1>2, FS_CardinalityType

(* No wake-up is lost by any step: an element enters the list with a       *)
(* signal, a signal turns into a count, a count into a consumer that pops. *)
LEMMA StepNoLostSignal ==
  ASSUME QueueInv, NoLostSignal, [Next]_vars
  PROVE  NoLostSignal'
  <1> DEFINE left == Len(linked) - taken
  <1>1. /\ linked \in Seq(Elements) /\ Len(linked) \in Nat /\ taken \in 0 .. Len(linked)
        /\ mCount \in Nat /\ pc \in [Threads -> Places]
        /\ Ends /\ ConsumerPlaces
    BY LenProperties DEF QueueInv, QueueTypeOK, ListInv
  <1>2. left <= mCount + Cardinality(Popping) + Cardinality(Signalling)
    BY DEF NoLostSignal, Popping, Signalling
  <1>3. SUFFICES left' <= mCount' + Cardinality(Popping') + Cardinality(Signalling')
    BY DEF NoLostSignal, Popping, Signalling
  <1>4. /\ Cardinality(Popping) \in Nat /\ IsFiniteSet(Popping)
        /\ Cardinality(Signalling) \in Nat /\ IsFiniteSet(Signalling)
    BY FiniteSides
  <1>5. Producers \subseteq Threads /\ Takers \subseteq Threads
        /\ Consumers \subseteq Takers /\ Poppers \subseteq Takers
        /\ Producers \intersect Takers = {} /\ Consumers \intersect Poppers = {}
    BY QueueAssumption DEF Threads, Takers
  <1>6. ASSUME NEW p \in Producers, Push(p)
        PROVE  left' <= mCount' + Cardinality(Popping') + Cardinality(Signalling')
    <2>1. pc' = [pc EXCEPT ![p] = "signal"] /\ pc[p] = "idle" /\ UNCHANGED <<mCount, taken>>
      BY <1>6 DEF Push
    <2>2. Len(linked') = Len(linked) + 1
      <3>1. linked' = Append(linked, <<p, calls[p] + 1>>)
        BY <1>6 DEF Push
      <3>2. <<p, calls[p] + 1>> \in Elements
        BY <1>6, PushIsPut
      <3> QED
        BY <1>1, <3>1, <3>2, AppendTo
    <2>3. Popping' = Popping
      BY <1>1, <1>5, <2>1 DEF Popping
    <2>4. Signalling' = Signalling \union {p} /\ p \notin Signalling
      BY <1>1, <1>5, <2>1 DEF Signalling
    <2>5. Cardinality(Signalling') = Cardinality(Signalling) + 1
      BY <1>4, <2>4, FS_AddElement
    <2>6. left' = left + 1
      BY <1>1, <2>1, <2>2
    <2> QED
      BY <1>1, <1>2, <1>4, <2>1, <2>3, <2>5, <2>6
  <1>7. ASSUME NEW p \in Producers, Signal(p)
        PROVE  left' <= mCount' + Cardinality(Popping') + Cardinality(Signalling')
    <2>1. /\ pc[p] = "signal" /\ mCount' = mCount + 1 /\ UNCHANGED <<linked, taken>>
          /\ \/ pc' = [pc EXCEPT ![p] = "idle"]
             \/ \E c \in Consumers : /\ pc[c] = "asleep"
                                     /\ pc' = [pc EXCEPT ![p] = "idle", ![c] = "wait"]
      BY <1>7 DEF Signal, Increment, NotifyOne, Sleepers
    <2>2. Popping' = Popping
      BY <1>1, <1>5, <2>1 DEF Popping
    <2>3. Signalling' = Signalling \ {p} /\ p \in Signalling
      BY <1>1, <1>5, <2>1 DEF Signalling
    <2>4. Cardinality(Signalling') = Cardinality(Signalling) - 1
      BY <1>4, <2>3, FS_RemoveElement
    <2> QED
      BY <1>1, <1>2, <1>4, <2>1, <2>2, <2>4
  <1>8. ASSUME NEW c \in Consumers, SemaphoreWait(c)
        PROVE  left' <= mCount' + Cardinality(Popping') + Cardinality(Signalling')
    <2>1. pc[c] = "wait" /\ UNCHANGED <<linked, taken>>
      BY <1>8 DEF SemaphoreWait, listVars
    <2>2. CASE Decrement /\ pc' = [pc EXCEPT ![c] = "pop"]
      <3>1. mCount' = mCount - 1
        BY <2>2 DEF Decrement
      <3>2. Popping' = Popping \union {c} /\ c \notin Popping
        BY <1>1, <1>5, <2>1, <2>2 DEF Popping
      <3>3. Signalling' = Signalling
        BY <1>1, <1>5, <2>1, <2>2 DEF Signalling
      <3>4. Cardinality(Popping') = Cardinality(Popping) + 1
        BY <1>4, <3>2, FS_AddElement
      <3> QED
        BY <1>1, <1>2, <1>4, <2>1, <3>1, <3>3, <3>4
    <2>3. CASE pc' = [pc EXCEPT ![c] = "asleep"] /\ UNCHANGED mCount
      <3>1. Popping' = Popping /\ Signalling' = Signalling
        BY <1>1, <1>5, <2>1, <2>3 DEF Popping, Signalling
      <3> QED
        BY <1>2, <2>1, <2>3, <3>1
    <2> QED
      BY <1>8, <2>2, <2>3 DEF SemaphoreWait
  <1>9. ASSUME NEW c \in Consumers, ConsumerPop(c)
        PROVE  left' <= mCount' + Cardinality(Popping') + Cardinality(Signalling')
    <2>1. pc[c] = "pop" /\ UNCHANGED <<mCount, linked>>
      BY <1>9 DEF ConsumerPop, PopElement, listVars
    <2>2. \E x \in {"callback", "wait"} : pc' = [pc EXCEPT ![c] = x]
      BY <1>9 DEF ConsumerPop
    <2>3. Popping' = Popping \ {c} /\ c \in Popping
      BY <1>1, <1>5, <2>1, <2>2 DEF Popping
    <2>4. Signalling' = Signalling
      BY <1>1, <1>5, <2>1, <2>2 DEF Signalling
    <2>5. Cardinality(Popping') = Cardinality(Popping) - 1 /\ Cardinality(Popping') \in Nat
      BY <1>4, <2>3, FS_RemoveElement, FS_CardinalityType
    <2>6. CASE PopElement(c)
      <3>1. taken' = taken + 1
        BY <2>6 DEF PopElement
      <3> QED
        BY <1>1, <1>2, <1>4, <2>1, <2>4, <2>5, <3>1
    <2>7. CASE ~PopElement(c)
      <3>1. taken' = taken /\ mHead = NULL
        BY <1>9, <2>7 DEF ConsumerPop, PopNothing, listVars
      <3>2. taken = Len(linked)
        <4>1. SUFFICES ASSUME taken # Len(linked) PROVE FALSE
          OBVIOUS
        <4>2. mHead = linked[taken + 1] /\ taken + 1 \in 1 .. Len(linked)
          BY <1>1, <4>1 DEF Ends
        <4>3. mHead \in Elements
          BY <1>1, <4>2, ElementOfSeq
        <4> QED
          BY <3>1, <4>3, QueueAssumption
      <3> QED
        BY <1>1, <1>4, <2>1, <2>4, <2>5, <3>1, <3>2
    <2> QED
      BY <2>6, <2>7
  <1>10. ASSUME NEW c \in Consumers, SpuriousWakeup(c) \/ Callback(c)
         PROVE  left' <= mCount' + Cardinality(Popping') + Cardinality(Signalling')
    <2>1. /\ pc[c] \in {"asleep", "callback"} /\ UNCHANGED <<mCount, linked, taken>>
          /\ \E x \in {"wait", "done"} : pc' = [pc EXCEPT ![c] = x]
      BY <1>10 DEF SpuriousWakeup, Callback, HandOver, listVars
    <2>2. Popping' = Popping /\ Signalling' = Signalling
      BY <1>1, <1>5, <2>1 DEF Popping, Signalling
    <2> QED
      BY <1>2, <2>1, <2>2
  <1>11. ASSUME NEW t \in Poppers, PopperStep(t)
         PROVE  left' <= mCount' + Cardinality(Popping') + Cardinality(Signalling')
    <2>1. /\ UNCHANGED <<mCount, linked>> /\ (taken' = taken \/ taken' = taken + 1)
          /\ pc' = pc \/ \E x \in {"return", "idle"} : pc' = [pc EXCEPT ![t] = x]
      BY <1>11 DEF PopperStep, Pop, PopReturns, PopElement, HandOver, listVars
    <2>2. Popping' = Popping /\ Signalling' = Signalling
      BY <1>1, <1>5, <2>1 DEF Popping, Signalling
    <2> QED
      BY <1>1, <1>2, <1>4, <2>1, <2>2
  <1>12. CASE UNCHANGED vars
    <2>1. UNCHANGED <<linked, taken, mCount, pc>>
      BY <1>12 DEF vars
    <2> QED
      BY <1>2, <2>1 DEF Popping, Signalling
  <1> QED
    BY <1>6, <1>7, <1>8, <1>9, <1>10, <1>11, <1>12
    DEF Next, ProducerStep, ConsumerStep

(***************************************************************************)
(* No wake-up is lost, for any number of producers and consumers: the      *)
(* elements in the list never outnumber the counts, the consumers on their *)
(* way to pop and the producers on their way to signal.                    *)
(***************************************************************************)
THEOREM NoLostSignalCorrect == Spec => []NoLostSignal
  <1>1. Init => NoLostSignal
    <2> SUFFICES ASSUME Init PROVE NoLostSignal
      OBVIOUS
    <2>1. Len(linked) - taken = 0 /\ mCount = 0
      BY DEF Init
    <2>2. Cardinality(Popping) \in Nat /\ Cardinality(Signalling) \in Nat
      BY FiniteSides
    <2> HIDE DEF Init
    <2> QED
      BY <2>1, <2>2 DEF NoLostSignal, Popping, Signalling
  <1> QED
    BY <1>1, StepNoLostSignal, QueueInvCorrect, PTL DEF Spec

-----------------------------------------------------------------------------
(***************************************************************************)
(* notify_one is enough: as long as no callback stops its consumer, a      *)
(* count never waits while all consumers sleep.  A callback that stops the *)
(* one consumer that is awake leaves the others asleep over work.          *)
(***************************************************************************)
THEOREM SomeoneAwakeCorrect ==
  ASSUME FALSE \notin KeepGoing
  PROVE  Spec => []SomeoneAwake
  <1>1. Init => SomeoneAwake
    BY DEF Init, SomeoneAwake
  <1>2. ASSUME QueueInv, SomeoneAwake, [Next]_vars
        PROVE  SomeoneAwake'
    <2>1. /\ pc \in [Threads -> Places] /\ mCount \in Nat /\ ConsumerPlaces
          /\ Consumers \subseteq Threads
          /\ Producers \intersect Consumers = {} /\ Poppers \intersect Consumers = {}
      BY <1>2, QueueAssumption DEF QueueInv, QueueTypeOK, Takers, Threads
    <2>2. ASSUME mCount' = mCount, \A c \in Consumers : pc'[c] = pc[c]
          PROVE  SomeoneAwake'
      BY <1>2, <2>2 DEF SomeoneAwake
    <2>3. ASSUME NEW p \in Producers, Push(p) PROVE SomeoneAwake'
      BY <2>1, <2>2, <2>3 DEF Push
    <2>4. ASSUME NEW p \in Producers, Signal(p) PROVE SomeoneAwake'
      <3>1. CASE Sleepers = {} /\ pc' = [pc EXCEPT ![p] = "idle"]
        <4>1. \A c \in Consumers : pc'[c] \in {"wait", "pop", "callback", "done"}
          BY <2>1, <3>1 DEF ConsumerPlaces, Sleepers
        <4> QED
          BY <4>1 DEF SomeoneAwake
      <3>2. ASSUME NEW c \in Consumers, pc' = [pc EXCEPT ![p] = "idle", ![c] = "wait"]
            PROVE  SomeoneAwake'
        BY <2>1, <3>2 DEF SomeoneAwake
      <3> QED
        BY <2>4, <3>1, <3>2 DEF Signal, NotifyOne, Sleepers
    <2>5. ASSUME NEW c \in Consumers, SemaphoreWait(c) PROVE SomeoneAwake'
      <3>1. CASE pc' = [pc EXCEPT ![c] = "pop"]
        BY <2>1, <3>1 DEF SomeoneAwake
      <3>2. CASE mCount = 0 /\ UNCHANGED mCount
        BY <3>2 DEF SomeoneAwake
      <3> QED
        BY <2>5, <3>1, <3>2 DEF SemaphoreWait
    <2>6. ASSUME NEW c \in Consumers,
                 SpuriousWakeup(c) \/ ConsumerPop(c) \/ Callback(c)
          PROVE  SomeoneAwake'
      <3>1. \E x \in {"wait", "callback"} : pc' = [pc EXCEPT ![c] = x]
        <4>1. \A keepGoing \in KeepGoing : keepGoing = TRUE
          BY QueueAssumption
        <4> QED
          BY <2>6, <4>1 DEF SpuriousWakeup, ConsumerPop, Callback
      <3> QED
        BY <2>1, <3>1 DEF SomeoneAwake
    <2>7. ASSUME NEW t \in Poppers, PopperStep(t) PROVE SomeoneAwake'
      <3>1. /\ mCount' = mCount
            /\ pc' = pc \/ \E x \in {"return", "idle"} : pc' = [pc EXCEPT ![t] = x]
        BY <2>7 DEF PopperStep, Pop, PopReturns, PopElement, HandOver
      <3> QED
        BY <2>1, <2>2, <3>1
    <2>8. CASE UNCHANGED vars
      BY <2>2, <2>8 DEF vars
    <2> QED
      BY <1>2, <2>3, <2>4, <2>5, <2>6, <2>7, <2>8
      DEF Next, ProducerStep, ConsumerStep
  <1> QED
    BY <1>1, <1>2, QueueInvCorrect, PTL DEF Spec
=============================================================================
