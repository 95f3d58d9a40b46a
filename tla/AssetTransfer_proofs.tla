------------------------ MODULE AssetTransfer_proofs ------------------------
(***************************************************************************)
(* Theorems about AssetTransfer: its types, and that a marked chunk of the *)
(* cache is never older than the metadata says, for any number of          *)
(* versions, chunks and downloads at a time, and whatever fails.           *)
(***************************************************************************)
EXTENDS AssetTransfer, LeastNumber, SequenceTheorems, TLAPS

-----------------------------------------------------------------------------
(* The first missing chunk                                                 *)

\* What First chooses exists.
LEMMA FirstOK ==
  ASSUME NEW S \in SUBSET Nat, S # {}
  PROVE  First(S) \in S
PROOF
<1>1. \E x \in S : \A y \in S : x <= y
  BY LeastExists
<1> QED BY <1>1 DEF First

-----------------------------------------------------------------------------
(* Types                                                                   *)

\* The metadata files there can be.
MetadataFile ==
  {NoMetadata, EmptyMetadata} \union
    UNION {{Metadata(v, marks) : v \in Versions,
                                 marks \in [0 .. (n - 1) -> BOOLEAN]}
             : n \in 1 .. MaxChunks}

\* Chunks and versions are numbers.
LEMMA NumbersOK ==
  /\ Chunks \in SUBSET Nat /\ 0 \in Chunks
  /\ Versions \in SUBSET Nat /\ 1 \in Versions
BY AssetAssumption DEF Chunks, Versions

\* What the fields of a reply are.
LEMMA ReplyFacts ==
  ASSUME NEW r \in Replies
  PROVE  /\ r.kind = "info" => r \in InfoReplies
         /\ r.kind \in {"chunk", "cut", "broken"} => r.chunk \in Chunks
         /\ r.kind \in {"info", "chunk"} => r.version \in Versions
PROOF
<1> USE DEF AssetInfo, AssetChunk, CutChunk, BrokenChunk, NoSuchAsset
<1>1. CASE r \in InfoReplies
  BY <1>1 DEF InfoReplies
<1>2. CASE r \in {AssetChunk(i, v) : i \in Chunks, v \in Versions}
  BY <1>2
<1>3. CASE r \in {CutChunk(i) : i \in Chunks}
  BY <1>3
<1>4. CASE r \in {BrokenChunk(i) : i \in Chunks}
  BY <1>4
<1>5. CASE r = NoSuchAsset
  BY <1>5
<1> QED BY <1>1, <1>2, <1>3, <1>4, <1>5 DEF Replies

LEMMA InfoFacts ==
  ASSUME NEW r \in InfoReplies
  PROVE  r.version \in Versions /\ r.chunks \in 1 .. MaxChunks
BY DEF InfoReplies, AssetInfo

\* What the fields of a metadata file with lines are.
LEMMA MetadataFacts ==
  ASSUME NEW m \in MetadataFile
  PROVE  /\ m.kind \in {"absent", "empty", "lines"}
         /\ m.kind = "lines" =>
              /\ m.version \in Versions
              /\ \E n \in 1 .. MaxChunks :
                   m.marks \in [0 .. (n - 1) -> BOOLEAN]
              /\ m = Metadata(m.version, m.marks)
              /\ DOMAIN m.marks \subseteq Chunks
PROOF
<1>1. CASE m \in {NoMetadata, EmptyMetadata}
  BY <1>1 DEF NoMetadata, EmptyMetadata
<1>2. CASE m \notin {NoMetadata, EmptyMetadata}
  <2>1. PICK n \in 1 .. MaxChunks :
          \E v \in Versions, marks \in [0 .. (n - 1) -> BOOLEAN] :
            m = Metadata(v, marks)
    BY <1>2 DEF MetadataFile
  <2>2. 0 .. (n - 1) \subseteq Chunks
    BY AssetAssumption DEF Chunks
  <2> QED BY <2>1, <2>2 DEF Metadata
<1> QED BY <1>1, <1>2

LEMMA MetadataIs ==
  ASSUME NEW n \in 1 .. MaxChunks, NEW v \in Versions,
         NEW marks \in [0 .. (n - 1) -> BOOLEAN]
  PROVE  Metadata(v, marks) \in MetadataFile
BY DEF MetadataFile

\* The next request is one for a chunk.
LEMMA FirstMissing ==
  ASSUME NEW m \in MetadataFile, Missing(m) # {}
  PROVE  First(Missing(m)) \in Chunks
PROOF
<1>1. Missing(m) \subseteq Chunks
  BY MetadataFacts DEF Missing
<1>2. Missing(m) \in SUBSET Nat
  BY <1>1, NumbersOK
<1> QED BY <1>1, <1>2, FirstOK

\* A mark is added and nothing else changed.
LEMMA MarkedOK ==
  ASSUME metadata \in MetadataFile, NEW i \in Chunks
  PROVE  /\ Marked(i) \in MetadataFile
         /\ Marked(i).kind = metadata.kind
         /\ metadata.kind = "lines" =>
              /\ Marked(i).version = metadata.version
              /\ DOMAIN Marked(i).marks = DOMAIN metadata.marks
              /\ \A j \in DOMAIN metadata.marks :
                   Marked(i).marks[j] => metadata.marks[j] \/ j = i
PROOF
<1>1. CASE metadata.kind # "lines"
  BY <1>1 DEF Marked
<1>2. CASE metadata.kind = "lines"
  <2>1. PICK n \in 1 .. MaxChunks :
          metadata.marks \in [0 .. (n - 1) -> BOOLEAN]
    BY <1>2, MetadataFacts
  <2> DEFINE new == [j \in 0 .. (n - 1) |-> metadata.marks[j] \/ j = i]
  <2>2. /\ metadata.version \in Versions
        /\ metadata = Metadata(metadata.version, metadata.marks)
    BY <1>2, MetadataFacts
  <2>3. Marked(i) = Metadata(metadata.version, new)
    BY <1>2, <2>1, <2>2 DEF Marked, Metadata
  <2>4. new \in [0 .. (n - 1) -> BOOLEAN]
    BY <2>1
  <2>5. Marked(i) \in MetadataFile
    BY <2>2, <2>3, <2>4, MetadataIs
  <2> QED BY <1>2, <2>1, <2>2, <2>3, <2>5 DEF Metadata
<1> QED BY <1>1, <1>2

\* Sending keeps the requests requests.
LEMMA SendType ==
  ASSUME requests \in Seq(Requests), NEW r \in Requests, Send(r)
  PROVE  requests' \in Seq(Requests)
BY DEF Send

\* What arrives of the replies when the connection ends.
LEMMA EndCuts ==
  ASSUME NEW rest, End(rest)
  PROVE  \E n \in 0 .. Len(replies) :
           \/ replies' = SubSeq(replies, 1, n)
           \/ \E i \in Chunks :
                replies' = Append(SubSeq(replies, 1, n),
                                  [kind |-> rest, chunk |-> i])
PROOF
<1>1. PICK n \in 0 .. Len(replies) :
        replies' \in {SubSeq(replies, 1, n)} \union
          {Append(SubSeq(replies, 1, n), [kind |-> rest, chunk |-> i]) :
             i \in {j \in Chunks : /\ n < Len(replies)
                                   /\ replies[n + 1].kind = "chunk"
                                   /\ replies[n + 1].chunk = j}}
  BY DEF End
<1> QED BY <1>1

LEMMA AssetTypeStep ==
  ASSUME AssetTypeOK, [Next]_vars
  PROVE  AssetTypeOK'
PROOF
<1>0. /\ asset \in [version : Versions, chunks : 0 .. MaxChunks]
      /\ connection \in {"up", "closed", "down"}
      /\ requests \in Seq(Requests)
      /\ replies \in Seq(Replies)
      /\ file \in [Chunks -> Versions \union {Nothing, Broken}]
      /\ metadata \in MetadataFile
      /\ handling \in {Idle, Reading}
           \union {[kind |-> "mark", chunk |-> i] : i \in Chunks}
           \union {[kind |-> "reset", reply |-> r] : r \in InfoReplies}
  BY DEF AssetTypeOK, MetadataFile
<1>a. AssetTypeOK' <=>
      /\ asset' \in [version : Versions, chunks : 0 .. MaxChunks]
      /\ connection' \in {"up", "closed", "down"}
      /\ requests' \in Seq(Requests)
      /\ replies' \in Seq(Replies)
      /\ file' \in [Chunks -> Versions \union {Nothing, Broken}]
      /\ metadata' \in MetadataFile
      /\ handling' \in {Idle, Reading}
           \union {[kind |-> "mark", chunk |-> i] : i \in Chunks}
           \union {[kind |-> "reset", reply |-> r] : r \in InfoReplies}
  BY DEF AssetTypeOK, MetadataFile
<1> USE DEF cacheVars
<1>b. replies # <<>> =>
        Head(replies) \in Replies /\ Tail(replies) \in Seq(Replies)
  BY <1>0
<1>c. <<>> \in Seq(Requests) /\ <<>> \in Seq(Replies)
  OBVIOUS
<1>1. CASE Serve
  <2>1. Head(requests) \in Requests /\ Tail(requests) \in Seq(Requests)
    BY <1>0, <1>1 DEF Serve
  <2>2. Reply(Head(requests)) \in Replies
    <3>1. CASE asset.chunks # 0 /\ Head(requests).kind = "info"
      <4>1. asset.chunks \in 1 .. MaxChunks /\ asset.version \in Versions
        BY <1>0, <3>1
      <4> QED BY <3>1, <4>1 DEF Reply, Replies, InfoReplies
    <3>2. CASE /\ Head(requests).kind # "info"
               /\ Head(requests).chunk < asset.chunks
      <4>1. Head(requests).chunk \in Chunks /\ asset.version \in Versions
        BY <1>0, <2>1, <3>2 DEF Requests, Info, Get
      <4> QED BY <3>2, <4>1 DEF Reply, Replies
    <3> QED BY <3>1, <3>2 DEF Reply, Replies
  <2> QED BY <1>0, <1>a, <1>1, <2>1, <2>2 DEF Serve
<1>2. CASE Connect \/ Ask
  <2>1. Info \in Requests
    BY DEF Requests
  <2> QED BY <1>0, <1>a, <1>2, <2>1, SendType DEF Connect, Ask
<1>3. CASE ReceiveInfo
  <2>1. Head(replies) \in InfoReplies /\ Tail(replies) \in Seq(Replies)
    BY <1>b, <1>3, ReplyFacts DEF ReceiveInfo, Receive
  <2>2. requests' \in Seq(Requests)
    <3>1. CASE UNCHANGED requests
      BY <1>0, <3>1
    <3>2. CASE Missing(metadata) # {} /\ Send(Get(First(Missing(metadata))))
      <4>1. Get(First(Missing(metadata))) \in Requests
        BY <1>0, <3>2, FirstMissing DEF Requests
      <4> QED BY <1>0, <3>2, <4>1, SendType
    <3> QED BY <1>3, <3>1, <3>2 DEF ReceiveInfo
  <2> QED BY <1>0, <1>a, <1>3, <2>1, <2>2
          DEF ReceiveInfo, Receive, MetadataFile
<1>4. CASE ReceiveInfoAndCrash
  BY <1>0, <1>a, <1>c, <1>4 DEF ReceiveInfoAndCrash
<1>5. CASE WriteMetadata
  <2>1. handling.reply \in InfoReplies
    BY <1>0, <1>5 DEF WriteMetadata, Idle, Reading
  <2>2. metadata' \in MetadataFile
    <3> DEFINE r == handling.reply
    <3>1. r.version \in Versions /\ r.chunks \in 1 .. MaxChunks
      BY <2>1, InfoFacts
    <3>2. Unmarked(r.chunks) \in [0 .. (r.chunks - 1) -> BOOLEAN]
      BY DEF Unmarked
    <3> QED BY <1>5, <3>1, <3>2, MetadataIs DEF WriteMetadata
  <2>3. Get(0) \in Requests
    BY NumbersOK DEF Requests
  <2> QED BY <1>0, <1>a, <1>5, <2>2, <2>3, SendType DEF WriteMetadata
<1>6. CASE ReceiveChunk
  <2>1. /\ Head(replies).chunk \in Chunks /\ Head(replies).version \in Versions
        /\ Tail(replies) \in Seq(Replies)
    BY <1>b, <1>6, ReplyFacts DEF ReceiveChunk, Receive
  <2> QED BY <1>0, <1>a, <1>6, <2>1 DEF ReceiveChunk, Receive, WriteChunk
<1>7. CASE ReceiveBroken
  <2>1. Head(replies).chunk \in Chunks /\ Tail(replies) \in Seq(Replies)
    BY <1>b, <1>7, ReplyFacts DEF ReceiveBroken, Receive
  <2> QED BY <1>0, <1>a, <1>7, <2>1 DEF ReceiveBroken, Receive, WriteChunk
<1>8. CASE MarkChunk
  <2>1. handling.chunk \in Chunks
    BY <1>0, <1>8 DEF MarkChunk, Idle, Reading
  <2>2. metadata' \in MetadataFile
    BY <1>0, <1>8, <2>1, MarkedOK DEF MarkChunk
  <2>3. requests' \in Seq(Requests)
    <3>1. CASE UNCHANGED requests
      BY <1>0, <3>1
    <3>2. CASE Missing(metadata') # {} /\ Send(Get(First(Missing(metadata'))))
      <4>1. Get(First(Missing(metadata'))) \in Requests
        BY <2>2, <3>2, FirstMissing DEF Requests
      <4> QED BY <1>0, <3>2, <4>1, SendType
    <3> QED BY <1>8, <3>1, <3>2 DEF MarkChunk
  <2> QED BY <1>0, <1>a, <1>8, <2>2, <2>3 DEF MarkChunk
<1>9. CASE ReceiveOther \/ ReceiveCut \/ StopListening
  BY <1>0, <1>a, <1>b, <1>9
  DEF ReceiveOther, ReceiveCut, StopListening, Receive
<1>10. CASE Change
  <2>1. asset.version + 1 \in Versions
    BY <1>0, <1>10, AssetAssumption DEF Change, Versions
  <2> QED BY <1>0, <1>a, <1>10, <2>1 DEF Change
<1>11. ASSUME NEW rest \in {"cut", "broken"}, End(rest)
       PROVE  AssetTypeOK'
  <2>1. PICK n \in 0 .. Len(replies) :
          \/ replies' = SubSeq(replies, 1, n)
          \/ \E i \in Chunks :
               replies' = Append(SubSeq(replies, 1, n),
                                 [kind |-> rest, chunk |-> i])
    BY <1>11, EndCuts
  <2>2. SubSeq(replies, 1, n) \in Seq(Replies)
    BY <1>0, SubSeqProperties, ElementOfSeq
  <2>3. \A i \in Chunks : [kind |-> rest, chunk |-> i] \in Replies
    BY DEF Replies, CutChunk, BrokenChunk
  <2>4. ASSUME NEW r \in Replies, replies' = Append(SubSeq(replies, 1, n), r)
        PROVE  replies' \in Seq(Replies)
    BY <2>2, <2>4, AppendProperties
  <2>5. replies' \in Seq(Replies)
    BY <2>1, <2>2, <2>3, <2>4
  <2> QED BY <1>0, <1>a, <1>c, <1>11, <2>5 DEF End
<1>12. CASE Crash
  BY <1>0, <1>a, <1>c, <1>12 DEF Crash
<1>13. CASE UNCHANGED vars
  BY <1>0, <1>a, <1>13 DEF vars
<1> QED BY <1>1, <1>2, <1>3, <1>4, <1>5, <1>6, <1>7, <1>8, <1>9, <1>10, <1>11,
           <1>12, <1>13 DEF Next, Listen, Close, Reset

LEMMA InitAssetType == Init => AssetTypeOK
PROOF
<1> SUFFICES ASSUME Init PROVE AssetTypeOK
  OBVIOUS
<1>1. PICK n \in 1 .. MaxChunks : asset = [version |-> 1, chunks |-> n]
  BY DEF Init
<1> QED BY <1>1, NumbersOK DEF Init, AssetTypeOK

\* What server, connection and cache consist of.
THEOREM AssetTypeCorrect == Spec => []AssetTypeOK
BY InitAssetType, AssetTypeStep, PTL DEF Spec

-----------------------------------------------------------------------------
(* Versions on their way                                                   *)

\* Replies that carry the version of their data.
HasVersion(r) == r.kind \in {"info", "chunk"}

\* The versions in q lie between low and high and never go back.
InOrder(q, low, high) ==
  /\ \A k \in 1 .. Len(q) : HasVersion(q[k]) => q[k].version \in low .. high
  /\ \A k, l \in 1 .. Len(q) :
       k <= l /\ HasVersion(q[k]) /\ HasVersion(q[l])
         => q[k].version <= q[l].version

\* The version the cache is for: nothing older is written to it any more.
Floor ==
  IF handling.kind = "reset" THEN handling.reply.version
    ELSE IF metadata.kind = "lines" THEN metadata.version
    ELSE 0

\* A reset has emptied the metadata file, and a mark is about data that is new
\* enough.
HandlingOK ==
  /\ handling.kind = "reset" => metadata.kind = "empty"
  /\ handling.kind = "mark" /\ metadata.kind = "lines" =>
       \/ file[handling.chunk] >= metadata.version
       \/ file[handling.chunk] = Broken

\* The inductive invariant.
CacheInv ==
  /\ AssetTypeOK
  /\ Floor <= asset.version
  /\ InOrder(replies, Floor, asset.version)
  /\ HandlingOK
  /\ NeverOlder

\* The next reply is no older than the cache, and no newer than what follows.
LEMMA TailInOrder ==
  ASSUME NEW q \in Seq(Replies), q # <<>>, NEW low \in Nat, NEW high \in Nat,
         InOrder(q, low, high)
  PROVE  /\ InOrder(Tail(q), low, high)
         /\ HasVersion(Head(q)) =>
              /\ Head(q).version \in low .. high
              /\ InOrder(Tail(q), Head(q).version, high)
PROOF
<1>1. /\ Len(q) \in Nat \ {0} /\ Head(q) = q[1]
      /\ Len(Tail(q)) = Len(q) - 1
      /\ \A k \in 1 .. Len(Tail(q)) : Tail(q)[k] = q[k + 1]
  BY HeadTailProperties, EmptySeq
<1>2. \A k \in 1 .. Len(q) : HasVersion(q[k]) => q[k].version \in Nat
  <2>1. \A k \in 1 .. Len(q) : q[k] \in Replies
    BY ElementOfSeq
  <2> QED BY <2>1, ReplyFacts, NumbersOK DEF HasVersion
<1>3. InOrder(Tail(q), low, high)
  BY <1>1 DEF InOrder
<1>4. ASSUME HasVersion(Head(q))
      PROVE  /\ Head(q).version \in low .. high
             /\ InOrder(Tail(q), Head(q).version, high)
  <2>1. \A k \in 1 .. Len(q) :
          HasVersion(q[k]) => q[k].version \in q[1].version .. high
    BY <1>1, <1>2, <1>4 DEF InOrder
  <2>2. \A k \in 1 .. Len(Tail(q)) :
           HasVersion(Tail(q)[k]) =>
             Tail(q)[k].version \in Head(q).version .. high
    BY <1>1, <2>1
  <2> QED BY <1>1, <1>3, <1>4, <2>2 DEF InOrder
<1> QED BY <1>3, <1>4

\* The server answers with what it has now.
LEMMA AppendInOrder ==
  ASSUME NEW q \in Seq(Replies), NEW r \in Replies,
         NEW low \in Nat, NEW high \in Nat, low <= high,
         InOrder(q, low, high), HasVersion(r) => r.version = high
  PROVE  InOrder(Append(q, r), low, high)
PROOF
<1>1. /\ Len(q) \in Nat
      /\ Len(Append(q, r)) = Len(q) + 1
      /\ \A k \in 1 .. Len(q) : Append(q, r)[k] = q[k]
      /\ Append(q, r)[Len(q) + 1] = r
  BY AppendProperties, LenProperties
<1> DEFINE p == Append(q, r)
<1>2. \A k \in 1 .. Len(p) : k \in 1 .. Len(q) \/ k = Len(q) + 1
  BY <1>1
<1> HIDE DEF p
<1>3. \A k \in 1 .. Len(p) : HasVersion(p[k]) => p[k].version \in low .. high
  BY <1>1, <1>2 DEF InOrder, p
<1>4. ASSUME NEW k \in 1 .. Len(p), NEW l \in 1 .. Len(p), k <= l,
             HasVersion(p[k]), HasVersion(p[l])
      PROVE  p[k].version <= p[l].version
  <2>1. CASE l = Len(q) + 1
    BY <1>1, <1>3, <1>4, <2>1 DEF p
  <2>2. CASE l \in 1 .. Len(q)
    <3>1. k \in 1 .. Len(q)
      BY <1>1, <1>2, <1>4, <2>2
    <3> QED BY <1>1, <1>4, <2>2, <3>1 DEF InOrder, p
  <2> QED BY <1>2, <2>1, <2>2
<1> QED BY <1>3, <1>4 DEF InOrder, p

\* The connection ends in the middle.
LEMMA PrefixInOrder ==
  ASSUME NEW q \in Seq(Replies), NEW n \in 0 .. Len(q),
         NEW low \in Nat, NEW high \in Nat, InOrder(q, low, high)
  PROVE  /\ InOrder(SubSeq(q, 1, n), low, high)
         /\ SubSeq(q, 1, n) \in Seq(Replies)
PROOF
<1>1. Len(q) \in Nat /\ \A k \in 1 .. Len(q) : q[k] \in Replies
  BY LenProperties, ElementOfSeq
<1>2. /\ SubSeq(q, 1, n) \in Seq(Replies)
      /\ Len(SubSeq(q, 1, n)) = n
      /\ \A k \in 1 .. n : SubSeq(q, 1, n)[k] = q[k]
  BY <1>1, SubSeqProperties
<1> QED BY <1>1, <1>2 DEF InOrder

\* An older floor and a newer asset.
LEMMA WiderInOrder ==
  ASSUME NEW q \in Seq(Replies), NEW low \in Nat, NEW high \in Nat,
         InOrder(q, low, high),
         NEW lower \in Nat, lower <= low, NEW higher \in Nat, high <= higher
  PROVE  InOrder(q, lower, higher)
PROOF
<1>1. \A k \in 1 .. Len(q) : HasVersion(q[k]) => q[k].version \in Nat
  <2>1. \A k \in 1 .. Len(q) : q[k] \in Replies
    BY ElementOfSeq
  <2> QED BY <2>1, ReplyFacts, NumbersOK DEF HasVersion
<1> QED BY <1>1 DEF InOrder

\* The types that the order of the versions needs.
NumbersType ==
  /\ Floor \in Nat /\ asset.version \in Nat /\ replies \in Seq(Replies)
  /\ file \in [Chunks -> Versions \union {Nothing, Broken}]
  /\ metadata \in MetadataFile
  /\ metadata.kind = "lines" =>
       metadata.version \in Nat /\ DOMAIN metadata.marks \subseteq Chunks

LEMMA FloorOK == AssetTypeOK => NumbersType
PROOF
<1> SUFFICES ASSUME AssetTypeOK PROVE NumbersType
  OBVIOUS
<1>1. ASSUME handling.kind = "reset"
      PROVE  handling.reply.version \in Nat
  <2>1. handling.reply \in InfoReplies
    BY <1>1 DEF AssetTypeOK, Idle, Reading
  <2> QED BY <2>1, InfoFacts, NumbersOK
<1>2. metadata \in MetadataFile
  BY DEF AssetTypeOK, MetadataFile
<1>3. metadata.kind = "lines" =>
        metadata.version \in Nat /\ DOMAIN metadata.marks \subseteq Chunks
  BY <1>2, MetadataFacts, NumbersOK
<1>4. replies \in Seq(Replies)
      /\ file \in [Chunks -> Versions \union {Nothing, Broken}]
  BY DEF AssetTypeOK
<1>5. asset.version \in Nat
  <2>1. asset \in [version : Versions, chunks : 0 .. MaxChunks]
    BY DEF AssetTypeOK
  <2> QED BY <2>1, NumbersOK
<1>6. Floor \in Nat
  BY <1>1, <1>3 DEF Floor
<1> QED BY <1>2, <1>3, <1>4, <1>5, <1>6 DEF NumbersType

-----------------------------------------------------------------------------
(* The cache                                                               *)

\* A step that touches neither cache nor handling.
LEMMA CacheStill ==
  ASSUME CacheInv, UNCHANGED <<file, metadata, handling>>,
         AssetTypeOK', asset.version <= asset'.version,
         InOrder(replies', Floor, asset'.version)
  PROVE  CacheInv'
PROOF
<1>1. Floor' = Floor
  BY DEF Floor
<1>2. HandlingOK' /\ NeverOlder'
  BY DEF HandlingOK, NeverOlder, CacheInv
<1>3. asset'.version \in Nat
  <2>1. asset' \in [version : Versions, chunks : 0 .. MaxChunks]
    BY DEF AssetTypeOK
  <2> QED BY <2>1, NumbersOK
<1>4. Floor' <= asset'.version
  <2>1. Floor \in Nat /\ asset.version \in Nat /\ Floor <= asset.version
    BY FloorOK DEF CacheInv, NumbersType
  <2> QED BY <1>1, <1>3, <2>1
<1>5. InOrder(replies, Floor, asset.version)'
  BY <1>1 DEF InOrder
<1> QED BY <1>1, <1>2, <1>4, <1>5 DEF CacheInv

LEMMA CacheStep ==
  ASSUME CacheInv, [Next]_vars
  PROVE  CacheInv'
PROOF
<1> USE DEF cacheVars
<1>t. AssetTypeOK /\ AssetTypeOK'
  BY AssetTypeStep DEF CacheInv
<1>p. NumbersType /\ NumbersType'
  <2>1. AssetTypeOK' => NumbersType'
    BY FloorOK, PTL
  <2> QED BY <1>t, <2>1, FloorOK
<1>f. /\ Floor \in Nat /\ asset.version \in Nat /\ replies \in Seq(Replies)
      /\ Floor' \in Nat /\ asset'.version \in Nat
      /\ Floor <= asset.version
      /\ InOrder(replies, Floor, asset.version)
  BY <1>p DEF NumbersType, CacheInv
<1>m. /\ file \in [Chunks -> Versions \union {Nothing, Broken}]
      /\ metadata \in MetadataFile
      /\ metadata.kind = "lines" =>
           metadata.version \in Nat /\ DOMAIN metadata.marks \subseteq Chunks
  BY <1>p DEF NumbersType
<1>e. InOrder(<<>>, Floor, asset.version)
  BY DEF InOrder
<1>r. replies # <<>> => Head(replies) \in Replies
  BY <1>f
<1>1. CASE Serve
  <2> DEFINE r == Reply(Head(requests))
  <2>1. /\ replies' = Append(replies, r)
        /\ UNCHANGED <<asset, file, metadata, handling>>
    BY <1>1 DEF Serve
  <2>2. HasVersion(r) => r.version = asset.version
    BY DEF Reply, HasVersion, AssetInfo, AssetChunk, NoSuchAsset
  <2>3. r \in Replies
    <3>1. Append(replies, r) \in Seq(Replies)
      BY <1>t, <2>1 DEF AssetTypeOK
    <3>2. /\ Len(replies) \in Nat
          /\ Len(Append(replies, r)) = Len(replies) + 1
          /\ Append(replies, r)[Len(replies) + 1] = r
      BY <1>f
    <3> QED BY <3>1, <3>2, ElementOfSeq
  <2> HIDE DEF r
  <2>4. InOrder(replies', Floor, asset.version)
    BY <1>f, <2>1, <2>2, <2>3, AppendInOrder
  <2> QED BY <1>t, <1>f, <2>1, <2>4, CacheStill
<1>2. CASE Connect \/ Ask
  <2>1. UNCHANGED <<asset, replies, file, metadata, handling>>
    BY <1>2 DEF Connect, Ask
  <2> QED BY <1>t, <1>f, <2>1, CacheStill
<1>3. CASE ReceiveInfo
  <2> DEFINE r == Head(replies)
  <2>1. /\ replies # <<>> /\ replies' = Tail(replies) /\ r.kind = "info"
        /\ handling = Idle /\ UNCHANGED <<asset, file>>
    BY <1>3 DEF ReceiveInfo, Receive
  <2>2. /\ r.version \in Floor .. asset.version
        /\ InOrder(replies', r.version, asset.version)
        /\ InOrder(replies', Floor, asset.version)
    BY <1>f, <2>1, TailInOrder DEF HasVersion
  <2> HIDE DEF r
  <2>3. CASE UNCHANGED <<metadata, handling>>
    BY <1>t, <1>f, <2>1, <2>2, <2>3, CacheStill
  <2>4. CASE /\ metadata' = EmptyMetadata
             /\ handling' = [kind |-> "reset", reply |-> r]
    <3>1. Floor' = r.version
      BY <2>4 DEF Floor
    <3>2. HandlingOK' /\ NeverOlder'
      BY <2>4 DEF HandlingOK, NeverOlder, EmptyMetadata
    <3>3. InOrder(replies, Floor, asset.version)'
      BY <2>1, <2>2, <3>1 DEF InOrder
    <3> QED BY <1>t, <1>f, <2>1, <2>2, <3>1, <3>2, <3>3 DEF CacheInv
  <2> QED BY <1>3, <2>3, <2>4 DEF ReceiveInfo, r
<1>4. CASE ReceiveInfoAndCrash
  <2>1. UNCHANGED <<asset, file, metadata, handling>> /\ replies' = <<>>
    BY <1>4 DEF ReceiveInfoAndCrash
  <2> QED BY <1>t, <1>f, <1>e, <2>1, CacheStill
<1>5. CASE WriteMetadata
  <2> DEFINE r == handling.reply
  <2>1. /\ handling.kind = "reset" /\ handling' = Idle
        /\ metadata' = Metadata(r.version, Unmarked(r.chunks))
        /\ UNCHANGED <<asset, replies, file>>
    BY <1>5 DEF WriteMetadata
  <2>2. Floor' = Floor
    BY <2>1 DEF Floor, Metadata, Idle
  <2>3. HandlingOK' /\ NeverOlder'
    BY <2>1 DEF HandlingOK, NeverOlder, Metadata, Unmarked, Idle
  <2>4. InOrder(replies, Floor, asset.version)'
    BY <1>f, <2>1, <2>2 DEF InOrder
  <2> QED BY <1>t, <1>f, <2>1, <2>2, <2>3, <2>4 DEF CacheInv
<1>6. CASE ReceiveChunk \/ ReceiveBroken
  <2> DEFINE i == Head(replies).chunk
  <2>1. /\ replies # <<>> /\ replies' = Tail(replies) /\ handling = Idle
        /\ UNCHANGED <<asset, metadata>>
        /\ handling' = [kind |-> "mark", chunk |-> i]
        /\ Head(replies).kind \in {"chunk", "broken"}
    BY <1>6 DEF ReceiveChunk, ReceiveBroken, Receive
  <2>2. PICK v \in Versions \union {Broken} :
          /\ file' = [file EXCEPT ![i] = v]
          /\ v = Broken \/ v \in Floor .. asset.version
    <3>1. CASE ReceiveBroken
      BY <3>1 DEF ReceiveBroken, WriteChunk
    <3>2. CASE ReceiveChunk
      <4>1. Head(replies).kind = "chunk"
            /\ file' = [file EXCEPT ![i] = Head(replies).version]
        BY <3>2 DEF ReceiveChunk, WriteChunk, Receive
      <4>2. Head(replies).version \in Floor .. asset.version
        BY <1>f, <2>1, <4>1, TailInOrder DEF HasVersion
      <4>3. Head(replies).version \in Versions
        BY <1>r, <2>1, <4>1, ReplyFacts
      <4> QED BY <4>1, <4>2, <4>3
    <3> QED BY <1>6, <3>1, <3>2
  <2>3. i \in Chunks
    BY <1>r, <2>1, ReplyFacts
  <2>4. Floor' = Floor
    BY <2>1 DEF Floor, Idle
  <2>5. metadata.kind = "lines" => metadata.version = Floor
    BY <2>1 DEF Floor, Idle
  <2> HIDE DEF i
  <2>6. /\ file'[i] = v
        /\ \A j \in Chunks \ {i} : file'[j] = file[j]
    BY <1>m, <2>2, <2>3
  <2>7. metadata.kind = "lines" => v >= metadata.version \/ v = Broken
    BY <1>f, <2>2, <2>5
  <2>8. HandlingOK'
    BY <2>1, <2>6, <2>7 DEF HandlingOK
  <2>9. NeverOlder'
    BY <1>m, <2>1, <2>6, <2>7 DEF CacheInv, NeverOlder
  <2>10. InOrder(replies, Floor, asset.version)'
    <3>1. InOrder(replies', Floor, asset.version)
      BY <1>f, <2>1, TailInOrder
    <3> QED BY <2>1, <2>4, <3>1 DEF InOrder
  <2> QED BY <1>t, <1>f, <2>1, <2>4, <2>8, <2>9, <2>10 DEF CacheInv
<1>7. CASE MarkChunk
  <2>1. /\ handling.kind = "mark" /\ handling' = Idle
        /\ metadata' = Marked(handling.chunk)
        /\ UNCHANGED <<asset, replies, file>>
    BY <1>7 DEF MarkChunk
  <2>2. handling.chunk \in Chunks
    BY <1>t, <2>1 DEF AssetTypeOK, Idle, Reading
  <2>3. /\ metadata'.kind = metadata.kind
        /\ metadata.kind = "lines" =>
             /\ metadata'.version = metadata.version
             /\ DOMAIN metadata'.marks = DOMAIN metadata.marks
             /\ \A j \in DOMAIN metadata.marks :
                  metadata'.marks[j] => metadata.marks[j] \/ j = handling.chunk
    BY <1>m, <2>1, <2>2, MarkedOK
  <2>4. Floor' = Floor
    BY <2>1, <2>3 DEF Floor, Idle
  <2>5. HandlingOK'
    BY <2>1 DEF HandlingOK, Idle
  <2>6. NeverOlder'
    BY <2>1, <2>3 DEF CacheInv, HandlingOK, NeverOlder
  <2>7. InOrder(replies, Floor, asset.version)'
    BY <1>f, <2>1, <2>4 DEF InOrder
  <2> QED BY <1>t, <1>f, <2>1, <2>4, <2>5, <2>6, <2>7 DEF CacheInv
<1>8. CASE ReceiveOther \/ ReceiveCut
  <2>1. /\ replies # <<>> /\ replies' = Tail(replies) /\ handling = Idle
        /\ UNCHANGED <<asset, file, metadata>>
        /\ handling' \in {Idle, Reading}
    BY <1>8 DEF ReceiveOther, ReceiveCut, Receive
  <2>2. Floor' = Floor /\ HandlingOK' /\ NeverOlder'
    BY <2>1 DEF Floor, HandlingOK, NeverOlder, CacheInv, Idle, Reading
  <2>3. InOrder(replies, Floor, asset.version)'
    <3>1. InOrder(replies', Floor, asset.version)
      BY <1>f, <2>1, TailInOrder
    <3> QED BY <2>1, <2>2, <3>1 DEF InOrder
  <2> QED BY <1>t, <1>f, <2>1, <2>2, <2>3 DEF CacheInv
<1>9. CASE StopListening \/ UNCHANGED vars
  <2>1. UNCHANGED <<asset, replies, file, metadata, handling>>
    BY <1>9 DEF StopListening, vars
  <2> QED BY <1>t, <1>f, <2>1, CacheStill
<1>10. CASE Change
  <2>1. /\ asset'.version = asset.version + 1
        /\ UNCHANGED <<replies, file, metadata, handling>>
    BY <1>10 DEF Change
  <2>2. InOrder(replies', Floor, asset'.version)
    BY <1>f, <2>1, WiderInOrder
  <2> QED BY <1>t, <1>f, <2>1, <2>2, CacheStill
<1>11. ASSUME NEW rest \in {"cut", "broken"}, End(rest)
       PROVE  CacheInv'
  <2>1. UNCHANGED <<asset, file, metadata, handling>>
    BY <1>11 DEF End
  <2>2. PICK n \in 0 .. Len(replies) :
          \/ replies' = SubSeq(replies, 1, n)
          \/ \E i \in Chunks :
               replies' = Append(SubSeq(replies, 1, n),
                                 [kind |-> rest, chunk |-> i])
    BY <1>11, EndCuts
  <2>3. /\ InOrder(SubSeq(replies, 1, n), Floor, asset.version)
        /\ SubSeq(replies, 1, n) \in Seq(Replies)
    BY <1>f, PrefixInOrder
  <2>4. ASSUME NEW i \in Chunks,
               replies' = Append(SubSeq(replies, 1, n),
                                 [kind |-> rest, chunk |-> i])
        PROVE  InOrder(replies', Floor, asset.version)
    <3>1. /\ [kind |-> rest, chunk |-> i] \in Replies
          /\ ~ HasVersion([kind |-> rest, chunk |-> i])
      BY DEF Replies, CutChunk, BrokenChunk, HasVersion
    <3> QED BY <1>f, <2>3, <2>4, <3>1, AppendInOrder
  <2>5. InOrder(replies', Floor, asset.version)
    BY <2>2, <2>3, <2>4
  <2> QED BY <1>t, <1>f, <2>1, <2>5, CacheStill
<1>12. CASE Crash
  <2>1. /\ UNCHANGED <<asset, file, metadata>>
        /\ replies' = <<>> /\ handling' = Idle
    BY <1>12 DEF Crash
  <2>2. Floor' <= Floor /\ HandlingOK' /\ NeverOlder'
    <3>1. HandlingOK' /\ NeverOlder'
      BY <2>1 DEF HandlingOK, NeverOlder, CacheInv, Idle
    <3>2. CASE handling.kind = "reset"
      BY <1>f, <2>1, <3>1, <3>2 DEF Floor, CacheInv, HandlingOK, Idle
    <3>3. CASE handling.kind # "reset"
      BY <1>f, <2>1, <3>1, <3>3 DEF Floor, Idle
    <3> QED BY <3>2, <3>3
  <2>3. InOrder(replies, Floor, asset.version)'
    BY <2>1 DEF InOrder
  <2> QED BY <1>t, <1>f, <2>1, <2>2, <2>3 DEF CacheInv
<1> QED BY <1>1, <1>2, <1>3, <1>4, <1>5, <1>6, <1>7, <1>8, <1>9, <1>10, <1>11,
           <1>12 DEF Next, Listen, Close, Reset

LEMMA InitCache == Init => CacheInv
PROOF
<1> SUFFICES ASSUME Init PROVE CacheInv
  OBVIOUS
<1>1. AssetTypeOK
  BY InitAssetType
<1>2. /\ metadata = NoMetadata /\ handling = Idle /\ replies = <<>>
      /\ asset.version = 1
  BY DEF Init
<1> QED BY <1>1, <1>2
        DEF CacheInv, Floor, InOrder, HandlingOK, NeverOlder, NoMetadata, Idle

(***************************************************************************)
(* The cache never has a marked chunk that is older than the version its   *)
(* metadata names (eleven_asset_client.cpp): every reply comes in order, a *)
(* reset is for the newest version seen so far, and so what arrives after  *)
(* it is of that version or newer.  It holds for any number of downloads   *)
(* of the asset at the same time, of versions and of chunks, and whatever  *)
(* connections and processes fail.                                         *)
(***************************************************************************)
THEOREM NeverOlderThanMarked == Spec => []NeverOlder
PROOF
<1>1. CacheInv /\ [Next]_vars => CacheInv'
  BY CacheStep
<1>2. CacheInv => NeverOlder
  BY DEF CacheInv
<1> QED BY <1>1, <1>2, InitCache, PTL DEF Spec
=============================================================================
