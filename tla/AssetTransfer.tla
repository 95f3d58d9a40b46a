--------------------------- MODULE AssetTransfer ----------------------------
(***************************************************************************)
(* The download of one asset from the asset server (eleven_asset_server)   *)
(* into the cache of an asset client (eleven_asset_client), over one       *)
(* connection of a user who is logged in.                                  *)
(*                                                                         *)
(* The client asks with /asset_info for the modification time and number   *)
(* of chunks of the asset, notes both in a metadata file with one mark per *)
(* chunk, and then fetches the chunks that are not marked one at a time:   *)
(* each /asset_chunk that arrives is written into the cached file, marked, *)
(* and followed by the next /get_asset.  The asset may change on the       *)
(* server at any time, the connection may close or break, also in the      *)
(* middle of a chunk, and the client may crash between two writes.         *)
(*                                                                         *)
(* Changes of the asset replace it at once and have different modification *)
(* times; versions number them, and a chunk is told from another by its    *)
(* index and the version that it belongs to.  A version of no chunks is an *)
(* asset that is empty or not there, or whose name has ".." in it.         *)
(***************************************************************************)
EXTENDS Integers, Sequences

CONSTANTS MaxVersion, \* how many versions of the asset there will be
          MaxChunks,  \* of how many chunks at most
          InFlight,   \* how many downloads the client runs at the same time
          Faults      \* which of "close", "reset" and "crash" happen

VARIABLES asset,      \* on the server: its version and number of chunks
          connection, \* "up"; "closed", with replies to read; "down"
          requests,   \* on their way to the server
          replies,    \* on their way to the client
          file,       \* in the cache: the version of each chunk's data
          metadata,   \* in the cache: version and marks
          handling    \* what the client's listening thread is in the middle of

vars == <<asset, connection, requests, replies, file, metadata, handling>>

ASSUME AssetAssumption ==
  /\ MaxVersion \in Nat \ {0} /\ MaxChunks \in Nat \ {0}
  /\ InFlight \in Nat
  /\ Faults \subseteq {"close", "reset", "crash"}

Versions == 1 .. MaxVersion

Chunks == 0 .. (MaxChunks - 1)

\* What the cached file has instead of a chunk: nothing, or something that
\* is not the chunk of any version.
Nothing == 0

Broken == -1

Info == [kind |-> "info"]

Get(i) == [kind |-> "get", chunk |-> i]

\* Replies; AssetChunk's version is that of its data, which no header tells.
AssetInfo(n, v) == [kind |-> "info", chunks |-> n, version |-> v]

AssetChunk(i, v) == [kind |-> "chunk", chunk |-> i, version |-> v]

NoSuchAsset == [kind |-> "none"]

\* A chunk of which only the beginning has arrived when the connection was
\* closed, or when it failed.
CutChunk(i) == [kind |-> "cut", chunk |-> i]

BrokenChunk(i) == [kind |-> "broken", chunk |-> i]

NoMetadata == [kind |-> "absent"]

\* Opened for writing, which truncates it, and not written yet.
EmptyMetadata == [kind |-> "empty"]

\* A metadata file: the version and a line for each chunk.
Metadata(v, marks) == [kind |-> "lines", version |-> v, marks |-> marks]

Idle == [kind |-> "idle"]

\* read, which never gets the rest of its bytes.
Reading == [kind |-> "reading"]

Init ==
  /\ \E n \in 1 .. MaxChunks : asset = [version |-> 1, chunks |-> n]
  /\ connection = "down"
  /\ requests = <<>> /\ replies = <<>>
  /\ file = [i \in Chunks |-> Nothing]
  /\ metadata = NoMetadata
  /\ handling = Idle

cacheVars == <<file, metadata>>

-----------------------------------------------------------------------------
\* The chunks without a mark, of which the handlers take the first.  There
\* are none in a metadata file without lines.
Missing(m) ==
  IF m.kind = "lines" THEN {i \in DOMAIN m.marks : ~ m.marks[i]} ELSE {}

First(S) == CHOOSE i \in S : \A j \in S : i <= j

\* path_for_asset returns a path.
HasPath == metadata.kind # "absent" /\ Missing(metadata) = {}

\* A request that is sent into a closed connection is lost.
Send(r) ==
  requests' = IF connection = "up" THEN Append(requests, r) ELSE requests

-----------------------------------------------------------------------------
\* asset_server::info and get: what the handlers answer to a request.
Reply(r) ==
  IF r.kind = "info"
    THEN IF asset.chunks # 0 THEN AssetInfo(asset.chunks, asset.version)
                             ELSE NoSuchAsset
    ELSE IF r.chunk < asset.chunks THEN AssetChunk(r.chunk, asset.version)
                                   ELSE NoSuchAsset

\* The server's thread of this session reads a line and answers it.
Serve ==
  /\ connection = "up" /\ requests # <<>>
  /\ requests' = Tail(requests)
  /\ replies' = Append(replies, Reply(Head(requests)))
  /\ UNCHANGED <<asset, connection, cacheVars, handling>>

-----------------------------------------------------------------------------
\* Connect, log in and register the handlers.
Connect ==
  /\ connection = "down"
  /\ connection' = "up"
  /\ UNCHANGED <<asset, requests, replies, cacheVars, handling>>

\* The application asks for the asset, again or for the first time.
Ask ==
  /\ connection = "up"
  /\ Len(requests) + Len(replies) + (IF handling = Idle THEN 0 ELSE 1)
       < InFlight
  /\ Send(Info)
  /\ UNCHANGED <<asset, connection, replies, cacheVars, handling>>

\* The thread takes the next reply, which must be of some kind.
Receive(kind) ==
  /\ handling = Idle /\ replies # <<>> /\ Head(replies).kind = kind
  /\ replies' = Tail(replies)

\* A plausible slip: a file that is complete is good for every version.
M_MustReset(version) == metadata.kind = "absent"

\* asset_info has no use for the metadata file: no chunk is missing, and it
\* is of another version or there is none.
MustReset(version) ==
  /\ Missing(metadata) = {}
  /\ metadata.kind = "lines" => metadata.version # version

\* The asset_info handler.  Without a reset it sends the next request, or
\* all is there and it calls mFileFinishedCallback.  The loop that strips
\* the line end of the version reads before the line when there is no line.
ReceiveInfo ==
  /\ Receive("info")
  /\ UNCHANGED <<asset, file>>
  /\ LET r == Head(replies) IN
       \/ /\ metadata.kind # "empty" /\ MustReset(r.version)
          /\ metadata' = EmptyMetadata
          /\ handling' = [kind |-> "reset", reply |-> r]
          /\ UNCHANGED <<connection, requests>>
       \/ /\ metadata.kind # "empty" /\ ~ MustReset(r.version)
          /\ IF Missing(metadata) = {} THEN UNCHANGED requests
                ELSE Send(Get(First(Missing(metadata))))
          /\ UNCHANGED <<connection, metadata, handling>>

\* The same when there is an empty metadata file: the client crashes.
ReceiveInfoAndCrash ==
  /\ handling = Idle /\ replies # <<>> /\ Head(replies).kind = "info"
  /\ metadata.kind = "empty"
  /\ connection' = "down" /\ requests' = <<>> /\ replies' = <<>>
  /\ UNCHANGED <<asset, cacheVars, handling>>

\* A plausible slip: a line too many.
M_Unmarked(chunks) == [i \in 0 .. chunks |-> FALSE]

\* A metadata line for each chunk.
Unmarked(chunks) == [i \in 0 .. (chunks - 1) |-> FALSE]

\* The rest of asset_info: the metadata file reaches the disk when it is
\* closed, and the first chunk is requested.  (Of an asset with more than some
\* two thousand chunks a part of the lines reaches the disk before.)
WriteMetadata ==
  /\ handling.kind = "reset"
  /\ metadata' = Metadata(handling.reply.version, Unmarked(handling.reply.chunks))
  /\ Send(Get(0))
  /\ handling' = Idle
  /\ UNCHANGED <<asset, connection, replies, file>>

\* asset_chunk puts the data in the file, whatever was there before.
WriteChunk(i, v) == file' = [file EXCEPT ![i] = v]

ReceiveChunk ==
  /\ Receive("chunk")
  /\ WriteChunk(Head(replies).chunk, Head(replies).version)
  /\ handling' = [kind |-> "mark", chunk |-> Head(replies).chunk]
  /\ UNCHANGED <<asset, connection, requests, metadata>>

\* The same when the connection fails: session::read returns fewer bytes,
\* and the handler goes on with what is in its buffer.
ReceiveBroken ==
  /\ Receive("broken")
  /\ WriteChunk(Head(replies).chunk, Broken)
  /\ handling' = [kind |-> "mark", chunk |-> Head(replies).chunk]
  /\ UNCHANGED <<asset, connection, requests, metadata>>

\* The metadata with a mark at a chunk, if it has a line for it.  Otherwise
\* the mark is written behind the last line, where it makes no line that
\* begins with '0', so that nobody who reads the file finds a difference.
Marked(i) ==
  IF metadata.kind = "lines"
    THEN [metadata EXCEPT !.marks = [j \in DOMAIN @ |-> @[j] \/ j = i]]
    ELSE metadata

\* The rest of asset_chunk: the mark, and the next request or the callback.
MarkChunk ==
  /\ handling.kind = "mark"
  /\ metadata' = Marked(handling.chunk)
  /\ IF Missing(metadata') = {} THEN UNCHANGED requests
       ELSE Send(Get(First(Missing(metadata'))))
  /\ handling' = Idle
  /\ UNCHANGED <<asset, connection, replies, file>>

\* Other replies have no handler here.
ReceiveOther ==
  /\ Receive("none")
  /\ UNCHANGED <<asset, connection, requests, cacheVars, handling>>

\* A plausible slip: what did arrive of the chunk is taken for the chunk.
M_ReceiveCut ==
  /\ Receive("cut")
  /\ handling' = [kind |-> "mark", chunk |-> Head(replies).chunk]
  /\ UNCHANGED <<asset, connection, requests, cacheVars>>

\* asset_chunk of a chunk that is cut off: session::read takes the end of
\* the connection for zero bytes and tries again, for ever.
ReceiveCut ==
  /\ Receive("cut")
  /\ handling' = Reading
  /\ UNCHANGED <<asset, connection, requests, cacheVars>>

\* The listening thread ends at the end of the connection.
StopListening ==
  /\ connection = "closed" /\ handling = Idle /\ replies = <<>>
  /\ connection' = "down"
  /\ UNCHANGED <<asset, requests, replies, cacheVars, handling>>

-----------------------------------------------------------------------------
\* Somebody replaces or removes the asset.
Change ==
  /\ asset.version < MaxVersion
  /\ \E n \in 0 .. MaxChunks :
       asset' = [version |-> asset.version + 1, chunks |-> n]
  /\ UNCHANGED <<connection, requests, replies, cacheVars, handling>>

\* The connection ends.  Some of the replies still arrive, and perhaps the
\* beginning of a chunk, which rest says how to take.
End(rest) ==
  /\ connection = "up"
  /\ connection' = "closed"
  /\ requests' = <<>>
  /\ \E n \in 0 .. Len(replies) :
       replies' \in {SubSeq(replies, 1, n)} \union
         {Append(SubSeq(replies, 1, n), [kind |-> rest, chunk |-> i]) :
            i \in {j \in Chunks : /\ n < Len(replies)
                                  /\ replies[n + 1].kind = "chunk"
                                  /\ replies[n + 1].chunk = j}}
  /\ UNCHANGED <<asset, cacheVars, handling>>

\* The server closes the connection, by itself or after /logout.
Close == "close" \in Faults /\ End("cut")

\* The connection fails: the end of the stream is an error.
Reset == "reset" \in Faults /\ End("broken")

\* The client's process ends, and its files stay as they are.
Crash ==
  /\ "crash" \in Faults
  /\ connection' = "down" /\ requests' = <<>> /\ replies' = <<>>
  /\ handling' = Idle
  /\ UNCHANGED <<asset, cacheVars>>

-----------------------------------------------------------------------------
\* The listening thread of the client.
Listen ==
  \/ ReceiveInfo \/ ReceiveInfoAndCrash \/ WriteMetadata
  \/ ReceiveChunk \/ ReceiveBroken \/ MarkChunk
  \/ ReceiveOther \/ ReceiveCut \/ StopListening

Next ==
  \/ Connect \/ Ask \/ Serve \/ Listen
  \/ Change \/ Close \/ Reset \/ Crash

\* The threads of server and client handle what they are sent.
Spec == Init /\ [][Next]_vars /\ WF_vars(Serve) /\ WF_vars(Listen)

\* An application that is connected and asks again whenever it can.
EagerSpec == Spec /\ WF_vars(Connect) /\ WF_vars(Ask)

-----------------------------------------------------------------------------
Requests == {Info} \union {Get(i) : i \in Chunks}

InfoReplies == {AssetInfo(n, v) : n \in 1 .. MaxChunks, v \in Versions}

Replies ==
  InfoReplies \union {AssetChunk(i, v) : i \in Chunks, v \in Versions}
    \union {CutChunk(i) : i \in Chunks} \union {BrokenChunk(i) : i \in Chunks}
    \union {NoSuchAsset}

AssetTypeOK ==
  /\ asset \in [version : Versions, chunks : 0 .. MaxChunks]
  /\ connection \in {"up", "closed", "down"}
  /\ requests \in Seq(Requests)
  /\ replies \in Seq(Replies)
  /\ file \in [Chunks -> Versions \union {Nothing, Broken}]
  /\ metadata \in {NoMetadata, EmptyMetadata} \union
       UNION {{Metadata(v, marks) : v \in Versions,
                                    marks \in [0 .. (n - 1) -> BOOLEAN]}
                : n \in 1 .. MaxChunks}
  /\ handling \in {Idle, Reading}
       \union {[kind |-> "mark", chunk |-> i] : i \in Chunks}
       \union {[kind |-> "reset", reply |-> r] : r \in InfoReplies}

(***************************************************************************)
(* A marked chunk is never older than the version the metadata names:      *)
(* data that was requested for an older version cannot arrive after the    *)
(* metadata was reset for a newer one, several downloads of the same asset *)
(* share the file and the marks, and neither a crash nor the end of the    *)
(* connection leaves a mark without data.  So a file that is complete and  *)
(* of the server's version has all the chunks of that version, except for  *)
(* those that a failing connection broke: asset_chunk marks them too.      *)
(***************************************************************************)
NeverOlder ==
  metadata.kind = "lines" =>
    \A i \in DOMAIN metadata.marks :
      metadata.marks[i] => file[i] >= metadata.version \/ file[i] = Broken

\* The cache has version v of the asset, and path_for_asset tells where.
Cached(v) ==
  /\ HasPath
  /\ metadata.kind = "lines" /\ metadata.version = v
  /\ DOMAIN metadata.marks = 0 .. (asset.chunks - 1)
  /\ \A i \in DOMAIN metadata.marks : file[i] = v

\* The client asks for version v, has nothing else under way, and its cache
\* has no unfinished download of another version and no broken chunk of
\* this one.
AsksFor(v) ==
  /\ connection = "up" /\ asset.version = v /\ asset.chunks # 0
  /\ requests = <<Info>> /\ replies = <<>> /\ handling = Idle
  /\ Missing(metadata) # {} => metadata.version = v
  /\ metadata.kind = "lines" => \/ metadata.version # v
                                \/ \A i \in Chunks : file[i] # Broken

(***************************************************************************)
(* An asset that the client asks for is downloaded completely unless it    *)
(* changes or the connection is lost meanwhile, also when the cache has an *)
(* older version that is complete or an interrupted download of this one,  *)
(* and the application asks again in between.  Not when the cache has an   *)
(* unfinished download of an older version, or a broken chunk of this one: *)
(* these are what the client goes on with, or does not find out.           *)
(***************************************************************************)
IsDownloaded ==
  \A v \in Versions :
    AsksFor(v) ~> (Cached(v) \/ asset.version # v \/ connection # "up")

(***************************************************************************)
(* What the header of asset_client promises: a client that keeps asking    *)
(* for an asset that has stopped changing has its current version in the   *)
(* end.                                                                    *)
(***************************************************************************)
BecomesCurrent ==
  <>[](asset.chunks # 0 => Cached(asset.version))
=============================================================================
