---------------------------- MODULE ClientStreams ----------------------------
(***************************************************************************)
(* Guacamole.Client's connection and its streams: output streams, opened   *)
(* by the page at an index of a pool, and input streams, opened by the     *)
(* server at an index of its own.  Client and server talk over a tunnel    *)
(* that keeps the order of messages in each direction, so an answer of the *)
(* server may meet an index that means another stream by now.              *)
(*                                                                         *)
(* Every handler and every call of the page runs to its end.  The page     *)
(* writes along streams until it ends them or is told of an error, and     *)
(* connects once.  The server is external: it answers for streams it       *)
(* holds, closes a stream when it refuses it, lets go of the one it has at *)
(* an index when another is opened there, and ends its own streams before  *)
(* it uses their index again; a refusal it gets late it does not take for  *)
(* one of the next stream.                                                 *)
(***************************************************************************)
EXTENDS Integers, Sequences, FiniteSets

CONSTANTS
  MaxOpen,      \* bound: output streams the page has open at a time
  Budget,       \* bound: what is opened, where news of the server count twice
  Capacity,     \* bound: messages under way in each direction
  Handled       \* the callbacks that the page defines

VARIABLES
  state,      \* currentState
  tunnelOpen, \* the tunnel delivers
  client,     \* [next, free: the pool; output: index -> stream]
  mine,       \* the streams the page writes along: stream -> its index
  input,      \* streams: index -> stream of the server
  objects,    \* indices of filesystem objects
  made,       \* streams the page has opened; their number identifies them
  toServer, toClient,
  held,       \* the server's view of the page's streams: index -> stream
  offered,    \* streams the server has open: index -> stream
  offers      \* what the server has opened or told

pageVars   == <<state, tunnelOpen>>
serverVars == <<held, offered, offers>>
vars == <<pageVars, client, mine, input, objects, made, toServer, toClient, serverVars>>

-----------------------------------------------------------------------------
(* The pool and the table of output streams                                *)

With(f, i, v) == [j \in DOMAIN f \cup {i} |-> IF j = i THEN v ELSE f[j]]
Without(f, i) == [j \in DOMAIN f \ {i} |-> f[j]]

nextIndex(c) == IF c.free # <<>> THEN Head(c.free) ELSE c.next

\* Faulty: the index that is taken stays in the pool.
createKeepsIndex(c, id) ==
  [next   |-> IF c.free # <<>> THEN c.next ELSE c.next + 1,
   free   |-> c.free,
   output |-> With(c.output, nextIndex(c), id)]

\* The pool is made with a min_size that its constructor does not take: an index
\* that is free is used again at once, the oldest first.
createOutputStream(c, id) ==
  [next   |-> IF c.free # <<>> THEN c.next ELSE c.next + 1,
   free   |-> IF c.free # <<>> THEN Tail(c.free) ELSE c.free,
   output |-> With(c.output, nextIndex(c), id)]

free(c, i) ==
  [next |-> c.next, free |-> Append(c.free, i), output |-> Without(c.output, i)]

-----------------------------------------------------------------------------
(* The connection                                                          *)

Message(op, i, id) == [op |-> op, index |-> i, id |-> id]

\* The tunnel takes messages while it is open and drops them otherwise.
Sent(ms) == IF tunnelOpen THEN toServer \o ms ELSE toServer

isConnected == state \in {"WAITING", "CONNECTED"}

connect ==
  /\ state = "IDLE" /\ state' = "WAITING" /\ tunnelOpen' = TRUE
  /\ UNCHANGED <<client, mine, input, objects, made, toServer, toClient, serverVars>>

disconnected ==
  /\ IF state = "DISCONNECTED" THEN UNCHANGED <<pageVars, toServer>>
     ELSE /\ state' = "DISCONNECTED" /\ tunnelOpen' = FALSE
          /\ toServer' = Sent(<<Message("disconnect", 0, 0)>>)
  /\ UNCHANGED <<client, mine, input, objects, made, serverVars>>

disconnect == disconnected /\ toClient' = <<>>

\* By a timeout or by the other end.  The client is not told and keeps its state.
TunnelCloses ==
  /\ tunnelOpen /\ tunnelOpen' = FALSE /\ toClient' = <<>>
  /\ UNCHANGED <<state, client, mine, input, objects, made, toServer, serverVars>>

-----------------------------------------------------------------------------
(* What the page sends                                                     *)

Instruction(op, i, id) ==
  /\ isConnected /\ Len(toServer) < Capacity
  /\ toServer' = Sent(<<Message(op, i, id)>>)
  /\ UNCHANGED <<pageVars, client, mine, input, objects, made, toClient, serverVars>>

sendEvent                   == Instruction("event", 0, 0)
requestObjectInputStream(o) == Instruction("get", o, 0)
sendBlob(x)                 == Instruction("blob", mine[x], x)

Affordable(cost) == made + 2 * offers + cost <= Budget

MayOpen(open) == Affordable(1) /\ Cardinality(DOMAIN open) < MaxOpen

\* createAudioStream, createFileStream, createPipeStream and so on: the stream is
\* made and its instruction sent, connected or not.
createStream ==
  /\ state # "IDLE" /\ MayOpen(mine) /\ Len(toServer) < Capacity
  /\ made' = made + 1
  /\ client' = createOutputStream(client, made + 1)
  /\ mine' = With(mine, made + 1, nextIndex(client))
  /\ toServer' = Sent(<<Message("open", nextIndex(client), made + 1)>>)
  /\ UNCHANGED <<pageVars, input, objects, toClient, serverVars>>

\* endStream frees the index of the stream, whatever the table has there.
Freed(c, i) == IF i \in DOMAIN c.output THEN free(c, i) ELSE c

endStream(x) ==
  /\ isConnected /\ Len(toServer) < Capacity
  /\ toServer' = Sent(<<Message("end", mine[x], x)>>)
  /\ client' = Freed(client, mine[x])
  /\ mine' = Without(mine, x)
  /\ UNCHANGED <<pageVars, input, objects, made, toClient, serverVars>>

-----------------------------------------------------------------------------
(* Instructions about the page's streams                                   *)

\* Faulty: the handler of the page may have ended the stream itself.
InvalidatedAnyway(c, m, stream) == IF m.op = "refusal" THEN free(c, m.index) ELSE c

Invalidated(c, m, stream) ==
  IF m.op = "refusal" /\ m.index \in DOMAIN c.output /\ c.output[m.index] = stream
  THEN free(c, m.index) ELSE c

\* What the page's onack does with the stream it is called for.
Reactions == {"none", "end", "end and open"}

\* The stream that has the index by now is told, whichever the answer is about.
HandleAck(m) ==
  /\ UNCHANGED <<pageVars, input, objects, serverVars>>
  /\ IF m.index \notin DOMAIN client.output THEN UNCHANGED <<client, mine, toServer, made>>
     ELSE \E r \in Reactions :
       LET stream == client.output[m.index]
           ended  == IF r = "none" THEN client ELSE Freed(client, m.index)
           left   == IF r = "none" /\ m.op = "ack" THEN mine ELSE Without(mine, stream)
           opens  == r = "end and open"
       IN  /\ r # "none" => isConnected
           /\ opens => MayOpen(left)
           /\ made' = IF opens THEN made + 1 ELSE made
           /\ mine' = IF opens THEN With(left, made + 1, nextIndex(ended)) ELSE left
           /\ client' = Invalidated(IF opens THEN createOutputStream(ended, made + 1) ELSE ended,
                                    m, stream)
           /\ toServer' = Sent((IF r = "none" THEN <<>> ELSE <<Message("end", m.index, stream)>>)
                   \o (IF opens THEN <<Message("open", nextIndex(ended), made + 1)>> ELSE <<>>))

-----------------------------------------------------------------------------
(* Streams and objects of the server                                       *)

\* sendAck: "ack" for a code of success, "refusal" for one of an error.
sendAck(m, op) == IF isConnected THEN Sent(<<Message(op, m.index, m.id)>>) ELSE toServer

Same == UNCHANGED <<pageVars, client, mine, made, serverVars>>

\* The stream is handed to a callback of the page, or refused when there is none.
Offered(m, callback) ==
  /\ Same /\ UNCHANGED objects
  /\ IF callback
     THEN /\ input' = With(input, m.index, [id |-> m.id, wanted |-> TRUE])
          /\ UNCHANGED toServer
     ELSE /\ toServer' = sendAck(m, "refusal")
          /\ UNCHANGED input

\* The stream is made before anyone knows whether its type can be played.
Played(m, player) ==
  /\ Same /\ UNCHANGED objects
  /\ input' = With(input, m.index, [id |-> m.id, wanted |-> player])
  /\ toServer' = sendAck(m, IF player THEN "ack" ELSE "refusal")

HandleArgv(m)      == Offered(m, "argv" \in Handled)
HandleClipboard(m) == Offered(m, "clipboard" \in Handled)
HandleFile(m)      == Offered(m, "file" \in Handled)
HandlePipe(m)      == Offered(m, "pipe" \in Handled)
HandleBody(m)      == Offered(m, 0 \in objects)
HandleAudio(m)     == Played(m, "audio" \in Handled)
HandleVideo(m)     == Played(m, "video" \in Handled)

\* The data goes to the stream that has the index by now.
HandleBlob(m) == Same /\ UNCHANGED <<input, objects, toServer>>

\* Faulty: the stream stays in the table.
EndKeepsStream(m) == Same /\ UNCHANGED <<objects, toServer, input>>

HandleEnd(m) == Same /\ UNCHANGED <<objects, toServer>> /\ input' = Without(input, m.index)

HandleFilesystem(m) ==
  /\ Same /\ UNCHANGED <<input, toServer>>
  /\ objects' = IF "filesystem" \in Handled THEN objects \cup {m.index} ELSE objects

\* The object is told, and stays in the table.
HandleUndefine(m) == Same /\ UNCHANGED <<input, objects, toServer>>

HandleSync(m) ==
  /\ state' = IF state = "WAITING" THEN "CONNECTED" ELSE state
  /\ UNCHANGED <<tunnelOpen, client, mine, input, objects, made, toServer, serverVars>>

\* The callback of the page, and then a disconnect like any other.
HandleError(m)      == disconnected
HandleDisconnect(m) == disconnected

Receive ==
  /\ tunnelOpen /\ toClient # <<>> /\ toClient' = Tail(toClient)
  /\ LET m == Head(toClient)
     IN  \/ m.op \in {"ack", "refusal"} /\ HandleAck(m)
         \/ m.op = "argv" /\ HandleArgv(m)
         \/ m.op = "clipboard" /\ HandleClipboard(m)
         \/ m.op = "file" /\ HandleFile(m)
         \/ m.op = "pipe" /\ HandlePipe(m)
         \/ m.op = "body" /\ HandleBody(m)
         \/ m.op = "audio" /\ HandleAudio(m)
         \/ m.op = "video" /\ HandleVideo(m)
         \/ m.op = "blob" /\ HandleBlob(m)
         \/ m.op = "end" /\ HandleEnd(m)
         \/ m.op = "filesystem" /\ HandleFilesystem(m)
         \/ m.op = "undefine" /\ HandleUndefine(m)
         \/ m.op = "sync" /\ HandleSync(m)
         \/ m.op = "error" /\ HandleError(m)
         \/ m.op = "disconnect" /\ HandleDisconnect(m)

-----------------------------------------------------------------------------
(* The server                                                              *)

Kinds == {"argv", "clipboard", "file", "pipe", "body", "audio", "video"}

ServerReceives ==
  /\ toServer # <<>> /\ toServer' = Tail(toServer)
  /\ LET m == Head(toServer)
     IN  /\ held' = CASE m.op = "open" -> With(held, m.index, m.id)
                      [] m.op = "end"  -> Without(held, m.index)
                      [] OTHER         -> held
         /\ offered' = IF m.op = "refusal" /\ m.index \in DOMAIN offered
                          /\ offered[m.index] = m.id
                       THEN Without(offered, m.index) ELSE offered
  /\ UNCHANGED <<pageVars, client, mine, input, objects, made, toClient, offers>>

Tells(m) ==
  /\ tunnelOpen /\ Len(toClient) < Capacity /\ toClient' = Append(toClient, m)
  /\ UNCHANGED <<pageVars, client, mine, input, objects, made, toServer>>

ServerAnswers(i, op) ==
  /\ Tells(Message(op, i, held[i]))
  /\ held' = IF op = "refusal" THEN Without(held, i) ELSE held
  /\ UNCHANGED <<offered, offers>>

ServerOffers(kind) ==
  /\ Affordable(2) /\ offers' = offers + 1
  /\ 0 \notin DOMAIN offered /\ offered' = With(offered, 0, -(offers + 1))
  /\ Tells(Message(kind, 0, -(offers + 1))) /\ UNCHANGED held

ServerWrites(i) == Tells(Message("blob", i, offered[i])) /\ UNCHANGED serverVars

ServerEnds(i) ==
  /\ Tells(Message("end", i, offered[i]))
  /\ offered' = Without(offered, i) /\ UNCHANGED <<held, offers>>

ServerTells(op) ==
  /\ Affordable(2) /\ offers' = offers + 1
  /\ Tells(Message(op, 0, 0)) /\ UNCHANGED <<held, offered>>

Server ==
  \/ ServerReceives
  \/ \E i \in DOMAIN held, op \in {"ack", "refusal"} : ServerAnswers(i, op)
  \/ \E kind \in Kinds : ServerOffers(kind)
  \/ \E i \in DOMAIN offered : ServerWrites(i) \/ ServerEnds(i)
  \/ \E op \in {"filesystem", "undefine", "sync", "error", "disconnect"} : ServerTells(op)

Page ==
  \/ connect \/ disconnect \/ TunnelCloses
  \/ sendEvent \/ createStream
  \/ \E o \in objects : requestObjectInputStream(o)
  \/ \E x \in DOMAIN mine : sendBlob(x) \/ endStream(x)
  \/ Receive

Init ==
  /\ state = "IDLE" /\ tunnelOpen = FALSE
  /\ client = [next |-> 0, free |-> <<>>, output |-> <<>>]
  /\ mine = <<>> /\ input = <<>> /\ objects = {} /\ made = 0
  /\ toServer = <<>> /\ toClient = <<>>
  /\ held = <<>> /\ offered = <<>> /\ offers = 0

Next == Page \/ Server

Spec == Init /\ [][Next]_vars

-----------------------------------------------------------------------------
(* Properties                                                              *)

\* Every index below next_int is either free or the index of one open stream, and
\* a free index is in the pool once: whatever order acks, ends and the page's
\* reactions come in, no index leaks and none is given to two streams
\* (createOutputStream, endStream and the "ack" handler).
Partition(c) ==
  /\ \A j, k \in DOMAIN c.free : j # k => c.free[j] # c.free[k]
  /\ \A k \in DOMAIN c.free : c.free[k] \notin DOMAIN c.output
  /\ DOMAIN c.output \cup {c.free[k] : k \in DOMAIN c.free} = 0..(c.next - 1)

PoolPartition == Partition(client)

\* What the page writes along a stream, and its end, reaches that stream or, when the
\* server has closed it, none: not a stream at the same index, although an index is
\* used again while messages about it are under way, and although a refusal that
\* comes late frees it under a stream the server holds (createOutputStream,
\* endStream, sendBlob and the "ack" handler).
WritesReachTheirStream ==
  toServer # <<>> /\ Head(toServer).op \in {"blob", "end"} =>
    LET m == Head(toServer)
    IN  m.index \in DOMAIN held => held[m.index] = m.id

\* An answer is handed to the stream it is about, or to none: what the min_size is
\* for that the client passes to the pool "to delay index reuse".  The pool does not
\* take it, and the "ack" handler knows streams by their index only.
AckReachesItsStream ==
  toClient # <<>> /\ Head(toClient).op \in {"ack", "refusal"} =>
    LET m == Head(toClient)
    IN  m.index \in DOMAIN client.output => client.output[m.index] = m.id

\* What the server writes along a stream is handed to that stream or to none; only
\* a stream that was refused because nothing can play it stays in the table
\* ("blob", "end", and the handlers that open streams).
BlobsReachTheirStream ==
  toClient # <<>> /\ Head(toClient).op = "blob" =>
    LET m == Head(toClient)
    IN  m.index \in DOMAIN input /\ input[m.index].wanted => input[m.index].id = m.id
=============================================================================
