---------------------------- MODULE ReplyWriter ----------------------------
(***************************************************************************)
(* The reply of one client: the list of blocks that commands append to and *)
(* rchkHandleWriteEvent sends with writev, which may take any part of it.  *)
(*                                                                         *)
(* Blocks and their bytes are allocated separately, and a pointer to bytes *)
(* is a chunk and an offset in it: a partial write moves it.  Bytes are    *)
(* numbered in the order in which commands produce them; addresses are     *)
(* numbered too and not used twice.  What free does with a pointer that    *)
(* malloc did not return is undefined; the C library the program is built  *)
(* with ends the process.                                                  *)
(*                                                                         *)
(* Either malloc of an append may fail.  Nobody looks at the result of     *)
(* rchkAppendToReply: the reply goes on without those bytes, and when it   *)
(* was the second malloc, the element is never freed.  Nothing points to   *)
(* such an element, so that they are only counted.                         *)
(***************************************************************************)
EXTENDS Integers, Sequences, FiniteSets

CONSTANTS
  BlockSizes,  \* sizes of the blocks that commands append
  MaxBlocks,   \* bound on the elements allocated
  NULL

ASSUME SizesAreNumbers == BlockSizes \subseteq Nat /\ MaxBlocks \in Nat
ASSUME NullIsNoAddress == NULL \notin Nat

VARIABLES
  at,               \* handler that is registered: "read", "write"; "closed"; "aborted", "killed"
  block,            \* allocated blocks: address -> [bytes, size, next]
  data,             \* allocated bytes: address -> sequence of numbers
  reply, replyTail, \* first and last block of the list
  replyRemaining,   \* not yet written response elements
  executed,         \* a command was executed since the read handler was registered
  orphans,          \* number of elements allocated that got no bytes
  appended,         \* number of blocks appended
  produced,         \* number of bytes appended
  received,         \* the bytes the client got
  cut               \* history: some write took a part of what it was given

list == <<reply, replyTail, replyRemaining>>
replyVars == <<at, block, data, list, executed, orphans, appended, produced, received, cut>>

Numbers(first, n) == [i \in 1 .. n |-> first + i - 1]

Address == 1 .. MaxBlocks

\* block->next; there is no list behind a block that was freed.
NextOf(b) == IF b \in DOMAIN block THEN block[b].next ELSE NULL

\* The bytes a block stands for.
BytesOf(b) ==
  LET bytes == block[b].bytes
  IN SubSeq(data[bytes.chunk], bytes.offset + 1, bytes.offset + block[b].size)

\* The blocks from b to the end of the list.
BlocksFrom(b) ==
  LET from[c \in Address \cup {NULL}] == IF c = NULL THEN {} ELSE {c} \cup from[NextOf(c)]
  IN from[b]

\* Their bytes, as writev sees them.
BytesFrom(b) ==
  LET from[c \in Address \cup {NULL}] == IF c = NULL THEN <<>> ELSE BytesOf(c) \o from[NextOf(c)]
  IN from[b]

ReplyInit ==
  /\ at = "read"
  /\ block = <<>> /\ data = <<>>
  /\ reply = NULL /\ replyTail = NULL /\ replyRemaining = NULL
  /\ executed = FALSE /\ orphans = 0
  /\ appended = 0 /\ produced = 0
  /\ received = <<>>
  /\ cut = FALSE

\* n bytes in a block of their own at the end of the list.
Linked(n) ==
  LET b == appended + 1
  IN /\ appended + orphans < MaxBlocks
     /\ block' = [a \in DOMAIN block \cup {b} |->
          IF a = b THEN [bytes |-> [chunk |-> b, offset |-> 0], size |-> n, next |-> NULL]
          ELSE IF reply # NULL /\ a = replyTail THEN [block[a] EXCEPT !.next = b]
          ELSE block[a]]
     /\ data' = [c \in DOMAIN data \cup {b} |->
          IF c = b THEN Numbers(produced + 1, n) ELSE data[c]]
     /\ reply' = IF reply = NULL THEN b ELSE reply
     /\ replyTail' = b
     /\ appended' = b
     /\ produced' = produced + n
     /\ UNCHANGED orphans

\* No memory for the element, or none for its bytes.
NotLinked ==
  /\ \/ UNCHANGED orphans
     \/ appended + orphans < MaxBlocks /\ orphans' = orphans + 1
  /\ UNCHANGED <<block, data, reply, replyTail, appended, produced>>

\* rchkAppendToReply, called by a command.
AppendToReply(n) ==
  /\ at = "read"
  /\ Linked(n) \/ NotLinked
  /\ executed' = TRUE
  /\ UNCHANGED <<at, replyRemaining, received, cut>>

\* A slip: only the newest block remains to be written.
FirstToWriteTail == replyTail

FirstToWrite == reply

\* The end of rchkHandleReadEvent: the write handler is registered, for a reply
\* without blocks too.
StartWriting ==
  /\ at = "read" /\ executed
  /\ replyRemaining' = FirstToWrite
  /\ at' = "write"
  /\ executed' = FALSE
  /\ UNCHANGED <<block, data, reply, replyTail, orphans, appended, produced, received, cut>>

-----------------------------------------------------------------------------
\* A slip: the list is left without freeing its bytes.
FreedBlocksOnly(blocks) ==
  /\ block' = [b \in DOMAIN block \ blocks |-> block[b]]
  /\ UNCHANGED data

\* rchkClientResetReplyList: free(current->bytes), free(current).
Freed(blocks) ==
  /\ block' = [b \in DOMAIN block \ blocks |-> block[b]]
  /\ data' = [c \in DOMAIN data \ {block[b].bytes.chunk : b \in blocks} |-> data[c]]

\* Afterwards the client is in state next, unless a pointer is not malloc's.
ResetReplyList(next) ==
  LET blocks == BlocksFrom(reply)
      interior == \E b \in blocks : block[b].bytes.offset # 0
  IN /\ reply' = NULL /\ replyTail' = NULL /\ replyRemaining' = NULL
     /\ \/ interior /\ at' = "aborted" /\ UNCHANGED <<block, data>>
        \/ ~interior /\ at' = next /\ Freed(blocks)

\* The loop over the list after n bytes were written: the block in which the first
\* byte lies that was not, NULL when there is none, and how much of it was.
FirstUnwritten(n) ==
  LET walk[b \in Address \cup {NULL}] ==
        [written \in 0 .. n |->
           IF b \notin DOMAIN block \/ written < block[b].size
           THEN [block |-> b, written |-> written]
           ELSE walk[NextOf(b)][written - block[b].size]]
  IN walk[replyRemaining][n]

\* A slip: the head of the list still points to its old successor.
HeadKeepsNext(b, written) ==
  block' = [block EXCEPT
    ![replyRemaining].bytes = [block[b].bytes EXCEPT !.offset = @ + written],
    ![replyRemaining].size = block[b].size - written]

\* The block at replyRemaining is made to stand for the rest of block b.
HeadTakesRest(b, written) ==
  block' = [block EXCEPT ![replyRemaining] =
    [bytes |-> [block[b].bytes EXCEPT !.offset = @ + written],
     size |-> block[b].size - written,
     next |-> block[b].next]]

\* rchkHandleWriteEvent when writev took n of the bytes it was given: some, if there
\* are any.
Write(n) ==
  LET bytes == BytesFrom(replyRemaining)
      left == FirstUnwritten(n)
  IN /\ at = "write"
     /\ n <= Len(bytes) /\ (n = 0 => bytes = <<>>)
     /\ received' = received \o SubSeq(bytes, 1, n)
     /\ \/ /\ left.block = NULL
           /\ ResetReplyList("read")
           /\ UNCHANGED cut
        \/ /\ left.block # NULL
           /\ HeadTakesRest(left.block, left.written)
           /\ cut' = TRUE
           /\ UNCHANGED <<at, data, list>>
     /\ UNCHANGED <<executed, orphans, appended, produced>>

\* writev or a read fails, the client closes, or a handler is not registered: the
\* connection is closed and the client freed, with the answers it has not got.
ConnectionEnds ==
  /\ at \in {"read", "write"}
  /\ ResetReplyList("closed")
  /\ UNCHANGED <<executed, orphans, appended, produced, received, cut>>

\* The other side has reset the connection, and SIGPIPE ends the process: main sets
\* handlers for SIGTERM and SIGINT only.
BrokenPipe ==
  /\ at = "write" /\ at' = "killed"
  /\ UNCHANGED <<block, data, list, executed, orphans, appended, produced, received, cut>>

WriteSome == \E n \in 0 .. produced : Write(n)

ReplyNext ==
  \/ \E n \in BlockSizes : AppendToReply(n)
  \/ StartWriting
  \/ WriteSome
  \/ ConnectionEnds
  \/ BrokenPipe

ReplySpec == ReplyInit /\ [][ReplyNext]_replyVars

\* A socket that can be written is reported by the event loop until the read
\* handler is registered again.
FairReplySpec == ReplySpec /\ WF_replyVars(StartWriting) /\ WF_replyVars(WriteSome)

-----------------------------------------------------------------------------
\* What the list holds is what the client has not got, byte for byte, wherever the
\* writes were cut; and the read handler comes back when it has got everything.
NotYetWritten ==
  /\ at = "write" => received \o BytesFrom(replyRemaining) = Numbers(1, produced)
  /\ at = "read" => received \o BytesFrom(reply) = Numbers(1, produced)

\* How many allocations free has not got back.
Allocated == Cardinality(DOMAIN block) + Cardinality(DOMAIN data) + orphans

\* When a reply has been sent or the connection has been closed, and no write was cut,
\* every block of the list has been freed and so have its bytes: what stays behind is
\* the elements whose bytes malloc refused, one for each, and they stay for ever.
PurgedUnlessCut == reply = NULL /\ ~cut => Allocated = orphans

\* Every byte that was appended to a reply reaches the client if the connection lasts.
AllDelivered ==
  \A n \in 1 .. MaxBlocks :
    produced >= n ~> Len(received) >= n \/ at \in {"closed", "aborted", "killed"}

\* A comment in rchkHandleWriteEvent: the reply list is purged "after it has been
\* completely sent".
Purged ==
  /\ at # "aborted"
  /\ reply = NULL => Allocated = orphans
=============================================================================
