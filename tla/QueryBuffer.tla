---------------------------- MODULE QueryBuffer ----------------------------
(***************************************************************************)
(* How large the query buffer of a client is: the read handler grows it    *)
(* before a read when a big argument is coming in, and the cron shrinks it *)
(* when it is not used.  Both replace the buffer between two reads, when   *)
(* it holds nothing.  Bytes are counted in units, and a request is a       *)
(* sequence of headers and arguments: what ReadHandler parses.             *)
(***************************************************************************)
EXTENDS Integers

CONSTANTS
  DefaultSize,        \* ARCHKE_QUERY_BUFFER_DEFAULT_SIZE
  BigArg,             \* ARCHKE_CMD_BIG_ARG
  ResizeThreshold,    \* ARCHKE_RESIZE_THRESHOLD
  Sizes               \* sizes of arguments

ASSUME LimitsAssumption ==
  /\ DefaultSize \in Nat \ {0}
  /\ BigArg \in Nat /\ ResizeThreshold \in Nat
  /\ DefaultSize <= BigArg /\ DefaultSize <= ResizeThreshold
ASSUME SizesAssumption == Sizes \subseteq Nat

VARIABLES
  queryBuffCap, queryBuffPeak, argRemaining,
  rest,      \* bytes of the buffer not parsed yet
  size,      \* arg->size of the argument whose bytes are parsed, 0 between arguments
  filled,    \* arg->filled
  silent     \* the client has sent its last byte

buffer == <<queryBuffCap, queryBuffPeak>>
parser == <<argRemaining, size, filled>>
vars == <<buffer, parser, rest, silent>>

Larger(a, b) == IF a < b THEN b ELSE a
Smaller(a, b) == IF a < b THEN a ELSE b

Init ==
  /\ queryBuffCap = DefaultSize /\ queryBuffPeak = 0
  /\ argRemaining = -1
  /\ rest = 0 /\ size = 0 /\ filled = 0
  /\ silent = FALSE

-----------------------------------------------------------------------------
(* rchkHandleReadEvent and the parser                                      *)

\* rchkResizeQueryBuffer
Grown ==
  IF argRemaining > BigArg /\ queryBuffCap < argRemaining THEN argRemaining ELSE queryBuffCap

Read ==
  /\ rest = 0 /\ ~silent
  /\ queryBuffCap' = Grown
  /\ rest' \in 1 .. queryBuffCap'
  /\ queryBuffPeak' = Larger(queryBuffPeak, rest')
  /\ UNCHANGED <<parser, silent>>

\* A byte outside an argument that does not end the header of one.
HeaderByte ==
  /\ rest > 0 /\ size = 0
  /\ rest' = rest - 1
  /\ UNCHANGED <<buffer, parser, silent>>

\* What is still to come of an argument of size s when its header has been read.
Remaining(s) == Larger(0, s - (rest - 1))

\* The '\n' of a header.  An empty argument leaves argRemaining as it is.
HeaderEnds ==
  /\ rest > 0 /\ size = 0
  /\ rest' = rest - 1
  /\ \E s \in Sizes :
       \/ s = 0 /\ UNCHANGED parser
       \/ /\ s > 0
          /\ argRemaining' = Remaining(s)
          /\ size' = s /\ filled' = 0
  /\ UNCHANGED <<buffer, silent>>

\* The bytes of the argument that are in the buffer.  argRemaining is reset if it was
\* the last argument of its request, and kept if it was not.
ArgBytes ==
  LET n == Smaller(rest, size - filled)
  IN /\ rest > 0 /\ size > 0
     /\ rest' = rest - n
     /\ \/ /\ filled + n < size
           /\ filled' = filled + n
           /\ UNCHANGED <<argRemaining, size>>
        \/ /\ filled + n = size
           /\ size' = 0 /\ filled' = 0
           /\ argRemaining' = argRemaining \/ argRemaining' = -1
     /\ UNCHANGED <<buffer, silent>>

FallsSilent ==
  /\ rest = 0 /\ ~silent
  /\ silent' = TRUE
  /\ UNCHANGED <<buffer, parser, rest>>

-----------------------------------------------------------------------------
(* clientCronShrinkQueryBuffer                                             *)

\* A slip: what is still to come of the argument is not looked at.
ShrunkToPeak ==
  IF queryBuffPeak < ResizeThreshold THEN DefaultSize ELSE queryBuffPeak

\* The size it would like.
Shrunk ==
  Larger(IF queryBuffPeak < ResizeThreshold THEN DefaultSize ELSE queryBuffPeak,
         argRemaining)

\* A slip: the peak is that of all time.
CronKeepsPeak ==
  /\ rest = 0
  /\ queryBuffCap' = IF queryBuffCap > ResizeThreshold /\ queryBuffPeak < queryBuffCap \div 2
                       THEN Smaller(queryBuffCap, Shrunk) ELSE queryBuffCap
  /\ UNCHANGED <<queryBuffPeak, parser, rest, silent>>

Cron ==
  /\ rest = 0
  /\ queryBuffCap' = IF queryBuffCap > ResizeThreshold /\ queryBuffPeak < queryBuffCap \div 2
                       THEN Smaller(queryBuffCap, Shrunk) ELSE queryBuffCap
  /\ queryBuffPeak' = 0
  /\ UNCHANGED <<parser, rest, silent>>

-----------------------------------------------------------------------------
Parse == HeaderByte \/ HeaderEnds \/ ArgBytes

Next == Read \/ Parse \/ FallsSilent \/ Cron

Spec == Init /\ [][Next]_vars

\* The handler parses what it has read, and the cron runs every 200 ms.  The client
\* need neither send nor fall silent.
FairSpec == Spec /\ WF_vars(Parse) /\ WF_vars(Cron)

-----------------------------------------------------------------------------
\* When more than BigArg bytes of an argument are to come, the buffer has room for them
\* at the next read, and the cron, which runs between the reads, takes no such buffer
\* away: although argRemaining is computed once and not counted down.  Of exactly BigArg
\* bytes it is not true: archke_server.h calls them big, rchkResizeQueryBuffer does not.
RestFits ==
  [][size - filled > BigArg /\ (Read \/ queryBuffCap' < queryBuffCap)
       => queryBuffCap' >= size - filled]_vars

\* A client that has fallen silent behind a request gives its big buffer back, if the
\* last argument of the request was not empty (argRemaining is reset only then).
SilentReleases ==
  silent /\ argRemaining = -1 ~> queryBuffCap <= ResizeThreshold

=============================================================================
