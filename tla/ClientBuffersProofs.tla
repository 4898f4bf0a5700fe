------------------------ MODULE ClientBuffersProofs ------------------------
(***************************************************************************)
(* The two buffers of a client.  The query buffer holds what is to come of *)
(* a big argument, for all sizes of buffers and arguments.  The reply list *)
(* holds what the client has not got, however long the reply is, whatever  *)
(* the sizes of its blocks, and wherever its writes are cut.               *)
(***************************************************************************)
EXTENDS QueryBuffer, ReplyWriter, FiniteSetTheorems, SequenceTheorems,
        WellFoundedInduction, TLAPS

-----------------------------------------------------------------------------
(* The query buffer                                                        *)

TypeOK ==
  /\ queryBuffCap \in Nat \ {0} /\ queryBuffPeak \in Nat
  /\ argRemaining \in Nat \cup {-1}
  /\ rest \in Nat
  /\ size \in Nat /\ filled \in Nat

\* Why the stale argRemaining does: with what the buffer still holds it covers what the
\* argument lacks, although it is not counted down.
RemainingCovers ==
  /\ size = 0 => filled = 0
  /\ size > 0 => /\ argRemaining \in Nat
                 /\ filled < size
                 /\ size - filled <= argRemaining + rest

Inv == TypeOK /\ RemainingCovers

\* Larger and Smaller are maximum and minimum.
LEMMA LargerIsMaximum ==
  ASSUME NEW a \in Int, NEW b \in Int
  PROVE  /\ Larger(a, b) \in {a, b}
         /\ a <= Larger(a, b) /\ b <= Larger(a, b)
         /\ Smaller(a, b) \in {a, b}
         /\ Smaller(a, b) <= a /\ Smaller(a, b) <= b
BY DEF Larger, Smaller

\* A new client has the default buffer and no argument.
LEMMA InitInv == Init => Inv
BY LimitsAssumption DEF Init, Inv, TypeOK, RemainingCovers

\* A read adds to what the buffer holds of the argument.
LEMMA ReadInv ==
  ASSUME Inv, Read
  PROVE  Inv'
<1>1. Grown \in Nat \ {0}
  BY LimitsAssumption DEF Inv, TypeOK, Grown
<1>2. rest = 0 /\ rest' \in Nat /\ queryBuffCap' \in Nat \ {0}
  BY <1>1 DEF Read
<1>3. UNCHANGED <<argRemaining, size, filled>>
  BY DEF Read, parser
<1>4. queryBuffPeak' \in Nat
  <2>1. queryBuffPeak' = Larger(queryBuffPeak, rest') /\ queryBuffPeak \in Nat
    BY DEF Read, Inv, TypeOK
  <2> QED BY <1>2, <2>1 DEF Larger
<1>5. TypeOK'
  BY <1>2, <1>3, <1>4 DEF Inv, TypeOK
<1>6. RemainingCovers'
  <2>1. CASE size = 0
    BY <1>3, <2>1 DEF Inv, RemainingCovers
  <2>2. CASE size > 0
    <3>1. argRemaining \in Nat /\ size \in Nat /\ filled \in Nat
          /\ filled < size /\ size - filled <= argRemaining + rest
      BY <2>2 DEF Inv, TypeOK, RemainingCovers
    <3>2. \A r \in Nat : size - filled <= argRemaining + r
      BY <1>2, <3>1
    <3>3. size - filled <= argRemaining + rest'
      BY <1>2, <3>2
    <3> QED BY <1>3, <2>2, <3>1, <3>3 DEF RemainingCovers
  <2> QED BY <2>1, <2>2 DEF Inv, TypeOK
<1> QED BY <1>5, <1>6 DEF Inv

\* The end of a header computes argRemaining from what is in the buffer behind it.
LEMMA HeaderEndsInv ==
  ASSUME Inv, HeaderEnds
  PROVE  Inv'
<1>1. rest \in Nat \ {0} /\ rest' = rest - 1 /\ size = 0
  BY DEF HeaderEnds, Inv, TypeOK
<1>2. PICK s \in Sizes :
        \/ s = 0 /\ UNCHANGED parser
        \/ /\ s > 0
           /\ argRemaining' = Remaining(s)
           /\ size' = s /\ filled' = 0
  BY DEF HeaderEnds
<1>3. s \in Nat
  BY SizesAssumption
<1>4. CASE s = 0 /\ UNCHANGED parser
  BY <1>1, <1>4 DEF HeaderEnds, Inv, TypeOK, RemainingCovers, parser, buffer
<1>5. CASE s > 0 /\ argRemaining' = Remaining(s) /\ size' = s /\ filled' = 0
  <2>1. Remaining(s) \in Nat /\ s - (rest - 1) <= Remaining(s)
    BY <1>1, <1>3, LargerIsMaximum DEF Remaining
  <2> QED BY <1>1, <1>3, <1>5, <2>1 DEF HeaderEnds, Inv, TypeOK, RemainingCovers, buffer
<1> QED BY <1>2, <1>4, <1>5

\* A byte that leaves the buffer for the argument is missing in both.
LEMMA ArgBytesInv ==
  ASSUME Inv, ArgBytes
  PROVE  Inv'
<1> DEFINE n == Smaller(rest, size - filled)
<1>1. /\ rest \in Nat \ {0} /\ size \in Nat /\ filled \in Nat /\ argRemaining \in Nat
      /\ filled < size /\ size - filled <= argRemaining + rest
  BY DEF ArgBytes, Inv, TypeOK, RemainingCovers
<1>2. n \in Nat /\ n <= rest /\ n <= size - filled
  BY <1>1, LargerIsMaximum
<1>3. rest' = rest - n /\ UNCHANGED buffer
  BY DEF ArgBytes
<1>4. CASE filled + n < size /\ filled' = filled + n /\ UNCHANGED <<argRemaining, size>>
  BY <1>1, <1>2, <1>3, <1>4 DEF Inv, TypeOK, RemainingCovers, buffer
<1>5. CASE size' = 0 /\ filled' = 0 /\ argRemaining' \in {argRemaining, -1}
  BY <1>1, <1>2, <1>3, <1>5 DEF Inv, TypeOK, RemainingCovers, buffer
<1> QED BY <1>4, <1>5 DEF ArgBytes

\* The cron never chooses a smaller buffer than argRemaining asks for.
LEMMA ShrunkIsEnough ==
  ASSUME TypeOK
  PROVE  /\ Smaller(queryBuffCap, Shrunk) \in Nat \ {0}
         /\ Smaller(queryBuffCap, Shrunk) < queryBuffCap
              => argRemaining <= Smaller(queryBuffCap, Shrunk)
<1> DEFINE wanted == IF queryBuffPeak < ResizeThreshold THEN DefaultSize ELSE queryBuffPeak
<1>1. wanted \in Nat \ {0}
  BY LimitsAssumption DEF TypeOK
<1>2. Shrunk \in Nat \ {0} /\ argRemaining <= Shrunk
  BY <1>1, LargerIsMaximum DEF Shrunk, TypeOK
<1> QED BY <1>2, LargerIsMaximum DEF TypeOK

\* The cron touches nothing of the parser.
LEMMA CronInv ==
  ASSUME Inv, Cron
  PROVE  Inv'
<1>1. queryBuffCap' \in Nat \ {0}
  BY ShrunkIsEnough DEF Cron, Inv, TypeOK
<1> QED BY <1>1 DEF Cron, Inv, TypeOK, RemainingCovers, parser

\* Every step of the handler, the client and the cron preserves the invariant.
LEMMA NextInv ==
  ASSUME Inv, [Next]_vars
  PROVE  Inv'
<1>1. CASE HeaderByte
  BY <1>1 DEF HeaderByte, Inv, TypeOK, RemainingCovers, parser, buffer
<1>2. CASE FallsSilent
  BY <1>2 DEF FallsSilent, Inv, TypeOK, RemainingCovers, parser, buffer
<1>3. CASE UNCHANGED vars
  BY <1>3 DEF vars, Inv, TypeOK, RemainingCovers, parser, buffer
<1> QED BY <1>1, <1>2, <1>3, ReadInv, HeaderEndsInv, ArgBytesInv, CronInv DEF Next, Parse

\* At every moment argRemaining and the bytes still in the buffer are at least what the
\* argument in progress lacks.
THEOREM Invariance == Spec => []Inv
<1> QED BY InitInv, NextInv, PTL DEF Spec

\* A read, or a cron that shrinks the buffer, leaves room for what a big argument lacks.
LEMMA StepFits ==
  ASSUME Inv, [Next]_vars, size - filled > BigArg,
         Read \/ queryBuffCap' < queryBuffCap
  PROVE  queryBuffCap' >= size - filled
<1>1. argRemaining \in Nat /\ size \in Nat /\ filled \in Nat /\ queryBuffCap \in Nat
      /\ BigArg \in Nat /\ size - filled <= argRemaining + rest
  BY LimitsAssumption DEF Inv, TypeOK, RemainingCovers
<1>2. CASE Read
  BY <1>1, <1>2 DEF Read, Grown
<1>3. CASE Cron
  <2>1. queryBuffCap' < queryBuffCap
    BY <1>1, <1>3 DEF Cron, Read
  <2>2. queryBuffCap' = Smaller(queryBuffCap, Shrunk)
    BY <1>1, <1>3, <2>1 DEF Cron
  <2> QED BY <1>1, <1>3, <2>1, <2>2, ShrunkIsEnough DEF Cron, Inv, TypeOK
<1>4. CASE Parse \/ FallsSilent \/ UNCHANGED vars
  BY <1>1, <1>2, <1>4 DEF Parse, HeaderByte, HeaderEnds, ArgBytes, FallsSilent, vars, buffer
<1> QED BY <1>2, <1>3, <1>4 DEF Next

\* However the bytes of a big argument are cut into reads, the rest of it can come in
\* with one read, and the cron takes no such buffer away.
THEOREM BigArgumentFits == Spec => RestFits
<1>1. Inv /\ [Next]_vars
        => [size - filled > BigArg /\ (Read \/ queryBuffCap' < queryBuffCap)
              => queryBuffCap' >= size - filled]_vars
  BY StepFits
<1> QED BY <1>1, Invariance, PTL DEF Spec, RestFits

-----------------------------------------------------------------------------
(* The reply list                                                          *)

\* RchkReplyBlock: its bytes are in a chunk, from an offset on.
Block == [bytes : [chunk : Nat, offset : Nat], size : Nat, next : Address \cup {NULL}]

\* The blocks appended since the list was empty, those that a write skipped among them.
Listed == {b \in DOMAIN block : reply # NULL /\ reply <= b}

ReplyTypeOK ==
  /\ at \in {"read", "write", "closed", "aborted", "killed"}
  /\ appended \in 0 .. MaxBlocks /\ produced \in Nat /\ received \in Seq(Nat)
  /\ DOMAIN block \subseteq 1 .. appended /\ block \in [DOMAIN block -> Block]
  /\ DOMAIN data \subseteq 1 .. appended /\ data \in [DOMAIN data -> Seq(Nat)]
  /\ reply \in DOMAIN block \cup {NULL}
  /\ cut \in BOOLEAN /\ orphans \in Nat

\* A list is in the order in which its blocks were appended: every walk along it ends.
Ascending == \A b \in DOMAIN block : block[b].next # NULL => b < block[b].next

\* The list leads to allocated blocks only, and these to allocated bytes only.
Sound ==
  \A b \in Listed :
    /\ block[b].next \in Listed \cup {NULL}
    /\ block[b].bytes.chunk \in DOMAIN data
    /\ block[b].bytes.offset + block[b].size <= Len(data[block[b].bytes.chunk])

\* Until a write is cut, the list is what rchkAppendToReply made of it: all blocks in
\* order, each with bytes of its own from their first one on.
Whole ==
  reply # NULL =>
    /\ replyTail = appended
    /\ \A b \in reply .. appended :
         /\ b \in DOMAIN block /\ b \in DOMAIN data
         /\ block[b].bytes = [chunk |-> b, offset |-> 0]
         /\ block[b].next = IF b = appended THEN NULL ELSE b + 1

\* What is allocated is the list.
NothingElse ==
  DOMAIN block = Listed /\ DOMAIN data = Listed

\* The read handler finds a whole list always, as the write handler leaves none behind;
\* of a list that was cut nothing but its bytes is known.
ReplyInv ==
  /\ ReplyTypeOK /\ Ascending /\ Sound
  /\ at = "write" => replyRemaining = reply
  /\ at = "read" \/ ~cut => Whole
  /\ ~cut => NothingElse
  /\ NotYetWritten

-----------------------------------------------------------------------------
(* Induction down the addresses, which grow along a list                   *)

\* A set of addresses that contains an address as soon as it contains all later ones
\* contains all.
LEMMA Downward ==
  ASSUME NEW P \in SUBSET Address,
         \A b \in Address : (\A c \in Address : b < c => c \in P) => b \in P
  PROVE  P = Address
<1> DEFINE From(b) == b .. MaxBlocks
           F == {From(b) : b \in Address \ P}
<1> SUFFICES ASSUME Address \ P # {}
             PROVE  FALSE
  OBVIOUS
<1>0. MaxBlocks \in Nat /\ Address \subseteq Nat
  BY SizesAreNumbers DEF Address
<1>1. F \subseteq FiniteSubsetsOf(Nat) /\ F # {}
  <2>1. ASSUME NEW b \in Address PROVE From(b) \in SUBSET Nat /\ IsFiniteSet(From(b))
    BY <1>0, FS_Interval
  <2> HIDE DEF From
  <2> QED BY <2>1 DEF FiniteSubsetsOf
<1>2. IsWellFoundedOn(StrictSubsetOrdering(Nat), FiniteSubsetsOf(Nat))
  BY FS_StrictSubsetOrderingWellFounded
<1>3. \E A \in F : \A B \in F : <<B, A>> \notin StrictSubsetOrdering(Nat)
  <2> HIDE DEF F
  <2> QED BY <1>1, <1>2, WFMin
<1>4. PICK b \in Address \ P :
        \A c \in Address \ P : <<From(c), From(b)>> \notin StrictSubsetOrdering(Nat)
  BY <1>3
<1>5. ASSUME NEW c \in Address \ P, b < c PROVE FALSE
  <2>1. b \in Nat /\ c \in Nat /\ b <= MaxBlocks
    BY <1>0 DEF Address
  <2>2. From(c) \subseteq From(b) /\ From(c) # From(b)
    <3>1. b \in From(b) /\ b \notin From(c)
      BY <1>0, <1>5, <2>1
    <3>2. \A i \in Nat : c <= i => b <= i
      BY <1>5, <2>1
    <3>3. From(c) \subseteq From(b)
      BY <1>0, <2>1, <3>2
    <3> QED BY <3>1, <3>3
  <2>3. From(c) \in SUBSET Nat /\ From(b) \in SUBSET Nat
    BY <1>0, <2>1
  <2> HIDE DEF From
  <2> QED BY <1>4, <2>2, <2>3 DEF StrictSubsetOrdering
<1> QED BY <1>5

\* Addresses grow along a list.
LEMMA NextIsLater ==
  ReplyTypeOK /\ Ascending =>
    \A b \in Address : NextOf(b) = NULL \/ (NextOf(b) \in Address /\ b < NextOf(b))
BY DEF ReplyTypeOK, Ascending, NextOf, Block, Address

\* So a recursion along the list has a solution: BlocksFrom, BytesFrom and the walk of
\* FirstUnwritten are not whatever CHOOSE makes of nothing.
LEMMA BlocksExist ==
  ASSUME ReplyTypeOK, Ascending
  PROVE  \E f : f = [c \in Address \cup {NULL} |-> IF c = NULL THEN {} ELSE {c} \cup f[NextOf(c)]]
<1> DEFINE Step(f, c) == {c} \cup f[NextOf(c)]
           Solves(f, b) == f[NULL] = {} /\ \A c \in Address : b <= c => f[c] = Step(f, c)
           P == {b \in Address : \E f : Solves(f, b)}
<1>0. MaxBlocks \in Nat /\ Address = 1 .. MaxBlocks /\ NULL \notin Address
  BY SizesAreNumbers, NullIsNoAddress DEF Address
<1>1. P = Address
  <2>1. ASSUME NEW b \in Address, \A c \in Address : b < c => c \in P
        PROVE  b \in P
    <3>1. PICK f : f[NULL] = {} /\ \A c \in Address : b < c => f[c] = Step(f, c)
      <4>1. CASE b + 1 \in Address
        <5>1. b + 1 \in P
          <6> HIDE DEF P
          <6> QED BY <1>0, <2>1, <4>1
        <5>2. PICK f : Solves(f, b + 1)
          BY <5>1
        <5>3. \A c \in Address : b < c => b + 1 <= c
          BY <1>0
        <5> HIDE DEF Step
        <5> QED BY <5>2, <5>3
      <4>2. CASE b + 1 \notin Address
        <5> DEFINE g == [c \in {NULL} |-> {}]
        <5>1. g[NULL] = {} /\ \A c \in Address : ~(b < c)
          BY <1>0, <4>2
        <5> QED BY <5>1
      <4> QED BY <4>1, <4>2
    <3> DEFINE g == [c \in Address \cup {NULL} |-> IF c = b THEN {b} \cup f[NextOf(b)] ELSE f[c]]
    <3>2. g[NULL] = {}
      BY <1>0, <3>1
    <3>3. ASSUME NEW c \in Address, b <= c
          PROVE  g[NextOf(c)] = f[NextOf(c)]
      <4>1. NextOf(c) = NULL \/ (NextOf(c) \in Address /\ c < NextOf(c))
        BY NextIsLater
      <4> QED BY <1>0, <3>3, <4>1
    <3>4. ASSUME NEW c \in Address, b <= c
          PROVE  g[c] = Step(g, c)
      <4>1. CASE c = b
        <5>1. g[c] = {c} \cup f[NextOf(c)]
          BY <4>1
        <5> QED BY <3>3, <3>4, <5>1
      <4>2. CASE c # b
        <5>1. b < c /\ g[c] = f[c]
          BY <1>0, <3>4, <4>2
        <5> QED BY <3>1, <3>3, <3>4, <5>1
      <4> QED BY <4>1, <4>2
    <3> HIDE DEF g
    <3>5. Solves(g, b)
      BY <3>2, <3>4
    <3> QED BY <3>5
  <2>2. P \in SUBSET Address
    OBVIOUS
  <2> HIDE DEF P
  <2> QED BY <2>1, <2>2, Downward
<1>2. \E f : f[NULL] = {} /\ \A c \in Address : f[c] = Step(f, c)
  <2>1. CASE 1 \in Address
    <3>1. PICK f : Solves(f, 1)
      BY <1>1, <2>1
    <3> QED BY <1>0, <3>1
  <2>2. CASE 1 \notin Address
    <3> DEFINE g == [c \in {NULL} |-> {}]
    <3>1. g[NULL] = {} /\ Address = {}
      BY <1>0, <2>2
    <3> QED BY <3>1
  <2> QED BY <2>1, <2>2
<1>3. PICK f : f[NULL] = {} /\ \A c \in Address : f[c] = Step(f, c)
  BY <1>2
<1> DEFINE g == [c \in Address \cup {NULL} |-> f[c]]
<1>4. ASSUME NEW c \in Address PROVE g[NextOf(c)] = f[NextOf(c)]
  BY NextIsLater
<1>5. g = [c \in Address \cup {NULL} |-> IF c = NULL THEN {} ELSE {c} \cup g[NextOf(c)]]
  BY <1>0, <1>3, <1>4
<1> QED BY <1>5

\* The same for the bytes.
LEMMA BytesExist ==
  ASSUME ReplyTypeOK, Ascending
  PROVE  \E f : f = [c \in Address \cup {NULL} |->
                       IF c = NULL THEN <<>> ELSE BytesOf(c) \o f[NextOf(c)]]
<1> DEFINE Step(f, c) == BytesOf(c) \o f[NextOf(c)]
           Solves(f, b) == f[NULL] = <<>> /\ \A c \in Address : b <= c => f[c] = Step(f, c)
           P == {b \in Address : \E f : Solves(f, b)}
<1>0. MaxBlocks \in Nat /\ Address = 1 .. MaxBlocks /\ NULL \notin Address
  BY SizesAreNumbers, NullIsNoAddress DEF Address
<1>1. P = Address
  <2>1. ASSUME NEW b \in Address, \A c \in Address : b < c => c \in P
        PROVE  b \in P
    <3>1. PICK f : f[NULL] = <<>> /\ \A c \in Address : b < c => f[c] = Step(f, c)
      <4>1. CASE b + 1 \in Address
        <5>1. b + 1 \in P
          <6> HIDE DEF P
          <6> QED BY <1>0, <2>1, <4>1
        <5>2. PICK f : Solves(f, b + 1)
          BY <5>1
        <5>3. \A c \in Address : b < c => b + 1 <= c
          BY <1>0
        <5> HIDE DEF Step
        <5> QED BY <5>2, <5>3
      <4>2. CASE b + 1 \notin Address
        <5> DEFINE g == [c \in {NULL} |-> <<>>]
        <5>1. g[NULL] = <<>> /\ \A c \in Address : ~(b < c)
          BY <1>0, <4>2
        <5> QED BY <5>1
      <4> QED BY <4>1, <4>2
    <3> DEFINE g == [c \in Address \cup {NULL} |->
                       IF c = b THEN BytesOf(b) \o f[NextOf(b)] ELSE f[c]]
    <3>2. g[NULL] = <<>>
      BY <1>0, <3>1
    <3>3. ASSUME NEW c \in Address, b <= c
          PROVE  g[NextOf(c)] = f[NextOf(c)]
      <4>1. NextOf(c) = NULL \/ (NextOf(c) \in Address /\ c < NextOf(c))
        BY NextIsLater
      <4> QED BY <1>0, <3>3, <4>1
    <3>4. ASSUME NEW c \in Address, b <= c
          PROVE  g[c] = Step(g, c)
      <4>1. CASE c = b
        <5>1. g[c] = BytesOf(c) \o f[NextOf(c)]
          BY <4>1
        <5> QED BY <3>3, <3>4, <5>1
      <4>2. CASE c # b
        <5>1. b < c /\ g[c] = f[c]
          BY <1>0, <3>4, <4>2
        <5> QED BY <3>1, <3>3, <3>4, <5>1
      <4> QED BY <4>1, <4>2
    <3> HIDE DEF g
    <3>5. Solves(g, b)
      BY <3>2, <3>4
    <3> QED BY <3>5
  <2>2. P \in SUBSET Address
    OBVIOUS
  <2> HIDE DEF P
  <2> QED BY <2>1, <2>2, Downward
<1>2. \E f : f[NULL] = <<>> /\ \A c \in Address : f[c] = Step(f, c)
  <2>1. CASE 1 \in Address
    <3>1. PICK f : Solves(f, 1)
      BY <1>1, <2>1
    <3> QED BY <1>0, <3>1
  <2>2. CASE 1 \notin Address
    <3> DEFINE g == [c \in {NULL} |-> <<>>]
    <3>1. g[NULL] = <<>> /\ Address = {}
      BY <1>0, <2>2
    <3> QED BY <3>1
  <2> QED BY <2>1, <2>2
<1>3. PICK f : f[NULL] = <<>> /\ \A c \in Address : f[c] = Step(f, c)
  BY <1>2
<1> DEFINE g == [c \in Address \cup {NULL} |-> f[c]]
<1>4. ASSUME NEW c \in Address PROVE g[NextOf(c)] = f[NextOf(c)]
  BY NextIsLater
<1>5. g = [c \in Address \cup {NULL} |-> IF c = NULL THEN <<>> ELSE BytesOf(c) \o g[NextOf(c)]]
  BY <1>0, <1>3, <1>4
<1> QED BY <1>5

-----------------------------------------------------------------------------
(* What is in a list                                                       *)

\* The equations that define BlocksFrom ...
LEMMA BlocksUnfold ==
  ReplyTypeOK /\ Ascending =>
    /\ BlocksFrom(NULL) = {}
    /\ \A b \in Address : BlocksFrom(b) = {b} \cup BlocksFrom(NextOf(b))
<1> SUFFICES ASSUME ReplyTypeOK, Ascending
             PROVE  /\ BlocksFrom(NULL) = {}
                    /\ \A b \in Address : BlocksFrom(b) = {b} \cup BlocksFrom(NextOf(b))
  OBVIOUS
<1> DEFINE IsFrom(f) == f = [c \in Address \cup {NULL} |->
                               IF c = NULL THEN {} ELSE {c} \cup f[NextOf(c)]]
           from == CHOOSE f : IsFrom(f)
<1>1. IsFrom(from)
  <2>1. \E f : IsFrom(f)
    BY BlocksExist
  <2> HIDE DEF IsFrom
  <2> QED BY <2>1
<1>2. \A b : BlocksFrom(b) = from[b]
  BY DEF BlocksFrom
<1>3. NULL \notin Address
  BY NullIsNoAddress, SizesAreNumbers DEF Address
<1> HIDE DEF from
<1> QED BY <1>1, <1>2, <1>3

\* ... and BytesFrom.
LEMMA BytesUnfold ==
  ReplyTypeOK /\ Ascending =>
    /\ BytesFrom(NULL) = <<>>
    /\ \A b \in Address : BytesFrom(b) = BytesOf(b) \o BytesFrom(NextOf(b))
<1> SUFFICES ASSUME ReplyTypeOK, Ascending
             PROVE  /\ BytesFrom(NULL) = <<>>
                    /\ \A b \in Address : BytesFrom(b) = BytesOf(b) \o BytesFrom(NextOf(b))
  OBVIOUS
<1> DEFINE IsFrom(f) == f = [c \in Address \cup {NULL} |->
                               IF c = NULL THEN <<>> ELSE BytesOf(c) \o f[NextOf(c)]]
           from == CHOOSE f : IsFrom(f)
<1>1. IsFrom(from)
  <2>1. \E f : IsFrom(f)
    BY BytesExist
  <2> HIDE DEF IsFrom
  <2> QED BY <2>1
<1>2. \A b : BytesFrom(b) = from[b]
  BY DEF BytesFrom
<1>3. NULL \notin Address
  BY NullIsNoAddress, SizesAreNumbers DEF Address
<1> HIDE DEF from
<1> QED BY <1>1, <1>2, <1>3

\* The list is made of allocated blocks.
LEMMA ListedIsAddress ==
  ReplyTypeOK => Listed \subseteq Address /\ Listed \subseteq DOMAIN block
BY SizesAreNumbers DEF ReplyTypeOK, Listed, Address

\* The bytes of a block lie in its chunk, from its offset on.
LEMMA BytesOfBlock ==
  ReplyTypeOK /\ Sound =>
    \A b \in Listed :
      /\ BytesOf(b) \in Seq(Nat) /\ Len(BytesOf(b)) = block[b].size
      /\ \A i \in 1 .. block[b].size :
           BytesOf(b)[i] = data[block[b].bytes.chunk][block[b].bytes.offset + i]
<1> SUFFICES ASSUME ReplyTypeOK, Sound, NEW b \in Listed
             PROVE  /\ BytesOf(b) \in Seq(Nat) /\ Len(BytesOf(b)) = block[b].size
                    /\ \A i \in 1 .. block[b].size :
                         BytesOf(b)[i] = data[block[b].bytes.chunk][block[b].bytes.offset + i]
  OBVIOUS
<1> DEFINE o == block[b].bytes.offset
           n == block[b].size
           s == data[block[b].bytes.chunk]
<1>1. o \in Nat /\ n \in Nat
  <2>1. block[b] \in Block
    BY ListedIsAddress DEF ReplyTypeOK
  <2> QED BY <2>1 DEF Block
<1>2. s \in Seq(Nat) /\ o + n <= Len(s)
  BY DEF ReplyTypeOK, Sound
<1>3. BytesOf(b) = SubSeq(s, o + 1, o + n)
  BY DEF BytesOf
<1> HIDE DEF o, n, s
<1>4. \A i \in o + 1 .. o + n : s[i] \in Nat
  <2>1. ASSUME NEW i \in o + 1 .. o + n PROVE i \in 1 .. Len(s)
    BY <1>1, <1>2
  <2> QED BY <1>2, <2>1, ElementOfSeq
<1>5. /\ SubSeq(s, o + 1, o + n) \in Seq(Nat)
      /\ Len(SubSeq(s, o + 1, o + n)) = IF o + 1 <= o + n THEN (o + n) - (o + 1) + 1 ELSE 0
      /\ \A i \in 1 .. (o + n) - (o + 1) + 1 : SubSeq(s, o + 1, o + n)[i] = s[(o + 1) + i - 1]
  <2>1. o + 1 \in Int /\ o + n \in Int
    BY <1>1
  <2> QED BY <1>4, <2>1, SubSeqProperties
<1>6. BytesOf(b) \in Seq(Nat) /\ Len(BytesOf(b)) = n
      /\ \A i \in 1 .. n : BytesOf(b)[i] = s[o + i]
  <2>1. ASSUME NEW i \in 1 .. n
        PROVE  i \in 1 .. (o + n) - (o + 1) + 1 /\ (o + 1) + i - 1 = o + i
    BY <1>1
  <2>2. Len(SubSeq(s, o + 1, o + n)) = n
    <3>1. n = 0 \/ o + 1 <= o + n
      BY <1>1
    <3> QED BY <1>1, <1>5, <3>1
  <2>3. ASSUME NEW i \in 1 .. n
        PROVE  SubSeq(s, o + 1, o + n)[i] = s[o + i]
    BY <1>5, <2>1
  <2> QED BY <1>3, <1>5, <2>2, <2>3
<1> QED BY <1>6 DEF o, n, s

\* All bytes of a list are numbers.
LEMMA BytesAreNumbers ==
  ReplyTypeOK /\ Ascending /\ Sound =>
    \A b \in Listed \cup {NULL} : BytesFrom(b) \in Seq(Nat)
<1> SUFFICES ASSUME ReplyTypeOK, Ascending, Sound
             PROVE  \A b \in Listed \cup {NULL} : BytesFrom(b) \in Seq(Nat)
  OBVIOUS
<1> DEFINE P == {b \in Address : b \in Listed => BytesFrom(b) \in Seq(Nat)}
<1>1. ASSUME NEW b \in Address, \A c \in Address : b < c => c \in P
      PROVE  b \in P
  <2> SUFFICES ASSUME b \in Listed
               PROVE  BytesFrom(b) \in Seq(Nat)
    OBVIOUS
  <2>1. NextOf(b) = NULL \/ (NextOf(b) \in Listed /\ NextOf(b) \in Address /\ b < NextOf(b))
    BY ListedIsAddress, NextIsLater DEF Sound, NextOf
  <2>2. CASE NextOf(b) = NULL
    <3>1. <<>> \in Seq(Nat)
      OBVIOUS
    <3> QED BY <2>2, <3>1, BytesUnfold, BytesOfBlock, ConcatProperties
  <2>3. CASE NextOf(b) # NULL
    <3>1. NextOf(b) \in P
      <4> HIDE DEF P
      <4> QED BY <1>1, <2>1, <2>3
    <3>2. BytesFrom(NextOf(b)) \in Seq(Nat)
      BY <2>1, <2>3, <3>1
    <3> QED BY <3>2, BytesUnfold, BytesOfBlock, ConcatProperties
  <2> QED BY <2>2, <2>3
<1>2. P \in SUBSET Address
  OBVIOUS
<1>3. P = Address
  <2> HIDE DEF P
  <2> QED BY <1>1, <1>2, Downward
<1>4. BytesFrom(NULL) \in Seq(Nat)
  <2>1. <<>> \in Seq(Nat)
    OBVIOUS
  <2> QED BY <2>1, BytesUnfold
<1>5. ASSUME NEW b \in Listed PROVE BytesFrom(b) \in Seq(Nat)
  BY <1>3, ListedIsAddress
<1> QED BY <1>4, <1>5

\* The same after a step.
LEMMA BytesUnfoldAfter ==
  ASSUME ReplyTypeOK', Ascending'
  PROVE  /\ BytesFrom(NULL)' = <<>>
         /\ \A b \in Address : BytesFrom(b)' = BytesOf(b)' \o BytesFrom(NextOf(b))'
<1>1. (BytesFrom(NULL) = <<>>)'
  BY BytesUnfold, PTL
<1>2. (\A b \in Address : BytesFrom(b) = BytesOf(b) \o BytesFrom(NextOf(b)))'
  BY BytesUnfold, PTL
<1> QED BY <1>1, <1>2

-----------------------------------------------------------------------------
(* Where a write was cut                                                   *)

Drop(s, n) == SubSeq(s, n + 1, Len(s))

\* What dropping the first n elements leaves.
LEMMA DropIs ==
  ASSUME NEW s \in Seq(Nat), NEW n \in 0 .. Len(s)
  PROVE  /\ Drop(s, n) \in Seq(Nat) /\ Len(Drop(s, n)) = Len(s) - n
         /\ \A i \in 1 .. Len(s) - n : Drop(s, n)[i] = s[n + i]
<1>1. /\ n + 1 \in Int /\ Len(s) \in Int
      /\ \A i \in n + 1 .. Len(s) : s[i] \in Nat
  OBVIOUS
<1>2. /\ Drop(s, n) \in Seq(Nat)
      /\ Len(Drop(s, n)) = IF n + 1 <= Len(s) THEN Len(s) - (n + 1) + 1 ELSE 0
      /\ \A i \in 1 .. Len(s) - (n + 1) + 1 : Drop(s, n)[i] = s[(n + 1) + i - 1]
  BY <1>1, SubSeqProperties DEF Drop
<1>3. Len(Drop(s, n)) = Len(s) - n
  BY <1>2
<1>4. ASSUME NEW i \in 1 .. Len(s) - n
      PROVE  Drop(s, n)[i] = s[n + i]
  <2>1. i \in 1 .. Len(s) - (n + 1) + 1 /\ (n + 1) + i - 1 = n + i
    OBVIOUS
  <2> QED BY <1>2, <2>1
<1> QED BY <1>2, <1>3, <1>4

\* The first block of a list either contains the cut, or is dropped whole.
LEMMA DropOfConcat ==
  ASSUME NEW s \in Seq(Nat), NEW t \in Seq(Nat), NEW n \in 0 .. Len(s \o t)
  PROVE  /\ n < Len(s) => Drop(s \o t, n) = Drop(s, n) \o t
         /\ n >= Len(s) => n - Len(s) \in 0 .. Len(t) /\ Drop(s \o t, n) = Drop(t, n - Len(s))
<1>1. /\ s \o t \in Seq(Nat) /\ Len(s \o t) = Len(s) + Len(t)
      /\ \A i \in 1 .. Len(s) + Len(t) :
           (s \o t)[i] = IF i <= Len(s) THEN s[i] ELSE t[i - Len(s)]
  BY ConcatProperties
<1>2. /\ Drop(s \o t, n) \in Seq(Nat) /\ Len(Drop(s \o t, n)) = Len(s) + Len(t) - n
      /\ \A i \in 1 .. Len(s) + Len(t) - n : Drop(s \o t, n)[i] = (s \o t)[n + i]
  <2>1. /\ Drop(s \o t, n) \in Seq(Nat) /\ Len(Drop(s \o t, n)) = Len(s \o t) - n
        /\ \A i \in 1 .. Len(s \o t) - n : Drop(s \o t, n)[i] = (s \o t)[n + i]
    BY <1>1, DropIs
  <2> QED BY <1>1, <2>1
<1>3. ASSUME n < Len(s)
      PROVE  Drop(s \o t, n) = Drop(s, n) \o t
  <2>1. /\ Drop(s, n) \in Seq(Nat) /\ Len(Drop(s, n)) = Len(s) - n
        /\ \A i \in 1 .. Len(s) - n : Drop(s, n)[i] = s[n + i]
    <3>1. n \in 0 .. Len(s)
      BY <1>3
    <3> QED BY <3>1, DropIs
  <2>2. /\ Drop(s, n) \o t \in Seq(Nat) /\ Len(Drop(s, n) \o t) = Len(s) - n + Len(t)
        /\ \A i \in 1 .. Len(s) - n + Len(t) :
             (Drop(s, n) \o t)[i] = IF i <= Len(s) - n THEN Drop(s, n)[i] ELSE t[i - (Len(s) - n)]
    <3> DEFINE d == Drop(s, n)
    <3>1. /\ d \o t \in Seq(Nat) /\ Len(d \o t) = Len(d) + Len(t)
          /\ \A i \in 1 .. Len(d) + Len(t) :
               (d \o t)[i] = IF i <= Len(d) THEN d[i] ELSE t[i - Len(d)]
      BY <2>1, ConcatProperties
    <3>2. Len(d) = Len(s) - n
      BY <2>1
    <3> HIDE DEF d
    <3>3. /\ d \o t \in Seq(Nat) /\ Len(d \o t) = Len(s) - n + Len(t)
          /\ \A i \in 1 .. Len(s) - n + Len(t) :
               (d \o t)[i] = IF i <= Len(s) - n THEN d[i] ELSE t[i - (Len(s) - n)]
      BY <3>1, <3>2
    <3> QED BY <3>3 DEF d
  <2>3. ASSUME NEW i \in 1 .. Len(s) + Len(t) - n
        PROVE  Drop(s \o t, n)[i] = (Drop(s, n) \o t)[i]
    <3>1. i \in 1 .. Len(s) - n + Len(t) /\ n + i \in 1 .. Len(s) + Len(t)
          /\ Drop(s \o t, n)[i] = (s \o t)[n + i]
      BY <1>2
    <3>2. CASE i <= Len(s) - n
      <4>1. n + i <= Len(s) /\ i \in 1 .. Len(s) - n
        BY <3>2
      <4> QED BY <1>1, <2>1, <2>2, <3>1, <3>2, <4>1
    <3>3. CASE ~(i <= Len(s) - n)
      <4>1. ~(n + i <= Len(s)) /\ (n + i) - Len(s) = i - (Len(s) - n)
        BY <3>3
      <4>2. (s \o t)[n + i] = t[(n + i) - Len(s)]
        BY <1>1, <3>1, <4>1
      <4>3. (Drop(s, n) \o t)[i] = t[i - (Len(s) - n)]
        BY <2>2, <3>1, <3>3
      <4> QED BY <3>1, <4>1, <4>2, <4>3
    <3> QED BY <3>2, <3>3
  <2>4. Len(Drop(s \o t, n)) = Len(Drop(s, n) \o t)
    BY <1>2, <2>2
  <2> QED BY <1>2, <2>2, <2>3, <2>4, SeqEqual
<1>4. ASSUME n >= Len(s)
      PROVE  n - Len(s) \in 0 .. Len(t) /\ Drop(s \o t, n) = Drop(t, n - Len(s))
  <2>1. n - Len(s) \in 0 .. Len(t) /\ Len(t) - (n - Len(s)) = Len(s) + Len(t) - n
    BY <1>1, <1>4
  <2>2. /\ Drop(t, n - Len(s)) \in Seq(Nat)
        /\ Len(Drop(t, n - Len(s))) = Len(s) + Len(t) - n
        /\ \A i \in 1 .. Len(s) + Len(t) - n : Drop(t, n - Len(s))[i] = t[(n - Len(s)) + i]
    <3>1. /\ Drop(t, n - Len(s)) \in Seq(Nat)
          /\ Len(Drop(t, n - Len(s))) = Len(t) - (n - Len(s))
          /\ \A i \in 1 .. Len(t) - (n - Len(s)) : Drop(t, n - Len(s))[i] = t[(n - Len(s)) + i]
      BY <2>1, DropIs
    <3> QED BY <2>1, <3>1
  <2>3. ASSUME NEW i \in 1 .. Len(s) + Len(t) - n
        PROVE  Drop(s \o t, n)[i] = Drop(t, n - Len(s))[i]
    <3>1. n + i \in 1 .. Len(s) + Len(t) /\ ~(n + i <= Len(s))
          /\ (n + i) - Len(s) = (n - Len(s)) + i
      BY <1>4
    <3>2. (s \o t)[n + i] = t[(n + i) - Len(s)]
      BY <1>1, <3>1
    <3> QED BY <1>2, <2>2, <3>1, <3>2
  <2> QED BY <1>2, <2>1, <2>2, <2>3, SeqEqual
<1> QED BY <1>3, <1>4

\* What is taken and what is dropped make up the whole.
LEMMA TakeAndDrop ==
  ASSUME NEW s \in Seq(Nat), NEW n \in 0 .. Len(s)
  PROVE  SubSeq(s, 1, n) \in Seq(Nat) /\ SubSeq(s, 1, n) \o Drop(s, n) = s
<1>1. SubSeq(s, 1, n) \o SubSeq(s, n + 1, Len(s)) = SubSeq(s, 1, Len(s))
  <2>1. 1 \in 1 .. Len(s) + 1 /\ n \in 1 - 1 .. Len(s) /\ Len(s) \in n .. Len(s)
    OBVIOUS
  <2> QED BY <2>1, ConcatAdjacentSubSeq
<1>2. SubSeq(s, 1, Len(s)) = s
  BY SubSeqFull
<1>3. SubSeq(s, 1, n) \in Seq(Nat)
  BY SubSeqProperties
<1> QED BY <1>1, <1>2, <1>3 DEF Drop

\* The loop of the write handler, as FirstUnwritten has it.
IsWalk(f, n) ==
  f = [b \in Address \cup {NULL} |->
         [written \in 0 .. n |->
            IF b \notin DOMAIN block \/ written < block[b].size
            THEN [block |-> b, written |-> written]
            ELSE f[NextOf(b)][written - block[b].size]]]

\* It has a solution too, by the same induction.
LEMMA WalkExists ==
  ASSUME ReplyTypeOK, Ascending, NEW n \in Nat
  PROVE  \E f : IsWalk(f, n)
<1> DEFINE Step(f, c) ==
             [w \in 0 .. n |->
                IF c \notin DOMAIN block \/ w < block[c].size
                THEN [block |-> c, written |-> w]
                ELSE f[NextOf(c)][w - block[c].size]]
           End == [w \in 0 .. n |-> [block |-> NULL, written |-> w]]
           Solves(f, b) == f[NULL] = End /\ \A c \in Address : b <= c => f[c] = Step(f, c)
           P == {b \in Address : \E f : Solves(f, b)}
<1>0. MaxBlocks \in Nat /\ Address = 1 .. MaxBlocks /\ NULL \notin Address
  BY SizesAreNumbers, NullIsNoAddress DEF Address
<1>a. ASSUME NEW f, NEW g, NEW c, f[NextOf(c)] = g[NextOf(c)]
      PROVE  Step(f, c) = Step(g, c)
  BY <1>a
<1> HIDE DEF Step, End
<1>1. P = Address
  <2>1. ASSUME NEW b \in Address, \A c \in Address : b < c => c \in P
        PROVE  b \in P
    <3>1. PICK f : f[NULL] = End /\ \A c \in Address : b < c => f[c] = Step(f, c)
      <4>1. CASE b + 1 \in Address
        <5>1. b + 1 \in P
          <6> HIDE DEF P
          <6> QED BY <1>0, <2>1, <4>1
        <5>2. PICK f : Solves(f, b + 1)
          BY <5>1
        <5>3. \A c \in Address : b < c => b + 1 <= c
          BY <1>0
        <5> HIDE DEF Step
        <5> QED BY <5>2, <5>3
      <4>2. CASE b + 1 \notin Address
        <5> DEFINE g == [c \in {NULL} |-> End]
        <5>1. g[NULL] = End /\ \A c \in Address : ~(b < c)
          BY <1>0, <4>2
        <5> QED BY <5>1
      <4> QED BY <4>1, <4>2
    <3> DEFINE g == [c \in Address \cup {NULL} |-> IF c = b THEN Step(f, b) ELSE f[c]]
    <3>2. g[NULL] = End
      BY <1>0, <3>1
    <3>3. ASSUME NEW c \in Address, b <= c
          PROVE  g[NextOf(c)] = f[NextOf(c)]
      <4>1. NextOf(c) = NULL \/ (NextOf(c) \in Address /\ c < NextOf(c))
        BY NextIsLater
      <4> QED BY <1>0, <3>3, <4>1
    <3>4. ASSUME NEW c \in Address, b <= c
          PROVE  g[c] = Step(g, c)
      <4>1. CASE c = b
        <5>1. g[c] = Step(f, c)
          BY <4>1
        <5>2. Step(g, c) = Step(f, c)
          BY <1>a, <3>3, <3>4
        <5> QED BY <5>1, <5>2
      <4>2. CASE c # b
        <5>1. b < c /\ g[c] = f[c]
          BY <1>0, <3>4, <4>2
        <5>2. Step(g, c) = Step(f, c)
          BY <1>a, <3>3, <3>4
        <5> QED BY <3>1, <5>1, <5>2
      <4> QED BY <4>1, <4>2
    <3> HIDE DEF g
    <3>5. Solves(g, b)
      BY <3>2, <3>4
    <3> QED BY <3>5
  <2>2. P \in SUBSET Address
    OBVIOUS
  <2> HIDE DEF P
  <2> QED BY <2>1, <2>2, Downward
<1>2. \E f : f[NULL] = End /\ \A c \in Address : f[c] = Step(f, c)
  <2>1. CASE 1 \in Address
    <3>1. PICK f : Solves(f, 1)
      BY <1>1, <2>1
    <3> QED BY <1>0, <3>1
  <2>2. CASE 1 \notin Address
    <3> DEFINE g == [c \in {NULL} |-> End]
    <3>1. g[NULL] = End /\ Address = {}
      BY <1>0, <2>2
    <3> QED BY <3>1
  <2> QED BY <2>1, <2>2
<1>3. PICK f : f[NULL] = End /\ \A c \in Address : f[c] = Step(f, c)
  BY <1>2
<1> DEFINE g == [c \in Address \cup {NULL} |-> f[c]]
<1>4. ASSUME NEW c \in Address PROVE g[NextOf(c)] = f[NextOf(c)]
  BY NextIsLater
<1>5. ASSUME NEW c \in Address PROVE g[c] = Step(g, c)
  <2>1. g[c] = f[c] /\ f[c] = Step(f, c)
    BY <1>3
  <2> HIDE DEF g
  <2> QED BY <1>a, <1>4, <2>1
<1>6. g[NULL] = End
  BY <1>3
<1>7. g = [c \in Address \cup {NULL} |-> g[c]]
  OBVIOUS
<1>8. ASSUME NEW c \in Address \cup {NULL}
      PROVE  g[c] = [w \in 0 .. n |->
                       IF c \notin DOMAIN block \/ w < block[c].size
                       THEN [block |-> c, written |-> w]
                       ELSE g[NextOf(c)][w - block[c].size]]
  <2> HIDE DEF g
  <2>1. CASE c = NULL
    <3>1. NULL \notin DOMAIN block
      BY <1>0, NullIsNoAddress DEF ReplyTypeOK
    <3> QED BY <1>6, <2>1, <3>1 DEF End
  <2>2. CASE c # NULL
    BY <1>5, <2>2 DEF Step
  <2> QED BY <2>1, <2>2
<1> HIDE DEF g
<1>9. IsWalk(g, n)
  BY <1>7, <1>8, Zenon DEF IsWalk
<1> QED BY <1>9

\* FirstUnwritten is the walk from the head with all n bytes.
LEMMA FirstUnwrittenIsWalked ==
  ASSUME ReplyTypeOK, Ascending, NEW n \in Nat
  PROVE  \E f : IsWalk(f, n) /\ FirstUnwritten(n) = f[replyRemaining][n]
<1> DEFINE f == CHOOSE g : IsWalk(g, n)
<1>1. IsWalk(f, n)
  <2>1. \E g : IsWalk(g, n)
    BY WalkExists
  <2> QED BY <2>1
<1>2. FirstUnwritten(n) = f[replyRemaining][n]
  BY Zenon DEF FirstUnwritten, IsWalk
<1> QED BY <1>1, <1>2

\* The block at which the loop stops has bytes that were not written, and they are
\* what comes after the first w bytes of the list.
LEMMA Walked ==
  ASSUME ReplyTypeOK, Ascending, Sound,
         NEW n \in Nat, NEW f, IsWalk(f, n), NEW b \in Listed \cup {NULL},
         NEW w \in 0 .. n, w <= Len(BytesFrom(b))
  PROVE  \/ f[b][w].block = NULL /\ w = Len(BytesFrom(b))
         \/ /\ f[b][w].block \in Listed
            /\ f[b][w].written \in 0 .. block[f[b][w].block].size - 1
            /\ Drop(BytesFrom(b), w) =
                 Drop(BytesOf(f[b][w].block), f[b][w].written) \o BytesFrom(NextOf(f[b][w].block))
<1> DEFINE Right(c, v, l) ==
             \/ l.block = NULL /\ v = Len(BytesFrom(c))
             \/ /\ l.block \in Listed
                /\ l.written \in 0 .. block[l.block].size - 1
                /\ Drop(BytesFrom(c), v) =
                     Drop(BytesOf(l.block), l.written) \o BytesFrom(NextOf(l.block))
           Good(c) == \A v \in 0 .. n : v <= Len(BytesFrom(c)) => Right(c, v, f[c][v])
           P == {c \in Address : c \in Listed => Good(c)}
<1>0. NULL \notin Address /\ NULL \notin Listed /\ NULL \notin DOMAIN block
  BY SizesAreNumbers, NullIsNoAddress DEF Address, Listed, ReplyTypeOK
<1>1. ASSUME NEW c \in Address \cup {NULL}, NEW v \in 0 .. n
      PROVE  f[c][v] = IF c \notin DOMAIN block \/ v < block[c].size
                       THEN [block |-> c, written |-> v]
                       ELSE f[NextOf(c)][v - block[c].size]
  <2>1. f = [a \in Address \cup {NULL} |->
               [u \in 0 .. n |->
                  IF a \notin DOMAIN block \/ u < block[a].size
                  THEN [block |-> a, written |-> u]
                  ELSE f[NextOf(a)][u - block[a].size]]]
    BY Zenon DEF IsWalk
  <2>2. f[c] = [u \in 0 .. n |->
                  IF c \notin DOMAIN block \/ u < block[c].size
                  THEN [block |-> c, written |-> u]
                  ELSE f[NextOf(c)][u - block[c].size]]
    BY <2>1, Zenon
  <2> QED BY <2>2, Zenon
<1>2. Good(NULL)
  <2>1. ASSUME NEW v \in 0 .. n, v <= Len(BytesFrom(NULL))
        PROVE  f[NULL][v].block = NULL /\ v = Len(BytesFrom(NULL))
    <3>1. f[NULL][v] = [block |-> NULL, written |-> v]
      BY <1>0, <1>1
    <3>2. Len(BytesFrom(NULL)) = 0
      BY BytesUnfold
    <3> QED BY <2>1, <3>1, <3>2
  <2> QED BY <2>1
<1>3. ASSUME NEW c \in Address, \A d \in Address : c < d => d \in P
      PROVE  c \in P
  <2> SUFFICES ASSUME c \in Listed, NEW v \in 0 .. n, v <= Len(BytesFrom(c))
               PROVE  Right(c, v, f[c][v])
    BY DEF P
  <2> DEFINE s == BytesOf(c)
             t == BytesFrom(NextOf(c))
             k == block[c].size
  <2>1. NextOf(c) \in Listed \cup {NULL}
        /\ (NextOf(c) = NULL \/ (NextOf(c) \in Address /\ c < NextOf(c)))
    BY ListedIsAddress, NextIsLater DEF Sound, NextOf
  <2>2. Good(NextOf(c))
    <3>1. CASE NextOf(c) = NULL
      <4> HIDE DEF Good
      <4> QED BY <1>2, <3>1
    <3>2. CASE NextOf(c) # NULL
      <4>1. NextOf(c) \in P
        <5> HIDE DEF P
        <5> QED BY <1>3, <2>1, <3>2
      <4> HIDE DEF Good
      <4> QED BY <2>1, <3>2, <4>1
    <3> QED BY <3>1, <3>2
  <2>3. BytesFrom(c) = s \o t /\ s \in Seq(Nat) /\ t \in Seq(Nat) /\ Len(s) = k
    BY <2>1, BytesUnfold, BytesOfBlock, BytesAreNumbers
  <2>4. k \in Nat /\ c \in DOMAIN block
    <3>1. block[c] \in Block
      BY ListedIsAddress DEF ReplyTypeOK
    <3> QED BY <3>1, ListedIsAddress DEF Block
  <2>5. f[c][v] = IF v < k THEN [block |-> c, written |-> v] ELSE f[NextOf(c)][v - k]
    BY <1>1, <2>4
  <2>6. v \in 0 .. Len(s \o t)
    BY <2>3
  <2> HIDE DEF s, t, k, Good
  <2>7. CASE v < k
    <3>1. Drop(BytesFrom(c), v) = Drop(s, v) \o t
      BY <2>3, <2>6, <2>7, DropOfConcat
    <3>2. f[c][v].block = c /\ f[c][v].written = v
      BY <2>5, <2>7
    <3>3. v \in 0 .. k - 1
      BY <2>4, <2>7
    <3> QED BY <3>1, <3>2, <3>3 DEF s, t, k
  <2>8. CASE ~(v < k)
    <3>1. v - k \in 0 .. Len(t) /\ Drop(BytesFrom(c), v) = Drop(t, v - k) /\ v - k \in 0 .. n
          /\ Len(BytesFrom(c)) = k + Len(t)
      <4>1. v >= Len(s)
        BY <2>3, <2>4, <2>8
      <4>2. v - Len(s) \in 0 .. Len(t) /\ Drop(s \o t, v) = Drop(t, v - Len(s))
        BY <2>3, <2>6, <4>1, DropOfConcat
      <4>3. Len(s \o t) = k + Len(t)
        BY <2>3, ConcatProperties
      <4> QED BY <2>3, <2>4, <2>8, <4>2, <4>3
    <3>2. Right(NextOf(c), v - k, f[NextOf(c)][v - k])
      <4>1. v - k <= Len(BytesFrom(NextOf(c)))
        <5>1. v - k <= Len(t)
          BY <2>3, <3>1
        <5> QED BY <5>1 DEF t
      <4> HIDE DEF Right
      <4> QED BY <2>2, <3>1, <4>1 DEF Good
    <3>3. f[c][v] = f[NextOf(c)][v - k]
      BY <2>5, <2>8
    <3>4. CASE f[c][v].block = NULL
      <4>1. f[NextOf(c)][v - k].block = NULL /\ v - k = Len(t)
        BY <1>0, <3>2, <3>3, <3>4 DEF t
      <4>2. v = Len(BytesFrom(c))
        BY <2>3, <2>4, <3>1, <4>1
      <4> QED BY <3>4, <4>2
    <3>5. CASE f[c][v].block # NULL
      <4> DEFINE l == f[c][v]
      <4>1. /\ l.block \in Listed
            /\ l.written \in 0 .. block[l.block].size - 1
            /\ Drop(t, v - k) = Drop(BytesOf(l.block), l.written) \o BytesFrom(NextOf(l.block))
        BY <3>2, <3>3, <3>5 DEF t
      <4> QED BY <3>1, <4>1
    <3> QED BY <3>4, <3>5
  <2> QED BY <2>7, <2>8
<1>4. P \in SUBSET Address
  OBVIOUS
<1>5. P = Address
  <2> HIDE DEF P
  <2> QED BY <1>3, <1>4, Downward
<1>6. Good(b)
  <2> HIDE DEF Good
  <2> QED BY <1>2, <1>5, ListedIsAddress
<1> HIDE DEF Right
<1>7. Right(b, w, f[b][w])
  BY <1>6
<1> QED BY <1>7 DEF Right

-----------------------------------------------------------------------------
(* The bytes of a list that a step leaves alone                            *)

\* No block is at NULL.
LEMMA NullIsElsewhere == NULL \notin Address
BY NullIsNoAddress, SizesAreNumbers DEF Address

\* Concatenation is associative.
LEMMA Associative ==
  \A s, t, u \in Seq(Nat) : (s \o t) \o u = s \o (t \o u)
<1> DEFINE N == Nat
<1>1. \A s, t, u \in Seq(N) : (s \o t) \o u = s \o (t \o u)
  <2> HIDE DEF N
  <2> QED BY ConcatAssociative
<1> QED BY <1>1

\* n numbers are a sequence of length n ...
LEMMA NumbersAre ==
  ASSUME NEW first \in Nat, NEW n \in Nat
  PROVE  Numbers(first, n) \in Seq(Nat) /\ Len(Numbers(first, n)) = n
BY DEF Numbers

\* ... and go on where m numbers end.
LEMMA NumbersContinue ==
  ASSUME NEW m \in Nat, NEW n \in Nat
  PROVE  Numbers(1, m) \o Numbers(m + 1, n) = Numbers(1, m + n)
<1> DEFINE s == Numbers(1, m)
           t == Numbers(m + 1, n)
           u == Numbers(1, m + n)
<1>1. /\ s \in Seq(Nat) /\ Len(s) = m /\ \A i \in 1 .. m : s[i] = i
      /\ t \in Seq(Nat) /\ Len(t) = n /\ \A i \in 1 .. n : t[i] = m + i
      /\ u \in Seq(Nat) /\ Len(u) = m + n /\ \A i \in 1 .. m + n : u[i] = i
  BY DEF Numbers
<1> HIDE DEF s, t, u
<1>2. /\ s \o t \in Seq(Nat) /\ Len(s \o t) = Len(s) + Len(t)
      /\ \A i \in 1 .. Len(s) + Len(t) : (s \o t)[i] = IF i <= Len(s) THEN s[i] ELSE t[i - Len(s)]
  BY <1>1, ConcatProperties
<1>3. /\ s \o t \in Seq(Nat) /\ Len(s \o t) = m + n
      /\ \A i \in 1 .. m + n : (s \o t)[i] = IF i <= m THEN s[i] ELSE t[i - m]
  BY <1>1, <1>2
<1>4. ASSUME NEW i \in 1 .. m + n PROVE (s \o t)[i] = u[i]
  <2>1. CASE i <= m
    <3>1. i \in 1 .. m
      BY <2>1
    <3> QED BY <1>1, <1>3, <2>1, <3>1
  <2>2. CASE ~(i <= m)
    <3>1. i - m \in 1 .. n /\ m + (i - m) = i
      BY <2>2
    <3> QED BY <1>1, <1>3, <2>2, <3>1
  <2> QED BY <2>1, <2>2
<1>5. s \o t = u
  BY <1>1, <1>3, <1>4, SeqEqual
<1> QED BY <1>5 DEF s, t, u

\* The bytes of a list depend on the heap alone.
LEMMA SameBytes ==
  ASSUME UNCHANGED <<block, data>>, NEW b
  PROVE  BytesFrom(b)' = BytesFrom(b)
BY DEF BytesFrom, BytesOf, NextOf

\* The blocks of S keep their bytes and their successors; at the end of the list a
\* step may have put more.
LEMMA MoreBytes ==
  ASSUME ReplyTypeOK, Ascending, Sound, ReplyTypeOK', Ascending',
         NEW S \in SUBSET Listed, NEW t \in Seq(Nat),
         \A c \in S : /\ BytesOf(c)' = BytesOf(c)
                      /\ \/ NextOf(c) \in S /\ NextOf(c)' = NextOf(c)
                         \/ NextOf(c) = NULL /\ BytesFrom(NextOf(c))' = t
  PROVE  \A c \in S : BytesFrom(c)' = BytesFrom(c) \o t
<1> DEFINE P == {c \in Address : c \in S => BytesFrom(c)' = BytesFrom(c) \o t}
<1>1. ASSUME NEW c \in Address, \A d \in Address : c < d => d \in P
      PROVE  c \in P
  <2> SUFFICES ASSUME c \in S
               PROVE  BytesFrom(c)' = BytesFrom(c) \o t
    BY DEF P
  <2>1. BytesFrom(c) = BytesOf(c) \o BytesFrom(NextOf(c))
    BY BytesUnfold
  <2>2. BytesFrom(c)' = BytesOf(c) \o BytesFrom(NextOf(c))'
    BY BytesUnfoldAfter
  <2>3. BytesOf(c) \in Seq(Nat)
    BY BytesOfBlock
  <2>4. CASE NextOf(c) \in S /\ NextOf(c)' = NextOf(c)
    <3>1. NextOf(c) \in Address /\ c < NextOf(c)
      <4>1. NULL \notin Address /\ NextOf(c) \in Address
        BY <2>4, ListedIsAddress, NullIsElsewhere
      <4> QED BY <4>1, NextIsLater
    <3>2. NextOf(c) \in P
      <4> HIDE DEF P
      <4> QED BY <1>1, <3>1
    <3>3. BytesFrom(NextOf(c))' = BytesFrom(NextOf(c)) \o t
      BY <2>4, <3>2
    <3>4. BytesFrom(NextOf(c)) \in Seq(Nat)
      BY <2>4, BytesAreNumbers
    <3>5. (BytesOf(c) \o BytesFrom(NextOf(c))) \o t = BytesOf(c) \o (BytesFrom(NextOf(c)) \o t)
      BY <2>3, <3>4, Associative, Zenon
    <3> QED BY <2>1, <2>2, <3>3, <3>5, Zenon
  <2>5. CASE NextOf(c) = NULL /\ BytesFrom(NextOf(c))' = t
    <3>1. BytesFrom(NextOf(c)) = <<>>
      BY <2>5, BytesUnfold
    <3>2. BytesFrom(c) = BytesOf(c)
      BY <2>1, <2>3, <3>1, ConcatEmptySeq
    <3> QED BY <2>2, <2>5, <3>2
  <2> QED BY <2>4, <2>5
<1>2. P \in SUBSET Address
  OBVIOUS
<1>3. P = Address
  <2> HIDE DEF P
  <2> QED BY <1>1, <1>2, Downward
<1> QED BY <1>3, ListedIsAddress

-----------------------------------------------------------------------------
(* Commands append to the reply                                            *)

\* rchkAppendToReply adds one block with its bytes and changes one next pointer.
LEMMA AppendKeepsOthers ==
  ASSUME ReplyInv, at = "read", NEW n \in BlockSizes, Linked(n),
         UNCHANGED <<at, replyRemaining, received, cut>>
  PROVE  /\ appended' = appended + 1 /\ appended' \in Address
         /\ appended' \notin DOMAIN block /\ appended' \notin DOMAIN data
         /\ DOMAIN block' = DOMAIN block \cup {appended'}
         /\ DOMAIN data' = DOMAIN data \cup {appended'}
         /\ block'[appended'] =
              [bytes |-> [chunk |-> appended', offset |-> 0], size |-> n, next |-> NULL]
         /\ data'[appended'] = Numbers(produced + 1, n)
         /\ \A c \in DOMAIN data : data'[c] = data[c]
         /\ \A a \in DOMAIN block :
              /\ block'[a].bytes = block[a].bytes /\ block'[a].size = block[a].size
              /\ block'[a].next = IF reply # NULL /\ a = replyTail THEN appended' ELSE block[a].next
         /\ n \in Nat
<1>1. appended' = appended + 1 /\ appended \in Nat /\ MaxBlocks \in Nat /\ appended < MaxBlocks
  BY SizesAreNumbers DEF Linked, ReplyInv, ReplyTypeOK
<1>2. appended' \in Address
  BY <1>1 DEF Address
<1>3. DOMAIN block \subseteq 1 .. appended /\ DOMAIN data \subseteq 1 .. appended
  BY DEF ReplyInv, ReplyTypeOK
<1>4. appended' \notin DOMAIN block /\ appended' \notin DOMAIN data
  BY <1>1, <1>3
<1> DEFINE b == appended'
<1>5. block' = [a \in DOMAIN block \cup {b} |->
        IF a = b THEN [bytes |-> [chunk |-> b, offset |-> 0], size |-> n, next |-> NULL]
        ELSE IF reply # NULL /\ a = replyTail THEN [block[a] EXCEPT !.next = b]
        ELSE block[a]]
  BY <1>1 DEF Linked
<1>6. data' = [c \in DOMAIN data \cup {b} |->
        IF c = b THEN Numbers(produced + 1, n) ELSE data[c]]
  BY <1>1 DEF Linked
<1>7. n \in Nat
  BY SizesAreNumbers
<1>8. ASSUME NEW a \in DOMAIN block
      PROVE  /\ block'[a].bytes = block[a].bytes /\ block'[a].size = block[a].size
             /\ block'[a].next = IF reply # NULL /\ a = replyTail THEN appended' ELSE block[a].next
  <2>1. block[a] \in Block
    BY DEF ReplyInv, ReplyTypeOK
  <2>2. a # b /\ a \in DOMAIN block \cup {b}
    BY <1>4
  <2> HIDE DEF b
  <2>3. block'[a] = IF reply # NULL /\ a = replyTail THEN [block[a] EXCEPT !.next = b] ELSE block[a]
    BY <1>5, <2>2
  <2> QED BY <2>1, <2>3 DEF Block, b
<1> HIDE DEF b
<1>9. /\ DOMAIN block' = DOMAIN block \cup {b} /\ DOMAIN data' = DOMAIN data \cup {b}
      /\ block'[b] = [bytes |-> [chunk |-> b, offset |-> 0], size |-> n, next |-> NULL]
      /\ data'[b] = Numbers(produced + 1, n)
  BY <1>5, <1>6
<1>10. \A c \in DOMAIN data : data'[c] = data[c]
  BY <1>4, <1>6 DEF b
<1> QED BY <1>1, <1>2, <1>4, <1>7, <1>8, <1>9, <1>10 DEF b

\* The list with the new block is sound and whole.
LEMMA AppendKeepsShape ==
  ASSUME ReplyInv, at = "read", NEW n \in BlockSizes, Linked(n),
         UNCHANGED <<at, replyRemaining, received, cut>>
  PROVE  /\ ReplyTypeOK' /\ Ascending' /\ Sound' /\ Whole'
         /\ ~cut' => NothingElse'
         /\ Listed' = Listed \cup {appended'}
<1> DEFINE b == appended'
<1>1. /\ at = "read" /\ at' = at
      /\ reply' = (IF reply = NULL THEN b ELSE reply) /\ replyTail' = b
      /\ produced' = produced + n
      /\ UNCHANGED <<received, cut>>
  BY AppendKeepsOthers DEF Linked
<1>2. /\ b = appended + 1 /\ b \in Address /\ b \notin DOMAIN block /\ b \notin DOMAIN data
      /\ DOMAIN block' = DOMAIN block \cup {b} /\ DOMAIN data' = DOMAIN data \cup {b}
      /\ block'[b] = [bytes |-> [chunk |-> b, offset |-> 0], size |-> n, next |-> NULL]
      /\ data'[b] = Numbers(produced + 1, n)
      /\ \A c \in DOMAIN data : data'[c] = data[c]
      /\ \A a \in DOMAIN block :
           /\ block'[a].bytes = block[a].bytes /\ block'[a].size = block[a].size
           /\ block'[a].next = IF reply # NULL /\ a = replyTail THEN b ELSE block[a].next
      /\ n \in Nat
  BY AppendKeepsOthers
<1>3. ReplyTypeOK /\ Ascending /\ Sound /\ Whole /\ (~cut => NothingElse)
  BY <1>1 DEF ReplyInv
<1>4. /\ appended \in 0 .. MaxBlocks /\ produced \in Nat
      /\ DOMAIN block \subseteq 1 .. appended /\ DOMAIN data \subseteq 1 .. appended
      /\ reply \in DOMAIN block \cup {NULL} /\ NULL \notin Address /\ Address = 1 .. MaxBlocks
      /\ MaxBlocks \in Nat
  BY <1>3, NullIsElsewhere, SizesAreNumbers DEF ReplyTypeOK, Address
<1>5. ASSUME NEW a \in DOMAIN block
      PROVE  /\ a # b /\ a \in Nat /\ a < b
             /\ block[a].bytes \in [chunk : Nat, offset : Nat] /\ block[a].size \in Nat
             /\ block[a].next \in Address \cup {NULL}
             /\ block'[a] \in Block
  <2>1. block[a] \in Block
    BY <1>3 DEF ReplyTypeOK
  <2>2. a \in 1 .. appended
    BY <1>4
  <2>3. /\ block[a].bytes \in [chunk : Nat, offset : Nat] /\ block[a].size \in Nat
        /\ block[a].next \in Address \cup {NULL}
    BY <2>1 DEF Block
  <2>4. block'[a] = [bytes |-> block[a].bytes, size |-> block[a].size,
                     next |-> IF reply # NULL /\ a = replyTail THEN b ELSE block[a].next]
    <3>1. block'[a] = IF reply # NULL /\ a = replyTail THEN [block[a] EXCEPT !.next = b] ELSE block[a]
      <4> HIDE DEF b
      <4>1. a # b
        BY <1>2
      <4>2. appended + 1 = b
        BY <1>2
      <4> QED BY <4>1, <4>2, <1>2 DEF Linked
    <3> HIDE DEF b
    <3> QED BY <2>1, <3>1 DEF Block
  <2> HIDE DEF b
  <2>5. block'[a] \in Block
    BY <1>2, <2>3, <2>4 DEF Block
  <2>6. a < b /\ a # b
    BY <1>2, <1>4, <2>2
  <2> QED BY <2>2, <2>3, <2>5, <2>6
<1> HIDE DEF b
<1>6. ReplyTypeOK'
  <2>1. at' \in {"read", "write", "closed", "aborted", "killed"}
    BY <1>1
  <2>2. b \in 0 .. MaxBlocks /\ produced' \in Nat /\ received' \in Seq(Nat) /\ cut' \in BOOLEAN
    BY <1>1, <1>2, <1>3, <1>4 DEF ReplyTypeOK
  <2>3. DOMAIN block' \subseteq 1 .. b /\ DOMAIN data' \subseteq 1 .. b
    BY <1>2, <1>4
  <2>4. block' \in [DOMAIN block' -> Block]
    <3>1. block'[b] \in Block
      BY <1>2, <1>4 DEF Block
    <3>2. \A a \in DOMAIN block' : block'[a] \in Block
      BY <1>2, <1>5, <3>1
    <3>3. block' = [a \in DOMAIN block' |-> block'[a]]
      BY DEF Linked
    <3> QED BY <3>2, <3>3
  <2>5. data' \in [DOMAIN data' -> Seq(Nat)]
    <3>1. data'[b] \in Seq(Nat)
      BY <1>2, <1>4, NumbersAre
    <3>2. \A a \in DOMAIN data' : data'[a] \in Seq(Nat)
      BY <1>2, <1>3, <3>1 DEF ReplyTypeOK
    <3>3. data' = [a \in DOMAIN data' |-> data'[a]]
      BY DEF Linked
    <3> QED BY <3>2, <3>3
  <2>6. reply' \in DOMAIN block' \cup {NULL}
    BY <1>1, <1>2, <1>4
  <2>7. orphans' \in Nat
    BY <1>3 DEF Linked, ReplyTypeOK
  <2> QED BY <2>1, <2>2, <2>3, <2>4, <2>5, <2>6, <2>7 DEF ReplyTypeOK, b
<1>7. Ascending'
  <2>1. ASSUME NEW a \in DOMAIN block', block'[a].next # NULL
        PROVE  a < block'[a].next
    <3>1. CASE a = b
      BY <1>2, <2>1, <3>1
    <3>2. CASE a # b
      <4>1. a \in DOMAIN block
        BY <1>2, <3>2
      <4> QED BY <1>2, <1>3, <1>5, <2>1, <4>1 DEF Ascending
    <3> QED BY <3>1, <3>2
  <2> QED BY <2>1 DEF Ascending
<1>8. Listed' = Listed \cup {b}
  <2>1. b <= b
    BY <1>2, <1>4
  <2>2. CASE reply = NULL
    <3>1. reply' = b /\ b # NULL
      BY <1>1, <1>2, <1>4, <2>2
    <3>2. \A a \in DOMAIN block : ~(b <= a)
      BY <1>2, <1>4, <1>5
    <3> QED BY <1>2, <2>1, <2>2, <3>1, <3>2 DEF Listed
  <2>3. CASE reply # NULL
    <3>1. reply' = reply /\ reply <= b
      <4>1. reply \in DOMAIN block
        BY <1>4, <2>3
      <4>2. reply \in Nat /\ reply < b
        BY <1>5, <4>1
      <4> QED BY <1>1, <1>2, <1>4, <2>3, <4>2
    <3> QED BY <1>2, <2>3, <3>1 DEF Listed
  <2> QED BY <2>2, <2>3
<1>9. Sound'
  <2>1. ASSUME NEW a \in Listed'
        PROVE  /\ block'[a].next \in Listed' \cup {NULL}
               /\ block'[a].bytes.chunk \in DOMAIN data'
               /\ block'[a].bytes.offset + block'[a].size <= Len(data'[block'[a].bytes.chunk])
    <3>1. CASE a = b
      <4>1. Len(Numbers(produced + 1, n)) = n
        BY <1>2, <1>4, NumbersAre
      <4>2. 0 + n <= n
        BY <1>2
      <4> QED BY <1>2, <3>1, <4>1, <4>2
    <3>2. CASE a # b
      <4>1. a \in Listed /\ a \in DOMAIN block
        BY <1>8, <3>2 DEF Listed
      <4>2. /\ block[a].next \in Listed \cup {NULL}
            /\ block[a].bytes.chunk \in DOMAIN data
            /\ block[a].bytes.offset + block[a].size <= Len(data[block[a].bytes.chunk])
        BY <1>3, <4>1 DEF Sound
      <4> QED BY <1>2, <1>8, <4>1, <4>2
    <3> QED BY <3>1, <3>2
  <2> QED BY <2>1 DEF Sound
<1>10. Whole'
  <2>1. ASSUME NEW a \in reply' .. b
        PROVE  /\ a \in DOMAIN block' /\ a \in DOMAIN data'
               /\ block'[a].bytes = [chunk |-> a, offset |-> 0]
               /\ block'[a].next = IF a = b THEN NULL ELSE a + 1
    <3>1. CASE a = b
      BY <1>2, <3>1
    <3>2. CASE a # b
      <4>1. reply # NULL /\ reply' = reply
        <5>1. ~(a < b) \/ reply' # b
          BY <1>2, <1>4, <2>1
        <5>2. a < b
          BY <1>2, <1>4, <2>1, <3>2
        <5> QED BY <1>1, <5>1, <5>2
      <4>2. a \in reply .. appended
        BY <1>2, <1>4, <2>1, <3>2, <4>1
      <4>3. /\ replyTail = appended /\ a \in DOMAIN block /\ a \in DOMAIN data
            /\ block[a].bytes = [chunk |-> a, offset |-> 0]
            /\ block[a].next = IF a = appended THEN NULL ELSE a + 1
        BY <1>3, <4>1, <4>2 DEF Whole
      <4> QED BY <1>2, <3>2, <4>1, <4>3
    <3> QED BY <3>1, <3>2
  <2>2. replyTail' = b
    BY <1>1
  <2> QED BY <2>1, <2>2 DEF Whole, b
<1>11. ~cut' => NothingElse'
  BY <1>1, <1>2, <1>3, <1>8 DEF NothingElse
<1> QED BY <1>6, <1>7, <1>8, <1>9, <1>10, <1>11 DEF b

\* The new bytes come after those that the client has not got.
LEMMA AppendPreserves ==
  ASSUME ReplyInv, at = "read", NEW n \in BlockSizes, Linked(n),
         UNCHANGED <<at, replyRemaining, received, cut>>
  PROVE  ReplyInv'
<1> DEFINE new == Numbers(produced + 1, n)
<1>b. PICK b : b = appended'
  OBVIOUS
<1>1. /\ at = "read" /\ at' = "read"
      /\ reply' = (IF reply = NULL THEN b ELSE reply)
      /\ produced' = produced + n /\ received' = received
  BY <1>b, AppendKeepsOthers DEF Linked
<1>2. /\ ReplyTypeOK /\ Ascending /\ Sound /\ Whole
      /\ received \o BytesFrom(reply) = Numbers(1, produced)
      /\ received \in Seq(Nat) /\ produced \in Nat /\ n \in Nat
      /\ reply \in DOMAIN block \cup {NULL} /\ DOMAIN block \subseteq 1 .. appended
      /\ appended \in Nat
  <2>1. ReplyTypeOK /\ Ascending /\ Sound /\ Whole
    BY <1>1 DEF ReplyInv
  <2>2. received \o BytesFrom(reply) = Numbers(1, produced)
    BY <1>1 DEF ReplyInv, NotYetWritten
  <2>3. n \in Nat /\ MaxBlocks \in Nat
    BY SizesAreNumbers
  <2> QED BY <2>1, <2>2, <2>3 DEF ReplyTypeOK
<1>3. /\ ReplyTypeOK' /\ Ascending' /\ Sound' /\ Whole' /\ (~cut' => NothingElse')
      /\ Listed' = Listed \cup {b}
  BY <1>b, AppendKeepsShape
<1>4. /\ b = appended + 1 /\ b \in Address /\ NULL \notin Address
      /\ block'[b] = [bytes |-> [chunk |-> b, offset |-> 0], size |-> n, next |-> NULL]
      /\ data'[b] = new
      /\ \A c \in DOMAIN data : data'[c] = data[c]
      /\ \A a \in DOMAIN block :
           /\ block'[a].bytes = block[a].bytes /\ block'[a].size = block[a].size
           /\ block'[a].next = IF reply # NULL /\ a = replyTail THEN b ELSE block[a].next
      /\ DOMAIN block' = DOMAIN block \cup {b}
  BY <1>b, AppendKeepsOthers, NullIsElsewhere
<1>5. new \in Seq(Nat) /\ Len(new) = n
  <2>1. produced + 1 \in Nat
    BY <1>2
  <2> QED BY <1>2, <2>1, NumbersAre
<1>6. /\ BytesFrom(NULL)' = <<>>
      /\ \A c \in Address : BytesFrom(c)' = BytesOf(c)' \o BytesFrom(NextOf(c))'
  BY <1>3, BytesUnfoldAfter
<1> HIDE DEF new
<1>7. BytesFrom(b)' = new
  <2>1. BytesOf(b)' = SubSeq(new, 0 + 1, 0 + n)
    <3>1. /\ block'[b].bytes.chunk = b /\ block'[b].bytes.offset = 0 /\ block'[b].size = n
          /\ data'[b] = new
      BY <1>4
    <3>2. BytesOf(b)' = SubSeq(data'[block'[b].bytes.chunk], block'[b].bytes.offset + 1,
                               block'[b].bytes.offset + block'[b].size)
      BY DEF BytesOf
    <3> QED BY <3>1, <3>2
  <2>2. BytesOf(b)' = new
    <3>1. 0 + 1 = 1 /\ 0 + n = Len(new)
      BY <1>2, <1>5
    <3>2. SubSeq(new, 1, Len(new)) = new
      BY <1>5, SubSeqFull
    <3> QED BY <2>1, <3>1, <3>2
  <2>3. NextOf(b)' = NULL
    BY <1>4 DEF NextOf
  <2>4. BytesFrom(NextOf(b))' = <<>>
    BY <1>6, <2>3
  <2> QED BY <1>4, <1>5, <1>6, <2>2, <2>4, ConcatEmptySeq
<1>8. BytesFrom(reply)' = BytesFrom(reply) \o new
  <2>1. CASE reply = NULL
    <3>1. BytesFrom(reply) = <<>>
      BY <1>2, <2>1, BytesUnfold
    <3>2. BytesFrom(reply)' = new
      BY <1>1, <1>7, <2>1
    <3> QED BY <1>5, <3>1, <3>2, ConcatEmptySeq
  <2>2. CASE reply # NULL
    <3> DEFINE S == reply .. appended
    <3>1. reply \in DOMAIN block /\ reply \in Nat /\ reply <= appended
      BY <1>2, <2>2
    <3>2. ASSUME NEW c \in S
          PROVE  /\ c \in Listed /\ c \in DOMAIN block /\ c \in DOMAIN data
                 /\ block[c].bytes = [chunk |-> c, offset |-> 0]
                 /\ block[c].next = IF c = appended THEN NULL ELSE c + 1
                 /\ replyTail = appended
      <4>1. c \in reply .. appended /\ reply <= c
        BY <3>1
      <4> QED BY <1>2, <2>2, <4>1 DEF Whole, Listed
    <3>3. ASSUME NEW c \in S PROVE BytesOf(c)' = BytesOf(c)
      <4>1. /\ block'[c].bytes = block[c].bytes /\ block'[c].size = block[c].size
            /\ data'[c] = data[c] /\ block[c].bytes.chunk = c
        <5>1. c \in DOMAIN block /\ c \in DOMAIN data /\ block[c].bytes = [chunk |-> c, offset |-> 0]
          BY <3>2
        <5> QED BY <1>4, <5>1
      <4> QED BY <4>1 DEF BytesOf
    <3>4. ASSUME NEW c \in S
          PROVE  \/ NextOf(c) \in S /\ NextOf(c)' = NextOf(c)
                 \/ NextOf(c) = NULL /\ BytesFrom(NextOf(c))' = new
      <4>1. NextOf(c) = block[c].next /\ NextOf(c)' = block'[c].next
        BY <1>4, <3>2 DEF NextOf
      <4>2. CASE c = appended
        <5>1. NextOf(c) = NULL /\ NextOf(c)' = b
          BY <1>4, <2>2, <3>2, <4>1, <4>2
        <5> QED BY <1>7, <5>1
      <4>3. CASE c # appended
        <5>1. NextOf(c) = c + 1 /\ NextOf(c)' = c + 1
          BY <1>4, <3>2, <4>1, <4>3
        <5>2. c + 1 \in S
          BY <1>2, <3>1, <4>3
        <5> QED BY <5>1, <5>2
      <4> QED BY <4>2, <4>3
    <3>5. S \in SUBSET Listed /\ reply \in S
      <4>1. \A c \in S : c \in Listed
        BY <3>2
      <4>2. reply \in S
        BY <1>2, <3>1
      <4> HIDE DEF S
      <4> QED BY <4>1, <4>2
    <3> HIDE DEF S
    <3>6. \A c \in S : BytesFrom(c)' = BytesFrom(c) \o new
      BY <1>2, <1>3, <1>5, <3>3, <3>4, <3>5, MoreBytes
    <3>7. reply' = reply
      BY <1>1, <2>2
    <3> QED BY <3>5, <3>6, <3>7
  <2> QED BY <2>1, <2>2
<1>9. received' \o BytesFrom(reply)' = Numbers(1, produced')
  <2>1. BytesFrom(reply) \in Seq(Nat)
    <3>1. reply \in Listed \cup {NULL}
      <4>1. CASE reply # NULL
        <5>1. reply \in DOMAIN block /\ reply <= reply
          BY <1>2, <4>1
        <5> QED BY <4>1, <5>1 DEF Listed
      <4> QED BY <4>1
    <3> QED BY <1>2, <3>1, BytesAreNumbers
  <2>2. received \o (BytesFrom(reply) \o new) = (received \o BytesFrom(reply)) \o new
    <3>1. received \in Seq(Nat) /\ new \in Seq(Nat)
      BY <1>2, <1>5
    <3> QED BY <2>1, <3>1, Associative, Zenon
  <2>3. Numbers(1, produced) \o new = Numbers(1, produced + n)
    BY <1>2, NumbersContinue DEF new
  <2> QED BY <1>1, <1>2, <1>8, <2>2, <2>3
<1>10. NotYetWritten'
  BY <1>1, <1>9 DEF NotYetWritten
<1> QED BY <1>1, <1>3, <1>10 DEF ReplyInv

-----------------------------------------------------------------------------
(* The write handler                                                       *)

\* The write handler starts with all of the list.
LEMMA StartPreserves ==
  ASSUME ReplyInv, StartWriting
  PROVE  ReplyInv'
<1>1. /\ at = "read" /\ at' = "write" /\ replyRemaining' = reply
      /\ UNCHANGED <<block, data, reply, replyTail, orphans, appended, produced, received, cut>>
  BY DEF StartWriting, FirstToWrite
<1>2. /\ ReplyTypeOK /\ Ascending /\ Sound /\ Whole /\ (~cut => NothingElse)
      /\ received \o BytesFrom(reply) = Numbers(1, produced)
  BY <1>1 DEF ReplyInv, NotYetWritten
<1>4. BytesFrom(reply)' = BytesFrom(reply)
  <2>1. \A b : BytesFrom(b)' = BytesFrom(b)
    BY <1>1, SameBytes
  <2> QED BY <1>1, <2>1
<1>5. BytesFrom(replyRemaining)' = BytesFrom(reply)'
  BY <1>1
<1>6. NotYetWritten'
  BY <1>1, <1>2, <1>4, <1>5 DEF NotYetWritten
<1>7. ReplyTypeOK' /\ Ascending' /\ Sound' /\ Whole' /\ (~cut' => NothingElse')
  <2>1. ReplyTypeOK'
    BY <1>1, <1>2 DEF ReplyTypeOK, Block
  <2>2. Ascending' /\ Sound'
    BY <1>1, <1>2 DEF Ascending, Sound, Listed
  <2>3. Whole' /\ (~cut' => NothingElse')
    BY <1>1, <1>2 DEF Whole, NothingElse, Listed
  <2> QED BY <2>1, <2>2, <2>3
<1> QED BY <1>1, <1>6, <1>7 DEF ReplyInv

\* What rchkClientResetReplyList frees is the whole list and its bytes.
LEMMA WholeList ==
  ASSUME ReplyTypeOK, Ascending, Sound, Whole
  PROVE  /\ BlocksFrom(reply) = Listed
         /\ \A b \in Listed : block[b].bytes = [chunk |-> b, offset |-> 0]
<1>1. /\ appended \in Nat /\ DOMAIN block \subseteq 1 .. appended
      /\ reply \in DOMAIN block \cup {NULL} /\ NULL \notin Address
  BY NullIsElsewhere, SizesAreNumbers DEF ReplyTypeOK
<1>2. CASE reply = NULL
  BY <1>2, BlocksUnfold DEF Listed
<1>3. CASE reply # NULL
  <2>1. reply \in Nat /\ reply \in 1 .. appended
    BY <1>1, <1>3
  <2>2. \A c \in reply .. appended :
          /\ c \in DOMAIN block
          /\ block[c].bytes = [chunk |-> c, offset |-> 0]
          /\ block[c].next = IF c = appended THEN NULL ELSE c + 1
    BY <1>3 DEF Whole
  <2>3. Listed = reply .. appended
    <3>1. Listed \subseteq reply .. appended
      BY <1>1, <1>3, <2>1 DEF Listed
    <3>2. ASSUME NEW c \in reply .. appended PROVE c \in Listed
      <4>1. c \in DOMAIN block
        BY <2>2
      <4>2. reply <= c
        BY <2>1
      <4> QED BY <1>3, <4>1, <4>2 DEF Listed
    <3> QED BY <3>1, <3>2
  <2> DEFINE P == {c \in Address : c \in reply .. appended => BlocksFrom(c) = c .. appended}
  <2>4. ASSUME NEW c \in Address, \A d \in Address : c < d => d \in P
        PROVE  c \in P
    <3> SUFFICES ASSUME c \in reply .. appended
                 PROVE  BlocksFrom(c) = c .. appended
      BY DEF P
    <3>1. BlocksFrom(c) = {c} \cup BlocksFrom(NextOf(c))
      BY BlocksUnfold
    <3>2. NextOf(c) = IF c = appended THEN NULL ELSE c + 1
      BY <2>2 DEF NextOf
    <3>3. CASE c = appended
      <4>1. BlocksFrom(c) = {c}
        BY <3>1, <3>2, <3>3, BlocksUnfold
      <4>2. c .. appended = {c}
        BY <1>1, <3>3
      <4> QED BY <4>1, <4>2
    <3>4. CASE c # appended
      <4>1. c + 1 \in reply .. appended /\ c < c + 1
        BY <1>1, <2>1, <3>4
      <4>2. c + 1 \in Address
        BY <2>3, <4>1, ListedIsAddress
      <4>3. c + 1 \in P
        <5> HIDE DEF P
        <5> QED BY <2>4, <4>1, <4>2
      <4>4. BlocksFrom(c + 1) = c + 1 .. appended
        BY <4>1, <4>3
      <4>5. {c} \cup (c + 1 .. appended) = c .. appended
        BY <1>1, <2>1
      <4> QED BY <3>1, <3>2, <3>4, <4>4, <4>5
    <3> QED BY <3>3, <3>4
  <2>5. P \in SUBSET Address
    OBVIOUS
  <2>6. P = Address
    <3> HIDE DEF P
    <3> QED BY <2>4, <2>5, Downward
  <2>7. reply \in Address /\ reply \in reply .. appended
    BY <1>1, <2>1, <2>3, ListedIsAddress
  <2>8. BlocksFrom(reply) = reply .. appended
    BY <2>6, <2>7
  <2> QED BY <2>2, <2>3, <2>8
<1> QED BY <1>2, <1>3

\* A reset ends with no list; unless a write was cut nothing else is left, and it never
\* meets a pointer that malloc did not return.
LEMMA ResetPreserves ==
  ASSUME ReplyInv, NEW next \in {"read", "closed"}, ResetReplyList(next),
         UNCHANGED <<orphans, appended, produced, cut>>, received' \in Seq(Nat),
         next = "read" => received' = Numbers(1, produced)
  PROVE  ReplyInv'
<1> DEFINE blocks == BlocksFrom(reply)
           interior == \E b \in blocks : block[b].bytes.offset # 0
<1>1. /\ reply' = NULL
      /\ \/ interior /\ at' = "aborted" /\ UNCHANGED <<block, data>>
         \/ ~interior /\ at' = next /\ Freed(blocks)
  BY DEF ResetReplyList
<1>2. ReplyTypeOK /\ Ascending /\ Sound
  BY DEF ReplyInv
<1>3. ~cut => /\ BlocksFrom(reply) = Listed
              /\ \A b \in Listed : block[b].bytes = [chunk |-> b, offset |-> 0]
              /\ DOMAIN block = Listed /\ DOMAIN data = Listed
  BY <1>2, WholeList DEF ReplyInv, NothingElse
<1>4. /\ DOMAIN block' \subseteq DOMAIN block /\ \A b \in DOMAIN block' : block'[b] = block[b]
      /\ DOMAIN data' \subseteq DOMAIN data /\ \A c \in DOMAIN data' : data'[c] = data[c]
      /\ block' = [b \in DOMAIN block' |-> block'[b]]
      /\ data' = [c \in DOMAIN data' |-> data'[c]]
  <2>1. CASE UNCHANGED <<block, data>>
    BY <1>2, <2>1 DEF ReplyTypeOK
  <2>2. CASE Freed(blocks)
    <3> HIDE DEF blocks
    <3> QED BY <2>2 DEF Freed
  <2> QED BY <1>1, <2>1, <2>2
<1>5. at' \in {"read", "write", "closed", "aborted", "killed"} /\ at' # "write"
  BY <1>1
<1>6. Listed' = {} /\ reply' \in DOMAIN block' \cup {NULL}
  BY <1>1 DEF Listed
<1>7. ReplyTypeOK'
  <2>1. block' \in [DOMAIN block' -> Block]
    <3>1. \A b \in DOMAIN block' : block'[b] \in Block
      BY <1>2, <1>4 DEF ReplyTypeOK
    <3> QED BY <1>4, <3>1
  <2>2. data' \in [DOMAIN data' -> Seq(Nat)]
    <3>1. \A c \in DOMAIN data' : data'[c] \in Seq(Nat)
      BY <1>2, <1>4 DEF ReplyTypeOK
    <3> QED BY <1>4, <3>1
  <2>3. DOMAIN block' \subseteq 1 .. appended' /\ DOMAIN data' \subseteq 1 .. appended'
    BY <1>2, <1>4 DEF ReplyTypeOK
  <2>4. appended' \in 0 .. MaxBlocks /\ produced' \in Nat /\ cut' \in BOOLEAN /\ orphans' \in Nat
    BY <1>2 DEF ReplyTypeOK
  <2> QED BY <1>5, <1>6, <2>1, <2>2, <2>3, <2>4 DEF ReplyTypeOK, Block
<1>8. Ascending' /\ Sound' /\ Whole'
  BY <1>1, <1>2, <1>4, <1>6 DEF Ascending, Sound, Whole
<1>9. ~cut' => NothingElse'
  <2> SUFFICES ASSUME ~cut
               PROVE  NothingElse'
    OBVIOUS
  <2>0. \A b \in blocks : block[b].bytes.chunk = b /\ block[b].bytes.offset = 0
    <3>1. ASSUME NEW b \in Listed PROVE block[b].bytes.chunk = b /\ block[b].bytes.offset = 0
      <4>1. block[b].bytes = [chunk |-> b, offset |-> 0]
        BY <1>3
      <4> QED BY <4>1
    <3> QED BY <1>3, <3>1
  <2>1. ~interior
    BY <2>0
  <2>2. Freed(blocks) /\ blocks = Listed
    BY <1>1, <1>3, <2>1
  <2> HIDE DEF blocks, interior
  <2>3. DOMAIN block' = {}
    BY <1>3, <2>2 DEF Freed
  <2>4. {block[b].bytes.chunk : b \in blocks} = Listed
    BY <2>0, <2>2
  <2>5. DOMAIN data' = {}
    BY <1>3, <2>2, <2>4 DEF Freed
  <2> QED BY <1>6, <2>3, <2>5 DEF NothingElse
<1>10. NotYetWritten'
  <2> SUFFICES ASSUME at' = "read"
               PROVE  received' \o BytesFrom(reply)' = Numbers(1, produced')
    BY <1>5 DEF NotYetWritten
  <2>1. next = "read"
    BY <1>1
  <2>2. BytesFrom(reply)' = <<>>
    BY <1>1, <1>7, <1>8, BytesUnfoldAfter
  <2>3. received' \o <<>> = received'
    BY ConcatEmptySeq
  <2> QED BY <2>1, <2>2, <2>3
<1> QED BY <1>1, <1>5, <1>7, <1>8, <1>9, <1>10 DEF ReplyInv

\* The block at the head of the list takes what is left of the block in which the
\* write ended; those that were skipped stay allocated.
LEMMA CutPreserves ==
  ASSUME ReplyInv, at = "write", NEW b \in Listed, NEW w \in 0 .. block[b].size - 1,
         HeadTakesRest(b, w), cut' = TRUE, UNCHANGED <<at, data, list, orphans, appended, produced>>,
         received' \in Seq(Nat),
         received' \o (Drop(BytesOf(b), w) \o BytesFrom(NextOf(b))) = Numbers(1, produced)
  PROVE  ReplyInv'
<1> DEFINE h == reply
<1>1. /\ ReplyTypeOK /\ Ascending /\ Sound /\ reply # NULL /\ replyRemaining = reply
  BY DEF ReplyInv, Listed
<1>2. /\ UNCHANGED <<at, data, reply, replyRemaining, orphans, appended, produced>>
  BY DEF list
<1>3. /\ h \in DOMAIN block /\ b \in DOMAIN block /\ h \in Nat /\ b \in Nat /\ h <= b
      /\ block[b] \in Block /\ h \in Listed
  <2>1. h \in DOMAIN block /\ b \in DOMAIN block
    BY <1>1 DEF ReplyTypeOK, Listed
  <2>2. DOMAIN block \subseteq Nat
    BY <1>1, SizesAreNumbers DEF ReplyTypeOK
  <2>3. h <= b /\ h <= h
    BY <2>1, <2>2 DEF Listed
  <2> QED BY <1>1, <2>1, <2>2, <2>3 DEF ReplyTypeOK, Listed
<1>4. /\ block[b].bytes \in [chunk : Nat, offset : Nat] /\ block[b].size \in Nat
      /\ block[b].next \in Address \cup {NULL} /\ w \in Nat
      /\ block[b].bytes.chunk \in Nat /\ block[b].bytes.offset \in Nat
  BY <1>3 DEF Block
<1>5. /\ DOMAIN block' = DOMAIN block /\ block' = [c \in DOMAIN block |-> block'[c]]
      /\ \A c \in DOMAIN block : c # h => block'[c] = block[c]
      /\ block'[h].bytes.chunk = block[b].bytes.chunk
      /\ block'[h].bytes.offset = block[b].bytes.offset + w
      /\ block'[h].size = block[b].size - w
      /\ block'[h].next = block[b].next
      /\ block'[h] \in Block
  <2> DEFINE r == [bytes |-> [block[b].bytes EXCEPT !.offset = @ + w],
                   size |-> block[b].size - w,
                   next |-> block[b].next]
  <2>1. block' = [block EXCEPT ![h] = r]
    BY <1>1 DEF HeadTakesRest
  <2>2. r.bytes = [chunk |-> block[b].bytes.chunk, offset |-> block[b].bytes.offset + w]
    BY <1>4
  <2>3. block[b].size - w \in Nat /\ block[b].bytes.offset + w \in Nat
    <3> DEFINE n == block[b].size
               o == block[b].bytes.offset
    <3>1. n \in Nat /\ o \in Nat /\ w \in 0 .. n - 1
      BY <1>4
    <3> HIDE DEF n, o
    <3>2. n - w \in Nat /\ o + w \in Nat
      BY <3>1
    <3> QED BY <3>2 DEF n, o
  <2>4. r \in Block
    BY <1>4, <2>2, <2>3 DEF Block
  <2>5. r.size = block[b].size - w /\ r.next = block[b].next
    OBVIOUS
  <2> HIDE DEF r
  <2>6. block'[h] = r
    BY <1>3, <2>1
  <2>7. \A c \in DOMAIN block : c # h => block'[c] = block[c]
    BY <2>1
  <2>8. DOMAIN block' = DOMAIN block /\ block' = [c \in DOMAIN block |-> block'[c]]
    BY <2>1
  <2> QED BY <2>2, <2>4, <2>5, <2>6, <2>7, <2>8
<1>6. ReplyTypeOK'
  <2>1. block' \in [DOMAIN block' -> Block]
    <3>1. \A c \in DOMAIN block' : block'[c] \in Block
      BY <1>1, <1>5 DEF ReplyTypeOK
    <3> QED BY <1>5, <3>1
  <2> QED BY <1>1, <1>2, <1>5, <2>1 DEF ReplyTypeOK, Block
<1>7. Listed' = Listed
  BY <1>2, <1>5 DEF Listed
<1>8. Ascending'
  <2>1. ASSUME NEW c \in DOMAIN block', block'[c].next # NULL
        PROVE  c < block'[c].next
    <3>1. CASE c = h
      <4>1. b < block[b].next /\ block[b].next \in Nat
        <5>1. block[b].next # NULL
          BY <1>5, <2>1, <3>1
        <5>2. Address \subseteq Nat
          BY SizesAreNumbers DEF Address
        <5> QED BY <1>1, <1>3, <1>4, <5>1, <5>2 DEF Ascending
      <4>2. h < block[b].next
        BY <1>3, <4>1
      <4> QED BY <1>5, <3>1, <4>2
    <3>2. CASE c # h
      BY <1>1, <1>5, <2>1, <3>2 DEF Ascending
    <3> QED BY <3>1, <3>2
  <2> QED BY <2>1 DEF Ascending
<1>9. Sound'
  <2>1. ASSUME NEW c \in Listed
        PROVE  /\ block'[c].next \in Listed \cup {NULL}
               /\ block'[c].bytes.chunk \in DOMAIN data
               /\ block'[c].bytes.offset + block'[c].size <= Len(data[block'[c].bytes.chunk])
    <3>1. CASE c = h
      <4>1. /\ block[b].next \in Listed \cup {NULL}
            /\ block[b].bytes.chunk \in DOMAIN data
            /\ block[b].bytes.offset + block[b].size <= Len(data[block[b].bytes.chunk])
        BY <1>1 DEF Sound
      <4>2. (block[b].bytes.offset + w) + (block[b].size - w) = block[b].bytes.offset + block[b].size
        BY <1>4
      <4> QED BY <1>5, <3>1, <4>1, <4>2
    <3>2. CASE c # h
      <4>1. block'[c] = block[c]
        BY <1>5, <3>2 DEF Listed
      <4> QED BY <1>1, <4>1 DEF Sound
    <3> QED BY <3>1, <3>2
  <2> QED BY <1>2, <1>7, <2>1 DEF Sound
<1>10. BytesOf(h)' = Drop(BytesOf(b), w)
  <2> DEFINE s == data[block[b].bytes.chunk]
             o == block[b].bytes.offset
             n == block[b].size
  <2>1. s \in Seq(Nat) /\ o \in Nat /\ n \in Nat /\ o + n <= Len(s) /\ w \in 0 .. n - 1
    BY <1>1, <1>4 DEF ReplyTypeOK, Sound
  <2>2. BytesOf(h)' = SubSeq(s, (o + w) + 1, (o + w) + (n - w))
    BY <1>2, <1>5 DEF BytesOf
  <2>3. BytesOf(b) \in Seq(Nat) /\ Len(BytesOf(b)) = n
        /\ \A i \in 1 .. n : BytesOf(b)[i] = s[o + i]
    BY <1>1, BytesOfBlock
  <2> HIDE DEF s, o, n
  <2>4. /\ Drop(BytesOf(b), w) \in Seq(Nat) /\ Len(Drop(BytesOf(b), w)) = n - w
        /\ \A i \in 1 .. n - w : Drop(BytesOf(b), w)[i] = BytesOf(b)[w + i]
    <3>1. w \in 0 .. Len(BytesOf(b))
      BY <2>1, <2>3
    <3>2. /\ Drop(BytesOf(b), w) \in Seq(Nat) /\ Len(Drop(BytesOf(b), w)) = Len(BytesOf(b)) - w
          /\ \A i \in 1 .. Len(BytesOf(b)) - w : Drop(BytesOf(b), w)[i] = BytesOf(b)[w + i]
      BY <2>3, <3>1, DropIs
    <3> QED BY <2>3, <3>2
  <2> DEFINE first == (o + w) + 1
             last == (o + w) + (n - w)
             u == SubSeq(s, first, last)
  <2>5. /\ first \in Int /\ last \in Int /\ last = o + n
        /\ last - first + 1 = n - w /\ first <= last
    BY <2>1
  <2>6. \A i \in first .. last : s[i] \in Nat
    <3>1. ASSUME NEW i \in first .. last PROVE i \in 1 .. Len(s)
      BY <2>1
    <3> HIDE DEF first, last
    <3> QED BY <2>1, <3>1, ElementOfSeq
  <2>7. \A i \in 1 .. n - w : first + i - 1 = o + (w + i) /\ w + i \in 1 .. n
    BY <2>1
  <2> HIDE DEF first, last
  <2>8. /\ u \in Seq(Nat) /\ Len(u) = IF first <= last THEN last - first + 1 ELSE 0
        /\ \A i \in 1 .. last - first + 1 : u[i] = s[first + i - 1]
    BY <2>5, <2>6, SubSeqProperties
  <2> HIDE DEF u
  <2>9. Len(u) = n - w /\ \A i \in 1 .. n - w : u[i] = s[first + i - 1]
    BY <2>5, <2>8
  <2>10. ASSUME NEW i \in 1 .. n - w PROVE u[i] = Drop(BytesOf(b), w)[i]
    <3>1. u[i] = s[o + (w + i)] /\ w + i \in 1 .. n
      BY <2>7, <2>9
    <3> QED BY <2>3, <2>4, <3>1
  <2>11. u = Drop(BytesOf(b), w)
    BY <2>4, <2>8, <2>9, <2>10, SeqEqual
  <2> QED BY <2>2, <2>11 DEF u, first, last
<1>11. BytesFrom(NextOf(b))' = BytesFrom(NextOf(b))
  <2> DEFINE S == {c \in Listed : h < c}
  <2>1. ASSUME NEW c \in S
        PROVE  /\ BytesOf(c)' = BytesOf(c)
               /\ \/ NextOf(c) \in S /\ NextOf(c)' = NextOf(c)
                  \/ NextOf(c) = NULL /\ BytesFrom(NextOf(c))' = <<>>
    <3>1. c \in Listed /\ h < c /\ c \in DOMAIN block /\ c \in Nat
      BY ListedIsAddress, <1>1, SizesAreNumbers DEF Address
    <3>2. block'[c] = block[c] /\ DOMAIN block' = DOMAIN block
      BY <1>3, <1>5, <3>1
    <3>3. BytesOf(c)' = BytesOf(c)
      BY <1>2, <3>2 DEF BytesOf
    <3>4. NextOf(c)' = NextOf(c) /\ NextOf(c) = block[c].next
      BY <3>1, <3>2 DEF NextOf
    <3>5. CASE NextOf(c) = NULL
      <4>1. BytesFrom(NextOf(c))' = <<>>
        BY <1>6, <1>8, <3>4, <3>5, BytesUnfoldAfter
      <4> QED BY <3>3, <3>5, <4>1
    <3>6. CASE NextOf(c) # NULL
      <4>1. NextOf(c) \in Listed /\ c < NextOf(c)
        BY <1>1, <3>1, <3>4, <3>6 DEF Sound, Ascending
      <4>2. NextOf(c) \in Nat
        BY <1>1, <4>1, ListedIsAddress, SizesAreNumbers DEF Address
      <4>3. h < NextOf(c)
        BY <1>3, <3>1, <4>1, <4>2
      <4> QED BY <3>3, <3>4, <4>1, <4>3
    <3> QED BY <3>5, <3>6
  <2>2. S \in SUBSET Listed /\ <<>> \in Seq(Nat)
    OBVIOUS
  <2>3. \A c \in S : BytesFrom(c)' = BytesFrom(c) \o <<>>
    <3> HIDE DEF S
    <3> QED BY <1>1, <1>6, <1>8, <2>1, <2>2, MoreBytes
  <2>4. NextOf(b) = block[b].next /\ NextOf(b)' = NextOf(b)
    <3>1. block'[b].next = block[b].next
      BY <1>3, <1>5
    <3> QED BY <1>3, <1>5, <3>1 DEF NextOf
  <2>5. CASE NextOf(b) = NULL
    <3>1. BytesFrom(NextOf(b))' = <<>>
      BY <1>6, <1>8, <2>4, <2>5, BytesUnfoldAfter
    <3> QED BY <1>1, <2>5, <3>1, BytesUnfold
  <2>6. CASE NextOf(b) # NULL
    <3>1. NextOf(b) \in Listed /\ b < NextOf(b)
      BY <1>1, <1>3, <2>4, <2>6 DEF Sound, Ascending
    <3>2. NextOf(b) \in Nat
      BY <1>1, <3>1, ListedIsAddress, SizesAreNumbers DEF Address
    <3>3. NextOf(b) \in S
      BY <1>3, <3>1, <3>2
    <3>4. BytesFrom(NextOf(b)) \in Seq(Nat)
      BY <1>1, <3>1, BytesAreNumbers
    <3>5. BytesFrom(NextOf(b))' = BytesFrom(NextOf(b)) \o <<>>
      <4> HIDE DEF S
      <4> QED BY <2>3, <2>4, <3>3
    <3> QED BY <3>4, <3>5, ConcatEmptySeq
  <2> QED BY <2>5, <2>6
<1>12. BytesFrom(replyRemaining)' = Drop(BytesOf(b), w) \o BytesFrom(NextOf(b))
  <2>1. BytesFrom(h)' = BytesOf(h)' \o BytesFrom(NextOf(h))'
    <3>1. h \in Address /\ h' = h
      BY <1>1, <1>2, <1>3, ListedIsAddress
    <3> QED BY <1>6, <1>8, <3>1, BytesUnfoldAfter
  <2>2. NextOf(h)' = NextOf(b) /\ NextOf(b)' = NextOf(b)
    <3>1. block'[b].next = block[b].next
      BY <1>3, <1>5
    <3> QED BY <1>2, <1>3, <1>5, <3>1 DEF NextOf
  <2>3. BytesFrom(NextOf(h))' = BytesFrom(NextOf(b))
    BY <1>11, <2>2
  <2> QED BY <1>1, <1>2, <1>10, <2>1, <2>3
<1>13. NotYetWritten'
  BY <1>2, <1>12 DEF NotYetWritten
<1> QED BY <1>1, <1>2, <1>6, <1>8, <1>9, <1>13 DEF ReplyInv

\* rchkHandleWriteEvent, whatever part of the list writev takes.
LEMMA WritePreserves ==
  ASSUME ReplyInv, NEW n \in 0 .. produced, Write(n)
  PROVE  ReplyInv'
<1> DEFINE bytes == BytesFrom(replyRemaining)
           left == FirstUnwritten(n)
<1>1. /\ at = "write" /\ n <= Len(bytes)
      /\ received' = received \o SubSeq(bytes, 1, n)
      /\ UNCHANGED <<orphans, appended, produced>>
  BY DEF Write
<1>2. \/ left.block = NULL /\ ResetReplyList("read") /\ UNCHANGED cut
      \/ /\ left.block # NULL /\ HeadTakesRest(left.block, left.written)
         /\ cut' = TRUE /\ UNCHANGED <<at, data, list>>
  BY DEF Write
<1>3. /\ ReplyTypeOK /\ Ascending /\ Sound /\ replyRemaining = reply
      /\ received \o bytes = Numbers(1, produced)
      /\ received \in Seq(Nat) /\ produced \in Nat
  BY <1>1 DEF ReplyInv, NotYetWritten, ReplyTypeOK
<1>4. reply \in Listed \cup {NULL}
  <2> SUFFICES ASSUME reply # NULL
               PROVE  reply \in Listed
    OBVIOUS
  <2>1. reply \in DOMAIN block /\ DOMAIN block \subseteq Nat
    BY <1>3, SizesAreNumbers DEF ReplyTypeOK
  <2>2. reply <= reply
    BY <2>1
  <2> QED BY <2>1, <2>2 DEF Listed
<1>5. bytes \in Seq(Nat)
  BY <1>3, <1>4, BytesAreNumbers
<1>6. \/ left.block = NULL /\ n = Len(bytes)
      \/ /\ left.block \in Listed
         /\ left.written \in 0 .. block[left.block].size - 1
         /\ Drop(bytes, n) = Drop(BytesOf(left.block), left.written) \o BytesFrom(NextOf(left.block))
  <2>1. n \in Nat /\ n \in 0 .. n /\ n <= Len(bytes)
    BY <1>1, <1>5
  <2>2. PICK f : IsWalk(f, n) /\ left = f[replyRemaining][n]
    BY <1>3, <2>1, FirstUnwrittenIsWalked
  <2>3. replyRemaining \in Listed \cup {NULL}
    BY <1>3, <1>4
  <2> DEFINE l == f[replyRemaining][n]
  <2>4. \/ l.block = NULL /\ n = Len(bytes)
        \/ /\ l.block \in Listed
           /\ l.written \in 0 .. block[l.block].size - 1
           /\ Drop(bytes, n) = Drop(BytesOf(l.block), l.written) \o BytesFrom(NextOf(l.block))
    <3> HIDE DEF left
    <3> QED BY <1>3, <2>1, <2>2, <2>3, Walked
  <2> HIDE DEF bytes, left
  <2> QED BY <2>2, <2>4
<1> HIDE DEF bytes, left
<1>7. SubSeq(bytes, 1, n) \in Seq(Nat) /\ SubSeq(bytes, 1, n) \o Drop(bytes, n) = bytes
  <2>1. n \in 0 .. Len(bytes)
    BY <1>1, <1>5
  <2> QED BY <1>5, <2>1, TakeAndDrop
<1>8. received' \in Seq(Nat)
  BY <1>1, <1>3, <1>7, ConcatProperties
<1>9. CASE left.block = NULL
  <2>1. n = Len(bytes) /\ ResetReplyList("read") /\ UNCHANGED cut
    <3>1. NULL \notin Listed
      BY <1>3, ListedIsAddress, NullIsElsewhere
    <3> QED BY <1>2, <1>6, <1>9, <3>1
  <2>2. received' = Numbers(1, produced)
    <3>1. SubSeq(bytes, 1, n) = bytes
      BY <1>5, <2>1, SubSeqFull
    <3> QED BY <1>1, <1>3, <3>1
  <2> QED BY <1>1, <1>8, <2>1, <2>2, ResetPreserves
<1>10. CASE left.block # NULL
  <2>1. /\ left.block \in Listed /\ left.written \in 0 .. block[left.block].size - 1
        /\ HeadTakesRest(left.block, left.written)
        /\ cut' = TRUE /\ UNCHANGED <<at, data, list>>
    BY <1>2, <1>6, <1>10
  <2>2. received' \o Drop(bytes, n) = Numbers(1, produced)
    <3>1. Drop(bytes, n) \in Seq(Nat)
      <4>1. n \in 0 .. Len(bytes)
        BY <1>1, <1>5
      <4> QED BY <1>5, <4>1, DropIs
    <3>2. (received \o SubSeq(bytes, 1, n)) \o Drop(bytes, n)
            = received \o (SubSeq(bytes, 1, n) \o Drop(bytes, n))
      <4>1. received \in Seq(Nat) /\ SubSeq(bytes, 1, n) \in Seq(Nat)
        BY <1>3, <1>7
      <4> QED BY <3>1, <4>1, Associative, Zenon
    <3> QED BY <1>1, <1>3, <1>7, <3>2
  <2>3. received' \o (Drop(BytesOf(left.block), left.written) \o BytesFrom(NextOf(left.block)))
          = Numbers(1, produced)
    BY <1>6, <1>10, <2>2
  <2> QED BY <1>1, <1>8, <2>1, <2>3, CutPreserves
<1> QED BY <1>9, <1>10

\* The end of a connection is a reset.
LEMMA EndPreserves ==
  ASSUME ReplyInv, ConnectionEnds
  PROVE  ReplyInv'
<1>1. ResetReplyList("closed") /\ UNCHANGED <<orphans, appended, produced, received, cut>>
  BY DEF ConnectionEnds
<1>2. received' \in Seq(Nat)
  BY <1>1 DEF ReplyInv, ReplyTypeOK
<1> QED BY <1>1, <1>2, ResetPreserves

\* Steps that touch no reply.
LEMMA IdlePreserves ==
  ASSUME ReplyInv, at' = at \/ (at = "write" /\ at' = "killed"), orphans' \in Nat,
         UNCHANGED <<block, data, list, appended, produced, received, cut>>
  PROVE  ReplyInv'
<1>1. UNCHANGED <<reply, replyTail, replyRemaining>>
  BY DEF list
<1>2. ReplyTypeOK'
  BY <1>1 DEF ReplyInv, ReplyTypeOK, Block
<1>3. Ascending' /\ Sound'
  BY <1>1 DEF ReplyInv, Ascending, Sound, Listed
<1>4. (at' = "read" \/ ~cut' => Whole') /\ (~cut' => NothingElse')
  BY <1>1 DEF ReplyInv, Whole, NothingElse, Listed
<1>5. NotYetWritten'
  <2>1. \A b : BytesFrom(b)' = BytesFrom(b)
    BY SameBytes
  <2>2. BytesFrom(reply)' = BytesFrom(reply) /\ BytesFrom(replyRemaining)' = BytesFrom(replyRemaining)
    BY <1>1, <2>1
  <2> QED BY <2>2 DEF ReplyInv, NotYetWritten
<1> QED BY <1>1, <1>2, <1>3, <1>4, <1>5 DEF ReplyInv

-----------------------------------------------------------------------------
\* All of it holds of every reply.
THEOREM ReplyInvariance == ReplySpec => []ReplyInv
<1>1. ReplyInit => ReplyInv
  <2> SUFFICES ASSUME ReplyInit
               PROVE  ReplyInv
    OBVIOUS
  <2>1. /\ at = "read" /\ block = <<>> /\ data = <<>>
        /\ reply = NULL /\ replyTail = NULL /\ replyRemaining = NULL
        /\ appended = 0 /\ produced = 0 /\ received = <<>> /\ cut = FALSE /\ orphans = 0
    BY DEF ReplyInit
  <2>2. DOMAIN block = {} /\ DOMAIN data = {}
    BY <2>1
  <2>3. ReplyTypeOK
    <3>1. block \in [DOMAIN block -> Block] /\ data \in [DOMAIN data -> Seq(Nat)]
      BY <2>1, <2>2
    <3>2. 0 \in 0 .. MaxBlocks /\ <<>> \in Seq(Nat)
      BY SizesAreNumbers
    <3> QED BY <2>1, <2>2, <3>1, <3>2 DEF ReplyTypeOK
  <2>4. Listed = {} /\ Ascending /\ Sound /\ Whole /\ NothingElse
    BY <2>1, <2>2 DEF Listed, Ascending, Sound, Whole, NothingElse
  <2>5. received \o BytesFrom(reply) = Numbers(1, produced)
    <3>1. BytesFrom(reply) = <<>>
      BY <2>1, <2>3, <2>4, BytesUnfold
    <3>2. Numbers(1, 0) = <<>>
      BY NumbersAre, EmptySeq
    <3> QED BY <2>1, <3>1, <3>2
  <2> QED BY <2>1, <2>3, <2>4, <2>5 DEF ReplyInv, NotYetWritten
<1>2. ReplyInv /\ [ReplyNext]_replyVars => ReplyInv'
  <2> SUFFICES ASSUME ReplyInv, [ReplyNext]_replyVars
               PROVE  ReplyInv'
    OBVIOUS
  <2>1. ASSUME NEW n \in BlockSizes, AppendToReply(n) PROVE ReplyInv'
    <3>1. at = "read" /\ UNCHANGED <<at, replyRemaining, received, cut>>
      BY <2>1 DEF AppendToReply
    <3>2. CASE Linked(n)
      BY <3>1, <3>2, AppendPreserves
    <3>3. CASE NotLinked
      <4>1. orphans' \in Nat
        BY <3>3 DEF NotLinked, ReplyInv, ReplyTypeOK
      <4> QED BY <3>1, <3>3, <4>1, IdlePreserves DEF NotLinked, list
    <3> QED BY <2>1, <3>2, <3>3 DEF AppendToReply
  <2>2. CASE StartWriting
    BY <2>2, StartPreserves
  <2>3. CASE WriteSome
    BY <2>3, WritePreserves DEF WriteSome
  <2>4. CASE ConnectionEnds
    BY <2>4, EndPreserves
  <2>5. CASE BrokenPipe
    BY <2>5, IdlePreserves DEF BrokenPipe, ReplyInv, ReplyTypeOK
  <2>6. CASE UNCHANGED replyVars
    BY <2>6, IdlePreserves DEF replyVars, ReplyInv, ReplyTypeOK
  <2> QED BY <2>1, <2>2, <2>3, <2>4, <2>5, <2>6 DEF ReplyNext
<1> QED BY <1>1, <1>2, PTL DEF ReplySpec

\* What the list holds is what the client has not got, byte for byte, wherever the
\* writes of rchkHandleWriteEvent were cut and however long the reply is.
THEOREM NothingLostNorTwice == ReplySpec => []NotYetWritten
<1>1. ReplyInv => NotYetWritten
  BY DEF ReplyInv
<1> QED BY <1>1, ReplyInvariance, PTL

\* rchkClientResetReplyList frees every block and every chunk of bytes of a reply
\* of which no write was cut; what malloc failures orphaned is all that stays allocated.
THEOREM NothingLeftBehind == ReplySpec => []PurgedUnlessCut
<1>1. ReplyInv => PurgedUnlessCut
  <2> SUFFICES ASSUME ReplyInv, reply = NULL, ~cut
               PROVE  Allocated = orphans
    BY DEF PurgedUnlessCut
  <2>1. DOMAIN block = {} /\ DOMAIN data = {}
    BY DEF ReplyInv, NothingElse, Listed
  <2>2. Cardinality(DOMAIN block) = 0 /\ Cardinality(DOMAIN data) = 0
    BY <2>1, FS_EmptySet
  <2> QED BY <2>2 DEF Allocated, ReplyInv, ReplyTypeOK
<1> QED BY <1>1, ReplyInvariance, PTL
=============================================================================
