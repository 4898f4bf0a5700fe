------------------------- MODULE ReadHandlerProofs -------------------------
(***************************************************************************)
(* The parser of requests, for all requests of up to nine arguments of up  *)
(* to nine characters, every cut of the network and every size of the      *)
(* buffer: until a client has had more than two requests under way, each   *)
(* byte is parsed as the part of a request it is.                          *)
(***************************************************************************)
EXTENDS ReadHandler, FiniteSetTheorems, SequenceTheorems, TLAPS

\* The second and the third set are in the first one, which no prover knows.
Byte == STRING \cup {"*", "$", "CR", "LF"} \cup ToSet(Digits)
Arg == [size : Nat, bytes : Seq(Byte)]

TypeOK ==
  /\ sent \in Seq(Request) /\ executed \in Seq(Seq(Seq(Byte)))
  /\ net \in Seq(Byte) /\ queryBuff \in Seq(Byte)
  /\ answered \in Nat /\ queryBuffPos \in Nat /\ idx \in Nat /\ argi \in Nat /\ argc \in Nat
  /\ argv \in [0 .. MaxArgs-1 -> Arg]

-----------------------------------------------------------------------------
(* Where the parts of a request are among its bytes                        *)

\* o[i] bytes of an encoded request come before its i-th argument.
IsLayout(cmd, o) ==
  LET bytes == Encoded(cmd)
      n == Len(cmd)
  IN /\ o[1] = 4 /\ o[n + 1] = Len(bytes)
     /\ bytes[1] = "*" /\ bytes[2] = Decimal(n) /\ bytes[3] = "CR" /\ bytes[4] = "LF"
     /\ \A i \in 1 .. n :
          /\ o[i + 1] = o[i] + 4 + Len(cmd[i]) /\ o[i + 1] <= Len(bytes)
          /\ bytes[o[i] + 1] = "$" /\ bytes[o[i] + 2] = Decimal(Len(cmd[i]))
          /\ bytes[o[i] + 3] = "CR" /\ bytes[o[i] + 4] = "LF"
          /\ \A j \in 1 .. Len(cmd[i]) : bytes[o[i] + 4 + j] = cmd[i][j]

Offsets(cmd) == CHOOSE o \in [1 .. Len(cmd) + 1 -> Nat] : IsLayout(cmd, o)

-----------------------------------------------------------------------------
(* The inductive invariant                                                 *)

\* The number of the request that is parsed, and all bytes from its first on.
Current == Len(executed) + 1
Cmd == sent[Current]

BytesOf(requests, k) == IF k <= Len(requests) THEN Encoded(requests[k]) ELSE <<>>
StreamFrom(requests, k) == BytesOf(requests, k) \o BytesOf(requests, k + 1)

\* What has not been parsed, the buffer from pos on and the bytes in the network, is
\* a stream without its first p bytes.
Follows(buff, rest, stream, pos, p) ==
  /\ pos <= Len(buff)
  /\ Len(stream) = p + (Len(buff) - pos) + Len(rest)
  /\ \A j \in 1 .. Len(buff) - pos : buff[pos + j] = stream[p + j]
  /\ \A j \in 1 .. Len(rest) : rest[j] = stream[p + (Len(buff) - pos) + j]

Synced(pos, p) == Follows(queryBuff, net, StreamFrom(sent, Current), pos, p)

Loaded(m) == \A j \in 0 .. m-1 : argv[j] = [size |-> Len(Cmd[j + 1]), bytes |-> Cmd[j + 1]]
EmptyFrom(m) == \A j \in m .. MaxArgs-1 : argv[j] = NoArg

\* A request the handler does not expect was sent.
Disturbed == ~OnlyRegularSent

\* The states of the parser with p bytes of the current request consumed.
AtArray(p) ==
  /\ queryParserState = "ARRAY"
  /\ argc = 0 /\ argi = 0 /\ EmptyFrom(0)
  /\ p = 0 \/ (p = 1 /\ Disturbed)    \* a byte was eaten

AtArraySize(p) ==
  /\ queryParserState = "ARRAY_SIZE"
  /\ argi = 0 /\ EmptyFrom(0)
  /\ (p = 1 /\ argc = 0) \/ (p \in {2, 3} /\ argc = Len(Cmd))

InArguments ==
  argc = Len(Cmd) /\ argi < argc /\ Loaded(argi) /\ EmptyFrom(argi + 1)

AtElement(p) ==
  /\ queryParserState = "ELEMENT"
  /\ InArguments
  /\ p = Offsets(Cmd)[argi + 1] /\ argv[argi] = NoArg

AtElementSize(p) ==
  /\ queryParserState = "ELEMENT_SIZE"
  /\ InArguments
  /\ argv[argi].bytes = <<>>
  /\ \/ p = Offsets(Cmd)[argi + 1] + 1 /\ argv[argi].size = 0
     \/ /\ p \in {Offsets(Cmd)[argi + 1] + 2, Offsets(Cmd)[argi + 1] + 3}
        /\ argv[argi].size = Len(Cmd[argi + 1])

AtElementBytes(p) ==
  /\ queryParserState = "ELEMENT_BYTES"
  /\ InArguments
  /\ argv[argi].size = Len(Cmd[argi + 1])
  /\ Len(argv[argi].bytes) < argv[argi].size
  /\ \A j \in 1 .. Len(argv[argi].bytes) : argv[argi].bytes[j] = Cmd[argi + 1][j]
  /\ p = Offsets(Cmd)[argi + 1] + 4 + Len(argv[argi].bytes)

AtDone(p) ==
  /\ queryParserState = "DONE"
  /\ Current <= Len(sent)
  /\ argc = Len(Cmd) /\ argi = argc /\ Loaded(argc) /\ EmptyFrom(argc)
  /\ p = Len(Encoded(Cmd))

Inside(p) ==
  /\ Current <= Len(sent)
  /\ AtArraySize(p) \/ AtElement(p) \/ AtElementSize(p) \/ AtElementBytes(p)

Broken == queryParserState = "ERROR" /\ Disturbed

\* What holds where the server is.
Waits ==
  /\ queryBuff = <<>> /\ queryBuffPos = 0
  /\ \/ Broken
     \/ \E p \in Nat : Synced(0, p) /\ (Inside(p) \/ (AtArray(p) /\ answered = Len(executed)))

Parses ==
  /\ idx <= Len(queryBuff)
  /\ queryBuffPos > 0 => Len(executed) = answered + 1
  /\ \/ Broken
     \/ \E p \in Nat :
          /\ Synced(idx, p)
          /\ \/ Inside(p)
             \/ AtArray(p) /\ idx < Len(queryBuff)
             \/ AtDone(p) /\ ~Regular(Cmd)

Parsed ==
  /\ queryBuffPos > 0 => Len(executed) = answered + 1
  /\ \/ Broken
     \/ \E p \in Nat :
          \/ Inside(p) /\ idx = Len(queryBuff) /\ Synced(idx, p)
          \/ AtDone(p) /\ (Synced(idx + 1, p) \/ (Synced(idx, p) /\ ~Regular(Cmd)))

Writes ==
  /\ queryParserState = "DONE"
  /\ answered < Len(executed)
  /\ argc \in 0 .. MaxArgs /\ EmptyFrom(argc)
  /\ \E p \in Nat : Synced(Len(queryBuff), p) /\ (p = 0 \/ (p = 1 /\ Disturbed))

Exited == queryParserState \in {"DONE", "ERROR"} /\ Disturbed

Counted ==
  /\ IsPrefix(executed, sent)
  /\ answered <= Len(executed) /\ Len(sent) <= answered + 2

IInv ==
  /\ TypeOK /\ Counted
  /\ at \in {"wait", "parse", "parsed", "write", "exited"}
  /\ at = "wait"   => Waits
  /\ at = "parse"  => Parses
  /\ at = "parsed" => Parsed
  /\ at = "write"  => Writes
  /\ at = "exited" => Exited

-----------------------------------------------------------------------------
(* Induction on the natural numbers, for a set instead of a predicate      *)

LEMMA LeastNatural ==
  ASSUME NEW T \in SUBSET Nat, T # {}
  PROVE  \E x \in T : \A y \in T : x <= y
<1> DEFINE Below(n) == 0 .. n
           F == {Below(n) : n \in T}
<1>1. F \subseteq FiniteSubsetsOf(Nat) /\ F # {}
  <2>1. ASSUME NEW n \in T PROVE Below(n) \in SUBSET Nat /\ IsFiniteSet(Below(n))
    BY FS_Interval
  <2> HIDE DEF Below
  <2> QED BY <2>1 DEF FiniteSubsetsOf
<1>2. IsWellFoundedOn(StrictSubsetOrdering(Nat), FiniteSubsetsOf(Nat))
  BY FS_StrictSubsetOrderingWellFounded
<1>3. \E A \in F : \A B \in F : <<B, A>> \notin StrictSubsetOrdering(Nat)
  <2> HIDE DEF F
  <2> QED BY <1>1, <1>2, WFMin
<1>4. PICK n \in T : \A m \in T : <<Below(m), Below(n)>> \notin StrictSubsetOrdering(Nat)
  BY <1>3
<1>5. ASSUME NEW m \in T, m < n PROVE FALSE
  <2>1. Below(m) \subseteq Below(n) /\ Below(m) # Below(n)
    BY <1>5
  <2>2. Below(m) \in SUBSET Nat /\ Below(n) \in SUBSET Nat
    OBVIOUS
  <2> HIDE DEF Below
  <2> QED BY <1>4, <2>1, <2>2 DEF StrictSubsetOrdering
<1> QED BY <1>5

LEMMA Induction ==
  ASSUME NEW T \in SUBSET Nat, 0 \in T, \A m \in T : m + 1 \in T
  PROVE  \A m \in Nat : m \in T
<1> SUFFICES ASSUME Nat \ T # {}
             PROVE  FALSE
  OBVIOUS
<1>1. PICK x \in Nat \ T : \A y \in Nat \ T : x <= y
  BY LeastNatural
<1>2. x - 1 \in Nat /\ x - 1 \in T
  BY <1>1
<1> QED BY <1>1, <1>2

-----------------------------------------------------------------------------
(* Sequences                                                               *)

LEMMA ConcatIsSequence ==
  ASSUME NEW S, NEW s \in Seq(S), NEW t \in Seq(S)
  PROVE  s \o t \in Seq(S) /\ Len(s \o t) = Len(s) + Len(t)
BY ConcatProperties

LEMMA ConcatFirst ==
  ASSUME NEW S, NEW s \in Seq(S), NEW t \in Seq(S), NEW i \in 1 .. Len(s)
  PROVE  (s \o t)[i] = s[i]
OBVIOUS

LEMMA ConcatSecond ==
  ASSUME NEW S, NEW s \in Seq(S), NEW t \in Seq(S), NEW i \in 1 .. Len(t)
  PROVE  (s \o t)[Len(s) + i] = t[i]
OBVIOUS

LEMMA FlattenExists ==
  ASSUME NEW B, NEW s \in Seq(Seq(B))
  PROVE  \E f \in [1 .. Len(s) -> Seq(B)] :
           \A i \in 1 .. Len(s) : f[i] = IF i = 1 THEN s[i] ELSE f[i-1] \o s[i]
<1> DEFINE Is(f, m) == \A i \in 1 .. m : f[i] = IF i = 1 THEN s[i] ELSE f[i-1] \o s[i]
           T == {m \in Nat : m <= Len(s) => \E f \in [1 .. m -> Seq(B)] : Is(f, m)}
<1>1. 0 \in T
  <2>1. [i \in 1 .. 0 |-> <<>>] \in [1 .. 0 -> Seq(B)] /\ Is([i \in 1 .. 0 |-> <<>>], 0)
    OBVIOUS
  <2> QED BY <2>1
<1>2. ASSUME NEW m \in T
      PROVE  m + 1 \in T
  <2> SUFFICES ASSUME m + 1 <= Len(s)
               PROVE  \E f \in [1 .. m+1 -> Seq(B)] : Is(f, m + 1)
    <3>1. m \in Nat /\ m + 1 \in Nat
      OBVIOUS
    <3> QED BY <3>1, Zenon
  <2>0. m \in Nat /\ m <= Len(s)
    OBVIOUS
  <2>1. PICK f \in [1 .. m -> Seq(B)] : Is(f, m)
    BY <2>0, Zenon
  <2>2. s[m + 1] \in Seq(B) /\ (m > 0 => f[m] \in Seq(B) /\ f[m] \o s[m + 1] \in Seq(B))
    BY ConcatProperties
  <2> DEFINE last == IF m = 0 THEN s[1] ELSE f[m] \o s[m + 1]
             g == [i \in 1 .. m+1 |-> IF i <= m THEN f[i] ELSE last]
  <2>3. last \in Seq(B)
    BY <2>2
  <2> HIDE DEF last
  <2>4. g \in [1 .. m+1 -> Seq(B)]
    BY <2>3
  <2>5. ASSUME NEW i \in 1 .. m+1
        PROVE  g[i] = IF i = 1 THEN s[i] ELSE g[i-1] \o s[i]
    <3>1. CASE i <= m
      <4>1. i \in 1 .. m /\ g[i] = f[i]
        BY <2>0, <3>1
      <4>2. i # 1 => g[i-1] = f[i-1]
        BY <2>0, <3>1
      <4> HIDE DEF g
      <4> QED BY <2>1, <4>1, <4>2
    <3>2. CASE i = m + 1
      <4>1. g[i] = last /\ (m > 0 => g[i-1] = f[m])
        BY <2>0, <3>2
      <4> HIDE DEF g
      <4> QED BY <2>0, <3>2, <4>1 DEF last
    <3> QED BY <3>1, <3>2
  <2> HIDE DEF g
  <2> QED BY <2>4, <2>5
<1>3. Len(s) \in T
  <2> HIDE DEF T
  <2>1. Len(s) \in Nat /\ T \in SUBSET Nat
    BY DEF T
  <2> QED BY <1>1, <1>2, <2>1, Induction
<1>4. Len(s) <= Len(s)
  OBVIOUS
<1> QED BY <1>3, <1>4, Zenon

\* What the community module computes, as the equation it stands for.
LEMMA FlattenUnfolds ==
  ASSUME NEW B, NEW s \in Seq(Seq(B)), Len(s) > 0
  PROVE  \E f : /\ f = [i \in 1 .. Len(s) |-> IF i = 1 THEN s[i] ELSE f[i-1] \o s[i]]
                /\ FlattenSeq(s) = f[Len(s)]
<1>1. PICK f \in [1 .. Len(s) -> Seq(B)] :
        \A i \in 1 .. Len(s) : f[i] = IF i = 1 THEN s[i] ELSE f[i-1] \o s[i]
  BY FlattenExists, Zenon
<1>2. f = [i \in 1 .. Len(s) |-> IF i = 1 THEN s[i] ELSE f[i-1] \o s[i]]
  BY <1>1
<1> DEFINE flatten == CHOOSE g : g = [i \in 1 .. Len(s) |-> IF i = 1 THEN s[i] ELSE g[i-1] \o s[i]]
<1>3. flatten = [i \in 1 .. Len(s) |-> IF i = 1 THEN s[i] ELSE flatten[i-1] \o s[i]]
  BY <1>2, Zenon
<1>4. FlattenSeq(s) = flatten[Len(s)]
  BY Len(s) # 0, Zenon DEF FlattenSeq
<1> QED BY <1>3, <1>4

\* Where each sequence is in the flattened one.
AreParts(s, o, flat) ==
  /\ o[0] = 0 /\ \A i \in 1 .. Len(s) : o[i] = o[i-1] + Len(s[i])
  /\ Len(flat) = o[Len(s)] /\ \A i \in 1 .. Len(s) : o[i] <= Len(flat)
  /\ \A i \in 1 .. Len(s) : \A j \in 1 .. Len(s[i]) : flat[o[i-1] + j] = s[i][j]

LEMMA FlattenParts ==
  ASSUME NEW B, NEW s \in Seq(Seq(B))
  PROVE  /\ FlattenSeq(s) \in Seq(B)
         /\ \E o \in [0 .. Len(s) -> Nat] : AreParts(s, o, FlattenSeq(s))
<1> DEFINE n == Len(s)
<1>0. n \in Nat /\ \A i \in 1 .. n : s[i] \in Seq(B) /\ Len(s[i]) \in Nat
  OBVIOUS
<1>1. CASE n = 0
  <2>1. FlattenSeq(s) = s /\ s = <<>>
    BY <1>1 DEF FlattenSeq
  <2>2. [i \in 0 .. 0 |-> 0] \in [0 .. Len(s) -> Nat] /\ AreParts(s, [i \in 0 .. 0 |-> 0], s)
    BY <1>1 DEF AreParts
  <2>3. s \in Seq(B)
    BY <2>1
  <2> QED BY <2>1, <2>2, <2>3
<1>2. CASE n > 0
  <2>1. PICK f : /\ f = [i \in 1 .. n |-> IF i = 1 THEN s[i] ELSE f[i-1] \o s[i]]
                 /\ FlattenSeq(s) = f[n]
    BY <1>2, FlattenUnfolds
  <2> DEFINE o == [i \in 0 .. n |-> IF i = 0 THEN 0 ELSE Len(f[i])]
             Good(m) == /\ f[m] \in Seq(B)
                        /\ \A i \in 1 .. m :
                             /\ o[i] \in Nat /\ o[i-1] \in Nat /\ o[i] = o[i-1] + Len(s[i])
                             /\ o[i] <= o[m]
                             /\ \A j \in 1 .. Len(s[i]) : f[m][o[i-1] + j] = s[i][j]
             T == {m \in Nat : 0 < m /\ m <= n => Good(m)}
  <2>2. o[0] = 0 /\ \A i \in 1 .. n : o[i] = Len(f[i])
    OBVIOUS
  <2>3. f[1] = s[1] /\ \A i \in 2 .. n : f[i] = f[i-1] \o s[i]
    <3>1. \A i \in 1 .. n : f[i] = IF i = 1 THEN s[i] ELSE f[i-1] \o s[i]
      BY <2>1, Zenon
    <3>2. 1 \in 1 .. n /\ \A i \in 2 .. n : i \in 1 .. n /\ i # 1
      BY <1>0, <1>2
    <3> HIDE DEF n
    <3> QED BY <3>1, <3>2
  <2> HIDE DEF o
  <2>4. 0 \in T
    OBVIOUS
  <2>5. ASSUME NEW m \in T
        PROVE  m + 1 \in T
    <3> SUFFICES ASSUME m + 1 <= n
                 PROVE  Good(m + 1)
      <4>1. m \in Nat /\ m + 1 \in Nat
        OBVIOUS
      <4> QED BY <4>1, Zenon
    <3>0. m \in Nat /\ (0 < m /\ m <= n => Good(m))
      OBVIOUS
    <3> HIDE DEF T, n
    <3>1. CASE m = 0
      <4>1. f[1] \in Seq(B) /\ o[1] = Len(s[1]) /\ o[1] \in Nat /\ o[1] <= o[1]
        BY <1>0, <1>2, <2>2, <2>3
      <4>2. Good(1)
        BY <2>2, <2>3, <4>1
      <4> QED BY <3>1, <4>2
    <3>2. CASE m > 0
      <4>1. m \in Nat /\ 0 < m /\ m <= n
        BY <1>0, <3>0, <3>2
      <4>2. Good(m)
        BY <3>0, <4>1
      <4>3. /\ m + 1 \in 2 .. n /\ f[m + 1] = f[m] \o s[m + 1] /\ o[m] = Len(f[m])
            /\ o[m + 1] = Len(f[m + 1]) /\ s[m + 1] \in Seq(B) /\ Len(s[m + 1]) \in Nat
        <5>1. m + 1 \in 2 .. n /\ m \in 1 .. n /\ m + 1 \in 1 .. n /\ (m + 1) - 1 = m
          BY <1>0, <4>1
        <5>2. f[m + 1] = f[(m + 1) - 1] \o s[m + 1]
          BY <2>3, <5>1
        <5> QED BY <1>0, <2>2, <5>1, <5>2
      <4>4. f[m] \in Seq(B) /\ o[m] \in Nat
        <5>1. m \in 1 .. m
          BY <4>1
        <5> QED BY <4>2, <5>1
      <4>5. /\ f[m + 1] \in Seq(B) /\ o[m + 1] \in Nat
            /\ o[m + 1] = o[m] + Len(s[m + 1]) /\ o[m] <= o[m + 1]
        <5>1. (f[m] \o s[m + 1]) \in Seq(B) /\ Len(f[m] \o s[m + 1]) = Len(f[m]) + Len(s[m + 1])
          BY <4>3, <4>4, ConcatIsSequence
        <5>2. f[m + 1] \in Seq(B) /\ o[m + 1] = o[m] + Len(s[m + 1])
          BY <4>3, <5>1
        <5>3. o[m] \in Nat /\ Len(s[m + 1]) \in Nat
          BY <4>3, <4>4
        <5> HIDE DEF Good
        <5> QED BY <5>2, <5>3
      <4>6. ASSUME NEW i \in 1 .. m + 1
            PROVE  /\ o[i] \in Nat /\ o[i-1] \in Nat /\ o[i] = o[i-1] + Len(s[i])
                   /\ o[i] <= o[m + 1]
                   /\ \A j \in 1 .. Len(s[i]) : f[m + 1][o[i-1] + j] = s[i][j]
        <5>1. CASE i = m + 1
          <6>1. i - 1 = m
            BY <4>1, <5>1
          <6>2. \A j \in 1 .. Len(s[m + 1]) : f[m + 1][o[m] + j] = s[m + 1][j]
            <7> DEFINE a == f[m]
                       b == s[m + 1]
            <7>1. a \in Seq(B) /\ b \in Seq(B)
              BY <4>3, <4>4
            <7> HIDE DEF a, b
            <7>2. \A j \in 1 .. Len(b) : (a \o b)[Len(a) + j] = b[j]
              BY <7>1, ConcatSecond
            <7> USE DEF a, b
            <7> QED BY <4>3, <7>2
          <6> QED BY <4>4, <4>5, <5>1, <6>1, <6>2
        <5>2. CASE i # m + 1
          <6>1. i \in 1 .. m
            BY <4>1, <5>2
          <6>2. /\ o[i] \in Nat /\ o[i-1] \in Nat /\ o[i] = o[i-1] + Len(s[i]) /\ o[i] <= o[m]
                /\ \A j \in 1 .. Len(s[i]) : f[m][o[i-1] + j] = s[i][j]
            BY <4>2, <6>1
          <6>3. ASSUME NEW j \in 1 .. Len(s[i])
                PROVE  f[m + 1][o[i-1] + j] = f[m][o[i-1] + j]
            <7>1. Len(s[i]) \in Nat
              BY <1>0, <4>1, <6>1
            <7>2. o[i-1] + j \in 1 .. o[m]
              <8> DEFINE x == o[i-1]
                         y == o[i]
                         z == o[m]
                         l == Len(s[i])
              <8>1. /\ x \in Nat /\ y \in Nat /\ z \in Nat /\ l \in Nat /\ j \in 1 .. l
                    /\ y = x + l /\ y <= z
                BY <4>4, <6>2, <7>1
              <8> HIDE DEF x, y, z, l
              <8>2. x + j \in 1 .. z
                BY <8>1
              <8> QED BY <8>2 DEF x, z
            <7>3. o[i-1] + j \in 1 .. Len(f[m])
              BY <4>3, <7>2
            <7>4. (f[m] \o s[m + 1])[o[i-1] + j] = f[m][o[i-1] + j]
              BY <4>3, <4>4, <7>3, ConcatFirst
            <7> QED BY <4>3, <7>4
          <6> QED BY <4>4, <4>5, <6>2, <6>3
        <5> QED BY <5>1, <5>2
      <4> QED BY <4>5, <4>6
    <3> QED BY <3>0, <3>1, <3>2
  <2>6. n \in T
    <3> HIDE DEF T
    <3>1. T \in SUBSET Nat
      BY DEF T
    <3> QED BY <1>0, <2>4, <2>5, <3>1, Induction
  <2>7. Good(n)
    BY <1>0, <1>2, <2>6
  <2>8. o \in [0 .. n -> Nat]
    <3>1. \A i \in 0 .. n : o[i] \in Nat
      BY <1>0, <2>2, <2>7
    <3> QED BY <3>1 DEF o
  <2>9. AreParts(s, o, f[n])
    BY <1>0, <1>2, <2>2, <2>7 DEF AreParts
  <2> QED BY <2>1, <2>7, <2>8, <2>9
<1> QED BY <1>0, <1>1, <1>2

-----------------------------------------------------------------------------
(* The bytes of a request                                                  *)

LEMMA DigitOfDecimal ==
  ASSUME NEW n \in 0 .. 9
  PROVE  Decimal(n) \in DOMAIN Digit /\ Digit[Decimal(n)] = n
<1>1. Decimal(n) \in ToSet(Digits)
  <2>1. n + 1 \in DOMAIN Digits
    BY DEF Digits
  <2> QED BY <2>1 DEF ToSet, Decimal
<1>2. ASSUME NEW m \in 0 .. 9, Decimal(m) = Decimal(n)
      PROVE  m = n
  BY <1>2, SMTT(60) DEF Decimal, Digits
<1>3. Digit[Decimal(n)] = CHOOSE m \in 0 .. 9 : Decimal(m) = Decimal(n)
  BY <1>1 DEF Digit
<1>4. (CHOOSE m \in 0 .. 9 : Decimal(m) = Decimal(n)) = n
  BY <1>2
<1> QED BY <1>1, <1>3, <1>4 DEF Digit

LEMMA DecimalIsByte ==
  ASSUME NEW n \in 0 .. 9
  PROVE  Decimal(n) \in Byte
<1>1. n + 1 \in DOMAIN Digits
  BY DEF Digits
<1> QED BY <1>1 DEF Decimal, ToSet, Byte

LEMMA NoDigits == "LF" \notin DOMAIN Digit /\ "CR" \notin DOMAIN Digit /\ "*" \notin DOMAIN Digit
<1>1. ASSUME NEW i \in 1 .. 10
      PROVE  Digits[i] # "LF" /\ Digits[i] # "CR" /\ Digits[i] # "*"
  BY <1>1, SMTT(60) DEF Digits
<1>2. DOMAIN Digits = 1 .. 10
  BY DEF Digits
<1> QED BY <1>1, <1>2 DEF Digit, ToSet

LEMMA RequestArgs ==
  ASSUME NEW cmd \in Request
  PROVE  /\ Len(cmd) \in 0 .. 9 /\ Len(cmd) <= MaxArgs
         /\ cmd \in Seq(Seq(Byte))
         /\ \A i \in 1 .. Len(cmd) : cmd[i] \in Seq(Byte) /\ Len(cmd[i]) \in 0 .. 9
<1>1. ASSUME NEW arg \in Seq(STRING)
      PROVE  arg \in Seq(Byte)
  BY <1>1 DEF Byte
<1>2. /\ cmd \in Seq(Seq(STRING)) /\ Len(cmd) \in 0 .. 9 /\ Len(cmd) <= MaxArgs
      /\ \A i \in 1 .. Len(cmd) : Len(cmd[i]) \in 0 .. 9
  BY DEF Request
<1>3. \A i \in 1 .. Len(cmd) : cmd[i] \in Seq(Byte)
  BY <1>1, <1>2
<1>4. cmd \in Seq(Seq(Byte))
  <2>1. Len(cmd) \in Nat /\ DOMAIN cmd = 1 .. Len(cmd) /\ cmd = [i \in 1 .. Len(cmd) |-> cmd[i]]
    BY <1>2
  <2> HIDE DEF Byte
  <2>2. cmd \in [1 .. Len(cmd) -> Seq(Byte)]
    BY <1>3, <2>1
  <2> QED BY <2>1, <2>2
<1> QED BY <1>2, <1>3, <1>4

LEMMA EncodedArgBytes ==
  ASSUME NEW arg \in Seq(Byte), Len(arg) \in 0 .. 9
  PROVE  /\ EncodedArg(arg) \in Seq(Byte) /\ Len(EncodedArg(arg)) = 4 + Len(arg)
         /\ EncodedArg(arg)[1] = "$" /\ EncodedArg(arg)[2] = Decimal(Len(arg))
         /\ EncodedArg(arg)[3] = "CR" /\ EncodedArg(arg)[4] = "LF"
         /\ \A j \in 1 .. Len(arg) : EncodedArg(arg)[4 + j] = arg[j]
<1> DEFINE head == <<"$", Decimal(Len(arg)), "CR", "LF">>
<1>1. /\ head \in Seq(Byte) /\ Len(head) = 4
      /\ head[1] = "$" /\ head[2] = Decimal(Len(arg)) /\ head[3] = "CR" /\ head[4] = "LF"
  <2>1. Decimal(Len(arg)) \in Byte /\ "$" \in Byte /\ "CR" \in Byte /\ "LF" \in Byte
    BY DecimalIsByte DEF Byte
  <2> QED BY <2>1
<1> HIDE DEF head
<1>2. (head \o arg) \in Seq(Byte) /\ Len(head \o arg) = Len(head) + Len(arg)
  BY <1>1, ConcatIsSequence
<1>3. \A i \in 1 .. 4 : (head \o arg)[i] = head[i]
  <2>1. \A i \in 1 .. Len(head) : (head \o arg)[i] = head[i]
    BY <1>1, ConcatFirst
  <2> QED BY <1>1, <2>1
<1>4. \A j \in 1 .. Len(arg) : (head \o arg)[4 + j] = arg[j]
  <2>1. \A j \in 1 .. Len(arg) : (head \o arg)[Len(head) + j] = arg[j]
    <3>1. head \in Seq(Byte) /\ arg \in Seq(Byte)
      BY <1>1
    <3> QED BY <3>1, ConcatSecond
  <2> QED BY <1>1, <2>1
<1>5. EncodedArg(arg) = head \o arg
  BY DEF EncodedArg, head
<1> QED BY <1>1, <1>2, <1>3, <1>4, <1>5

LEMMA EncodedHasLayout ==
  ASSUME NEW cmd \in Request
  PROVE  /\ Encoded(cmd) \in Seq(Byte)
         /\ \E o \in [1 .. Len(cmd) + 1 -> Nat] : IsLayout(cmd, o)
<1> DEFINE n == Len(cmd)
           s == [i \in 1 .. Len(cmd) |-> EncodedArg(cmd[i])]
           flat == FlattenSeq(s)
           head == <<"*", Decimal(Len(cmd)), "CR", "LF">>
           bytes == head \o flat
<1>1. n \in 0 .. 9 /\ \A i \in 1 .. n : cmd[i] \in Seq(Byte) /\ Len(cmd[i]) \in 0 .. 9
  BY RequestArgs
<1>2. \A i \in 1 .. n :
        /\ s[i] \in Seq(Byte) /\ Len(s[i]) = 4 + Len(cmd[i])
        /\ s[i][1] = "$" /\ s[i][2] = Decimal(Len(cmd[i]))
        /\ s[i][3] = "CR" /\ s[i][4] = "LF"
        /\ \A j \in 1 .. Len(cmd[i]) : s[i][4 + j] = cmd[i][j]
  <2>1. ASSUME NEW i \in 1 .. n
        PROVE  s[i] = EncodedArg(cmd[i]) /\ cmd[i] \in Seq(Byte) /\ Len(cmd[i]) \in 0 .. 9
    BY <1>1
  <2> HIDE DEF s, n
  <2> QED BY <2>1, EncodedArgBytes
<1>3. s \in Seq(Seq(Byte)) /\ Len(s) = n
  <2>1. \A i \in 1 .. n : s[i] \in Seq(Byte)
    BY <1>2
  <2>2. s = [i \in 1 .. n |-> s[i]] /\ n \in Nat
    BY <1>1
  <2> HIDE DEF s, n
  <2>3. s \in [1 .. n -> Seq(Byte)]
    BY <2>1, <2>2
  <2> QED BY <2>2, <2>3
<1> HIDE DEF s
<1>4. PICK o \in [0 .. Len(s) -> Nat] : flat \in Seq(Byte) /\ AreParts(s, o, flat)
  BY <1>3, FlattenParts
<1>5. /\ head \in Seq(Byte) /\ Len(head) = 4
      /\ head[1] = "*" /\ head[2] = Decimal(n) /\ head[3] = "CR" /\ head[4] = "LF"
  <2>1. Decimal(Len(cmd)) \in Byte /\ "*" \in Byte /\ "CR" \in Byte /\ "LF" \in Byte
    BY <1>1, DecimalIsByte DEF Byte
  <2> QED BY <2>1
<1> HIDE DEF head, flat
<1>6. bytes \in Seq(Byte) /\ Len(bytes) = 4 + Len(flat)
  BY <1>4, <1>5, ConcatIsSequence
<1>7. \A i \in 1 .. 4 : bytes[i] = head[i]
  <2>1. \A i \in 1 .. Len(head) : (head \o flat)[i] = head[i]
    BY <1>4, <1>5, ConcatFirst
  <2> QED BY <1>5, <2>1
<1>8. \A j \in 1 .. Len(flat) : bytes[4 + j] = flat[j]
  <2>1. \A j \in 1 .. Len(flat) : (head \o flat)[Len(head) + j] = flat[j]
    <3>1. head \in Seq(Byte) /\ flat \in Seq(Byte)
      BY <1>4, <1>5
    <3> QED BY <3>1, ConcatSecond
  <2> QED BY <1>5, <2>1
<1>9. Encoded(cmd) = bytes
  BY DEF Encoded, head, flat, s
<1> HIDE DEF bytes
<1> DEFINE layout == [i \in 1 .. Len(cmd) + 1 |-> 4 + o[i-1]]
<1>10. layout \in [1 .. Len(cmd) + 1 -> Nat]
  BY <1>1, <1>3, <1>4
<1>11. layout[1] = 4 /\ layout[n + 1] = Len(bytes)
  BY <1>1, <1>3, <1>4, <1>6 DEF AreParts
<1>12. ASSUME NEW i \in 1 .. n
       PROVE  /\ layout[i + 1] = layout[i] + 4 + Len(cmd[i]) /\ layout[i + 1] <= Len(bytes)
              /\ bytes[layout[i] + 1] = "$" /\ bytes[layout[i] + 2] = Decimal(Len(cmd[i]))
              /\ bytes[layout[i] + 3] = "CR" /\ bytes[layout[i] + 4] = "LF"
              /\ \A j \in 1 .. Len(cmd[i]) : bytes[layout[i] + 4 + j] = cmd[i][j]
  <2>1. layout[i] = 4 + o[i-1] /\ layout[i + 1] = 4 + o[i] /\ i \in 1 .. Len(s)
    BY <1>1, <1>3
  <2> HIDE DEF n, layout
  <2>2. o[i-1] \in Nat /\ o[i] \in Nat
    <3>1. i - 1 \in 0 .. Len(s) /\ i \in 0 .. Len(s)
      BY <1>1, <1>3
    <3> QED BY <1>4, <3>1
  <2>3. o[i] = o[i-1] + Len(s[i]) /\ Len(s[i]) = 4 + Len(cmd[i]) /\ Len(cmd[i]) \in Nat
    <3>1. i \in 1 .. n
      OBVIOUS
    <3>2. Len(s[i]) = 4 + Len(cmd[i])
      BY <1>2, <3>1
    <3>3. Len(cmd[i]) \in Nat
      BY <1>1, <3>1
    <3>4. o[i] = o[i-1] + Len(s[i])
      BY <1>4, <2>1 DEF AreParts
    <3> QED BY <3>2, <3>3, <3>4
  <2>4. o[i] <= Len(flat)
    BY <1>4, <2>1 DEF AreParts
  <2> DEFINE start == o[i-1]
             size == Len(cmd[i])
             part == s[i]
  <2>5. /\ start \in Nat /\ size \in Nat /\ Len(part) = 4 + size /\ start + 4 + size <= Len(flat)
        /\ Len(flat) \in Nat
        /\ layout[i] = 4 + start /\ layout[i + 1] = 4 + (start + 4 + size)
    <3>1. Len(flat) \in Nat
      BY <1>4
    <3>2. o[i] = o[i-1] + (4 + Len(cmd[i]))
      BY <2>3
    <3>3. start \in Nat /\ size \in Nat /\ Len(part) = 4 + size
      BY <2>2, <2>3
    <3>4. o[i] = start + (4 + size) /\ o[i] <= Len(flat) /\ layout[i] = 4 + start /\ layout[i + 1] = 4 + o[i]
      BY <2>1, <2>4, <3>2
    <3> HIDE DEF start, size, part
    <3> QED BY <3>1, <3>3, <3>4
  <2>6. \A j \in 1 .. Len(part) : flat[start + j] = part[j]
    BY <1>4, <2>1 DEF AreParts
  <2>7. /\ part[1] = "$" /\ part[2] = Decimal(size) /\ part[3] = "CR" /\ part[4] = "LF"
        /\ \A j \in 1 .. size : part[4 + j] = cmd[i][j]
    BY <1>2
  <2> HIDE DEF start, size, part
  <2>8. ASSUME NEW j \in 1 .. 4 + size
        PROVE  bytes[layout[i] + j] = part[j]
    <3>1. start + j \in 1 .. Len(flat) /\ j \in 1 .. Len(part)
      BY <2>5
    <3>2. bytes[4 + (start + j)] = flat[start + j] /\ flat[start + j] = part[j]
      BY <1>8, <2>6, <3>1
    <3>3. 4 + (start + j) = layout[i] + j
      BY <2>5
    <3> QED BY <3>2, <3>3
  <2>9. \A j \in 1 .. size : bytes[layout[i] + 4 + j] = cmd[i][j]
    <3>1. ASSUME NEW j \in 1 .. size
          PROVE  bytes[layout[i] + 4 + j] = part[4 + j]
      <4>1. 4 + j \in 1 .. 4 + size /\ layout[i] + (4 + j) = layout[i] + 4 + j
        BY <2>5
      <4> QED BY <2>8, <4>1
    <3> QED BY <2>7, <3>1
  <2>10. /\ bytes[layout[i] + 1] = part[1] /\ bytes[layout[i] + 2] = part[2]
         /\ bytes[layout[i] + 3] = part[3] /\ bytes[layout[i] + 4] = part[4]
    <3>1. 1 \in 1 .. 4 + size /\ 2 \in 1 .. 4 + size /\ 3 \in 1 .. 4 + size /\ 4 \in 1 .. 4 + size
      BY <2>5
    <3> QED BY <2>8, <3>1
  <2>11. layout[i + 1] = layout[i] + 4 + size /\ layout[i + 1] <= Len(bytes)
    BY <1>6, <2>5
  <2> QED BY <2>7, <2>9, <2>10, <2>11 DEF size
<1>13. IsLayout(cmd, layout)
  <2> HIDE DEF layout
  <2> QED BY <1>5, <1>7, <1>9, <1>11, <1>12 DEF IsLayout
<1> QED BY <1>6, <1>9, <1>10, <1>13

LEMMA Layout ==
  ASSUME NEW cmd \in Request
  PROVE  /\ Encoded(cmd) \in Seq(Byte) /\ Len(Encoded(cmd)) >= 4
         /\ Offsets(cmd) \in [1 .. Len(cmd) + 1 -> Nat]
         /\ IsLayout(cmd, Offsets(cmd))
<1>1. /\ Encoded(cmd) \in Seq(Byte)
      /\ Offsets(cmd) \in [1 .. Len(cmd) + 1 -> Nat] /\ IsLayout(cmd, Offsets(cmd))
  BY EncodedHasLayout, Zenon DEF Offsets
<1>2. Len(Encoded(cmd)) >= 4
  <2>1. Len(cmd) \in Nat /\ Len(Encoded(cmd)) \in Nat
    BY <1>1, RequestArgs
  <2>2. CASE Len(cmd) = 0
    BY <1>1, <2>2 DEF IsLayout
  <2>3. CASE Len(cmd) > 0
    <3>1. 1 \in 1 .. Len(cmd) /\ Len(cmd[1]) \in Nat
      BY <2>1, <2>3, RequestArgs
    <3>2. Offsets(cmd)[1] = 4 /\ Offsets(cmd)[1 + 1] = Offsets(cmd)[1] + 4 + Len(cmd[1])
          /\ Offsets(cmd)[1 + 1] <= Len(Encoded(cmd))
      BY <1>1, <3>1 DEF IsLayout
    <3> QED BY <2>1, <3>1, <3>2
  <2> QED BY <2>1, <2>2, <2>3
<1> QED BY <1>1, <1>2

-----------------------------------------------------------------------------
(* What has not been parsed, as the parser and the network move on         *)

LEMMA FollowsStep ==
  ASSUME NEW buff \in Seq(Byte), NEW rest \in Seq(Byte), NEW stream \in Seq(Byte),
         NEW pos \in Nat, NEW p \in Nat, Follows(buff, rest, stream, pos, p), pos < Len(buff)
  PROVE  /\ p < Len(stream) /\ buff[pos + 1] = stream[p + 1]
         /\ Follows(buff, rest, stream, pos + 1, p + 1)
<1> DEFINE b == Len(buff)
           r == Len(rest)
           s == Len(stream)
<1>1. /\ b \in Nat /\ r \in Nat /\ s \in Nat /\ pos < b /\ s = p + (b - pos) + r
      /\ \A j \in 1 .. b - pos : buff[pos + j] = stream[p + j]
      /\ \A j \in 1 .. r : rest[j] = stream[p + (b - pos) + j]
  BY DEF Follows
<1> HIDE DEF b, r, s
<1>2. p < s /\ pos + 1 <= b /\ s = (p + 1) + (b - (pos + 1)) + r
  BY <1>1
<1>3. buff[pos + 1] = stream[p + 1]
  <2>1. 1 \in 1 .. b - pos
    BY <1>1
  <2> QED BY <1>1, <2>1
<1>4. ASSUME NEW j \in 1 .. b - (pos + 1)
      PROVE  buff[(pos + 1) + j] = stream[(p + 1) + j]
  <2>1. 1 + j \in 1 .. b - pos /\ pos + (1 + j) = (pos + 1) + j /\ p + (1 + j) = (p + 1) + j
    BY <1>1
  <2>2. buff[pos + (1 + j)] = stream[p + (1 + j)]
    BY <1>1, <2>1
  <2> QED BY <2>1, <2>2
<1>5. ASSUME NEW j \in 1 .. r
      PROVE  rest[j] = stream[(p + 1) + (b - (pos + 1)) + j]
  <2>1. (p + 1) + (b - (pos + 1)) + j = p + (b - pos) + j
    BY <1>1
  <2> QED BY <1>1, <2>1
<1> QED BY <1>2, <1>3, <1>4, <1>5 DEF Follows, b, r, s

LEMMA FollowsRead ==
  ASSUME NEW rest \in Seq(Byte), NEW stream \in Seq(Byte), NEW p \in Nat,
         Follows(<<>>, rest, stream, 0, p), NEW n \in 1 .. Len(rest)
  PROVE  /\ SubSeq(rest, 1, n) \in Seq(Byte) /\ Len(SubSeq(rest, 1, n)) = n
         /\ SubSeq(rest, n + 1, Len(rest)) \in Seq(Byte)
         /\ Follows(SubSeq(rest, 1, n), SubSeq(rest, n + 1, Len(rest)), stream, 0, p)
<1> DEFINE r == Len(rest)
           s == Len(stream)
           one == SubSeq(rest, 1, n)
           two == SubSeq(rest, n + 1, Len(rest))
<1>1. /\ r \in Nat /\ s \in Nat /\ n \in Nat /\ n <= r /\ s = p + r
      /\ \A j \in 1 .. r : rest[j] = stream[p + j]
  <2>1. Len(<<>>) = 0 /\ p + (0 - 0) = p
    OBVIOUS
  <2> QED BY <2>1 DEF Follows
<1>2. one \in Seq(Byte) /\ Len(one) = n /\ \A j \in 1 .. n : one[j] = rest[j]
  BY <1>1
<1>3. two \in Seq(Byte) /\ Len(two) = r - n /\ \A j \in 1 .. r - n : two[j] = rest[n + j]
  BY <1>1
<1> HIDE DEF r, s, one, two
<1>4. ASSUME NEW j \in 1 .. n
      PROVE  one[0 + j] = stream[p + j]
  <2>1. 0 + j = j /\ j \in 1 .. r
    BY <1>1
  <2> QED BY <1>1, <1>2, <2>1
<1>5. ASSUME NEW j \in 1 .. r - n
      PROVE  two[j] = stream[p + (n - 0) + j]
  <2>1. n + j \in 1 .. r /\ p + (n - 0) + j = p + (n + j)
    BY <1>1
  <2> QED BY <1>1, <1>3, <2>1
<1>6. s = p + (n - 0) + (r - n) /\ 0 <= n
  BY <1>1
<1>7. Follows(one, two, stream, 0, p)
  BY <1>2, <1>3, <1>4, <1>5, <1>6 DEF Follows, s
<1> QED BY <1>2, <1>3, <1>7 DEF one, two, r

LEMMA FollowsDrop ==
  ASSUME NEW buff \in Seq(Byte), NEW rest \in Seq(Byte), NEW stream \in Seq(Byte),
         NEW p \in Nat, Follows(buff, rest, stream, Len(buff), p)
  PROVE  Follows(<<>>, rest, stream, 0, p)
<1>1. Len(buff) \in Nat /\ Len(<<>>) = 0 /\ Len(buff) - Len(buff) = 0 /\ 0 - 0 = 0
  OBVIOUS
<1> QED BY <1>1 DEF Follows

LEMMA FollowsSend ==
  ASSUME NEW buff \in Seq(Byte), NEW rest \in Seq(Byte), NEW stream \in Seq(Byte),
         NEW pos \in Nat, NEW p \in Nat, Follows(buff, rest, stream, pos, p),
         NEW more \in Seq(Byte)
  PROVE  Follows(buff, rest \o more, stream \o more, pos, p)
<1> DEFINE b == Len(buff)
           r == Len(rest)
           s == Len(stream)
           m == Len(more)
           rm == rest \o more
           sm == stream \o more
<1>1. /\ b \in Nat /\ r \in Nat /\ s \in Nat /\ m \in Nat /\ pos <= b /\ s = p + (b - pos) + r
      /\ \A j \in 1 .. b - pos : buff[pos + j] = stream[p + j]
      /\ \A j \in 1 .. r : rest[j] = stream[p + (b - pos) + j]
  BY DEF Follows
<1>2. Len(rm) = r + m /\ Len(sm) = s + m
  BY ConcatIsSequence
<1>3. (\A j \in 1 .. s : sm[j] = stream[j]) /\ (\A j \in 1 .. m : sm[s + j] = more[j])
  BY ConcatFirst, ConcatSecond
<1>4. (\A j \in 1 .. r : rm[j] = rest[j]) /\ (\A j \in 1 .. m : rm[r + j] = more[j])
  BY ConcatFirst, ConcatSecond
<1> HIDE DEF b, r, s, m, rm, sm
<1>5. s + m = p + (b - pos) + (r + m)
  BY <1>1
<1>6. ASSUME NEW j \in 1 .. b - pos
      PROVE  buff[pos + j] = sm[p + j]
  <2>1. p + j \in 1 .. s
    BY <1>1
  <2> QED BY <1>1, <1>3, <2>1
<1>7. ASSUME NEW j \in 1 .. r + m
      PROVE  rm[j] = sm[p + (b - pos) + j]
  <2>1. CASE j <= r
    <3>1. j \in 1 .. r /\ p + (b - pos) + j \in 1 .. s
      BY <1>1, <2>1
    <3> QED BY <1>1, <1>3, <1>4, <3>1
  <2>2. CASE j > r
    <3>1. j - r \in 1 .. m /\ r + (j - r) = j /\ s + (j - r) = p + (b - pos) + j
      BY <1>1, <2>2
    <3>2. rm[r + (j - r)] = more[j - r] /\ sm[s + (j - r)] = more[j - r]
      BY <1>3, <1>4, <3>1
    <3> QED BY <3>1, <3>2
  <2> QED BY <1>1, <2>1, <2>2
<1> QED BY <1>1, <1>2, <1>5, <1>6, <1>7 DEF Follows, b, rm, sm

LEMMA FollowsNext ==
  ASSUME NEW buff \in Seq(Byte), NEW rest \in Seq(Byte),
         NEW one \in Seq(Byte), NEW two \in Seq(Byte), NEW pos \in Nat, NEW q \in Nat,
         Follows(buff, rest, one \o two, pos, Len(one) + q)
  PROVE  Follows(buff, rest, two, pos, q)
<1> DEFINE b == Len(buff)
           r == Len(rest)
           m == Len(one)
           n == Len(two)
           all == one \o two
<1>1. Len(all) = m + n /\ \A j \in 1 .. n : all[m + j] = two[j]
  BY ConcatIsSequence, ConcatSecond
<1>2. /\ b \in Nat /\ r \in Nat /\ m \in Nat /\ n \in Nat /\ pos <= b
      /\ Len(all) = (m + q) + (b - pos) + r
      /\ \A j \in 1 .. b - pos : buff[pos + j] = all[(m + q) + j]
      /\ \A j \in 1 .. r : rest[j] = all[(m + q) + (b - pos) + j]
  <2>1. b \in Nat /\ r \in Nat /\ m \in Nat /\ n \in Nat
    OBVIOUS
  <2>2. Follows(buff, rest, all, pos, m + q)
    OBVIOUS
  <2> HIDE DEF all
  <2> QED BY <2>1, <2>2 DEF Follows
<1> HIDE DEF b, r, m, n, all
<1>3. n = q + (b - pos) + r
  <2>1. b \in Nat /\ r \in Nat /\ m \in Nat /\ n \in Nat
    BY <1>2
  <2>2. m + n = (m + q) + (b - pos) + r
    BY <1>1, <1>2, Zenon
  <2> QED BY <2>1, <2>2
<1>4. ASSUME NEW j \in 1 .. b - pos
      PROVE  buff[pos + j] = two[q + j]
  <2>1. q + j \in 1 .. n /\ m + (q + j) = (m + q) + j
    BY <1>2, <1>3
  <2>2. all[m + (q + j)] = two[q + j]
    BY <1>1, <2>1
  <2> QED BY <1>2, <2>1, <2>2
<1>5. ASSUME NEW j \in 1 .. r
      PROVE  rest[j] = two[q + (b - pos) + j]
  <2>1. q + (b - pos) + j \in 1 .. n /\ m + (q + (b - pos) + j) = (m + q) + (b - pos) + j
    BY <1>2, <1>3
  <2>2. all[m + (q + (b - pos) + j)] = two[q + (b - pos) + j]
    BY <1>1, <2>1
  <2> QED BY <1>2, <2>1, <2>2
<1> QED BY <1>2, <1>3, <1>4, <1>5 DEF Follows, b, r, n
LEMMA EmptyConcat ==
  ASSUME NEW s \in Seq(Byte)
  PROVE  s \o <<>> = s
OBVIOUS

\* The stream is the request and the stream behind it.
LEMMA StreamUnfolds ==
  ASSUME NEW requests \in Seq(Request), NEW k \in Nat \ {0}
  PROVE  /\ BytesOf(requests, k) \in Seq(Byte)
         /\ StreamFrom(requests, k) \in Seq(Byte)
         /\ Len(requests) <= k + 1 =>
              /\ StreamFrom(requests, k + 1) = BytesOf(requests, k + 1)
              /\ StreamFrom(requests, k) = BytesOf(requests, k) \o StreamFrom(requests, k + 1)
<1>1. ASSUME NEW i \in Nat \ {0}
      PROVE  BytesOf(requests, i) \in Seq(Byte)
  <2>1. CASE i <= Len(requests)
    <3>1. requests[i] \in Request
      BY <2>1
    <3> QED BY <2>1, <3>1, Layout DEF BytesOf
  <2>2. CASE ~(i <= Len(requests))
    <3>1. <<>> \in Seq(Byte)
      OBVIOUS
    <3> QED BY <2>2, <3>1 DEF BytesOf
  <2> QED BY <2>1, <2>2
<1>2. k + 1 \in Nat \ {0} /\ k + 1 + 1 \in Nat \ {0} /\ Len(requests) \in Nat
  OBVIOUS
<1>3. BytesOf(requests, k) \in Seq(Byte) /\ BytesOf(requests, k + 1) \in Seq(Byte)
  BY <1>1, <1>2
<1>4. StreamFrom(requests, k) \in Seq(Byte)
  BY <1>3, ConcatIsSequence DEF StreamFrom
<1>5. ASSUME Len(requests) <= k + 1
      PROVE  StreamFrom(requests, k + 1) = BytesOf(requests, k + 1)
  <2>1. BytesOf(requests, k + 1 + 1) = <<>>
    BY <1>2, <1>5 DEF BytesOf
  <2> QED BY <1>3, <2>1, EmptyConcat DEF StreamFrom
<1> QED BY <1>3, <1>4, <1>5 DEF StreamFrom

\* The stream after its first request is empty unless a further one was sent.
LEMMA StreamLength ==
  ASSUME NEW requests \in Seq(Request), NEW k \in Nat \ {0}, Len(requests) <= k + 1
  PROVE  /\ k > Len(requests) => StreamFrom(requests, k) = <<>>
         /\ k <= Len(requests) =>
              /\ StreamFrom(requests, k) = Encoded(requests[k]) \o StreamFrom(requests, k + 1)
              /\ Len(StreamFrom(requests, k)) >= Len(Encoded(requests[k]))
              /\ Len(Encoded(requests[k])) >= 4
         /\ k >= Len(requests) => StreamFrom(requests, k + 1) = <<>>
<1>1. /\ k + 1 \in Nat \ {0} /\ Len(requests) \in Nat /\ Len(requests) <= k + 1 + 1
      /\ <<>> \o <<>> = <<>>
  OBVIOUS
<1>2. k > Len(requests) => StreamFrom(requests, k) = <<>>
  <2>1. k > Len(requests) => BytesOf(requests, k) = <<>> /\ BytesOf(requests, k + 1) = <<>>
    BY <1>1 DEF BytesOf
  <2> QED BY <1>1, <2>1 DEF StreamFrom
<1>3. k >= Len(requests) => StreamFrom(requests, k + 1) = <<>>
  <2>1. k >= Len(requests) => BytesOf(requests, k + 1) = <<>>
    BY <1>1 DEF BytesOf
  <2> QED BY <2>1, StreamUnfolds
<1>4. ASSUME k <= Len(requests)
      PROVE  /\ StreamFrom(requests, k) = Encoded(requests[k]) \o StreamFrom(requests, k + 1)
             /\ Len(StreamFrom(requests, k)) >= Len(Encoded(requests[k]))
             /\ Len(Encoded(requests[k])) >= 4
  <2>1. requests[k] \in Request /\ BytesOf(requests, k) = Encoded(requests[k])
    BY <1>1, <1>4 DEF BytesOf
  <2>2. /\ StreamFrom(requests, k + 1) \in Seq(Byte)
        /\ StreamFrom(requests, k) = Encoded(requests[k]) \o StreamFrom(requests, k + 1)
    BY <1>1, <2>1, StreamUnfolds
  <2>3. Encoded(requests[k]) \in Seq(Byte) /\ Len(Encoded(requests[k])) >= 4
    BY <2>1, Layout
  <2>4. Len(StreamFrom(requests, k)) = Len(Encoded(requests[k])) + Len(StreamFrom(requests, k + 1))
    BY <2>2, <2>3, ConcatIsSequence
  <2>5. Len(StreamFrom(requests, k + 1)) \in Nat /\ Len(Encoded(requests[k])) \in Nat
    BY <2>2, <2>3
  <2> QED BY <2>2, <2>3, <2>4, <2>5
<1> QED BY <1>2, <1>3, <1>4

LEMMA StreamGrows ==
  ASSUME NEW requests \in Seq(Request), NEW cmd \in Request, NEW k \in Nat \ {0},
         k = Len(requests) \/ k = Len(requests) + 1
  PROVE  StreamFrom(Append(requests, cmd), k) = StreamFrom(requests, k) \o Encoded(cmd)
<1> DEFINE more == Append(requests, cmd)
           n == Len(requests)
<1>1. /\ n \in Nat /\ more \in Seq(Request) /\ Len(more) = n + 1 /\ more[n + 1] = cmd
      /\ \A i \in 1 .. n : more[i] = requests[i]
  OBVIOUS
<1>2. Encoded(cmd) \in Seq(Byte)
  BY Layout
<1> HIDE DEF more
<1>3. BytesOf(more, n + 1) = Encoded(cmd) /\ BytesOf(more, n + 2) = <<>>
  <2> HIDE DEF n
  <2> QED BY <1>1 DEF BytesOf
<1>4. BytesOf(requests, n + 1) = <<>> /\ BytesOf(requests, n + 2) = <<>>
  BY <1>1 DEF BytesOf
<1>5. <<>> \o <<>> = <<>> /\ <<>> \o Encoded(cmd) = Encoded(cmd)
  BY <1>2
<1>6. CASE k = n + 1
  <2>1. k + 1 = n + 2
    BY <1>1, <1>6
  <2>2. StreamFrom(more, k) = Encoded(cmd) \o <<>> /\ StreamFrom(requests, k) = <<>>
    BY <1>3, <1>4, <1>5, <1>6, <2>1 DEF StreamFrom
  <2> QED BY <1>2, <1>5, <2>2, EmptyConcat DEF more
<1>7. CASE k = n
  <2>1. k \in 1 .. n /\ k <= n + 1 /\ k <= n
    BY <1>1, <1>7
  <2>2. BytesOf(more, k) = Encoded(requests[k]) /\ BytesOf(requests, k) = Encoded(requests[k])
    BY <1>1, <2>1 DEF BytesOf
  <2>3. Encoded(requests[k]) \in Seq(Byte)
    BY <2>1, Layout
  <2>4. StreamFrom(more, k) = Encoded(requests[k]) \o Encoded(cmd)
    BY <1>3, <1>7, <2>2 DEF StreamFrom
  <2>5. StreamFrom(requests, k) = Encoded(requests[k])
    <3>1. StreamFrom(requests, k) = Encoded(requests[k]) \o <<>>
      BY <1>4, <1>7, <2>2 DEF StreamFrom
    <3> QED BY <2>3, <3>1, EmptyConcat
  <2> QED BY <2>4, <2>5 DEF more
<1> QED BY <1>6, <1>7

\* The next byte is the one of the request at that place.
LEMMA StreamByte ==
  ASSUME NEW requests \in Seq(Request), NEW k \in Nat \ {0},
         k <= Len(requests), Len(requests) <= k + 1,
         NEW i \in 1 .. Len(Encoded(requests[k]))
  PROVE  StreamFrom(requests, k)[i] = Encoded(requests[k])[i]
<1>1. requests[k] \in Request /\ k + 1 \in Nat \ {0}
  OBVIOUS
<1>2. Encoded(requests[k]) \in Seq(Byte) /\ StreamFrom(requests, k + 1) \in Seq(Byte)
  BY <1>1, Layout, StreamUnfolds
<1>3. StreamFrom(requests, k) = Encoded(requests[k]) \o StreamFrom(requests, k + 1)
  BY StreamLength
<1> QED BY <1>2, <1>3, ConcatFirst

LEMMA PrefixPointwise ==
  ASSUME NEW S, NEW s \in Seq(S), NEW t \in Seq(S)
  PROVE  IsPrefix(s, t) <=> Len(s) <= Len(t) /\ \A i \in 1 .. Len(s) : s[i] = t[i]
BY DEF IsPrefix
-----------------------------------------------------------------------------
(* What an action may use of the invariant                                 *)

LEMMA Types ==
  ASSUME IInv
  PROVE  /\ Current \in Nat \ {0} /\ Current = Len(executed) + 1 /\ Len(sent) \in Nat
         /\ Len(sent) <= Current + 1 /\ Len(queryBuff) \in Nat /\ Len(net) \in Nat
         /\ StreamFrom(sent, Current) \in Seq(Byte)
         /\ MaxArgs \in Nat \ {0}
<1>1. sent \in Seq(Request) /\ executed \in Seq(Seq(Seq(Byte)))
      /\ net \in Seq(Byte) /\ queryBuff \in Seq(Byte) /\ answered \in Nat
      /\ answered <= Len(executed) /\ Len(sent) <= answered + 2
  BY DEF IInv, TypeOK, Counted
<1>2. Current \in Nat \ {0} /\ Current = Len(executed) + 1 /\ Len(sent) \in Nat
      /\ Len(sent) <= Current + 1 /\ Len(queryBuff) \in Nat /\ Len(net) \in Nat
  BY <1>1 DEF Current
<1>3. StreamFrom(sent, Current) \in Seq(Byte)
  BY <1>1, <1>2, StreamUnfolds
<1>4. MaxArgs \in Nat \ {0}
  BY BoundsAssumption
<1> QED BY <1>2, <1>3, <1>4

LEMMA CurrentRequest ==
  ASSUME IInv, Current <= Len(sent)
  PROVE  /\ Cmd \in Request /\ Len(Cmd) \in 0 .. 9 /\ Len(Cmd) <= MaxArgs
         /\ Cmd \in Seq(Seq(Byte))
         /\ ~Regular(Cmd) => Disturbed
<1>1. sent \in Seq(Request) /\ Current \in 1 .. Len(sent)
  BY Types DEF IInv, TypeOK
<1>2. Cmd \in Request
  BY <1>1 DEF Cmd
<1>3. ~Regular(Cmd) => Disturbed
  <2>1. Current \in DOMAIN sent
    BY <1>1
  <2> QED BY <2>1 DEF Disturbed, OnlyRegularSent, Cmd
<1> QED BY <1>2, <1>3, RequestArgs

\* The layout of the argument the parser is at.
LEMMA ArgLayout ==
  ASSUME NEW cmd \in Request, NEW i \in Nat, i < Len(cmd)
  PROVE  /\ i + 1 \in 1 .. Len(cmd)
         /\ cmd[i + 1] \in Seq(Byte) /\ Len(cmd[i + 1]) \in 0 .. 9
         /\ Offsets(cmd)[i + 1] \in Nat
         /\ Offsets(cmd)[i + 2] = Offsets(cmd)[i + 1] + 4 + Len(cmd[i + 1])
         /\ Offsets(cmd)[i + 2] <= Len(Encoded(cmd))
         /\ i + 1 = Len(cmd) => Offsets(cmd)[i + 2] = Len(Encoded(cmd))
         /\ Encoded(cmd)[Offsets(cmd)[i + 1] + 1] = "$"
         /\ Encoded(cmd)[Offsets(cmd)[i + 1] + 2] = Decimal(Len(cmd[i + 1]))
         /\ Encoded(cmd)[Offsets(cmd)[i + 1] + 3] = "CR"
         /\ Encoded(cmd)[Offsets(cmd)[i + 1] + 4] = "LF"
         /\ \A j \in 1 .. Len(cmd[i + 1]) :
              Encoded(cmd)[Offsets(cmd)[i + 1] + 4 + j] = cmd[i + 1][j]
<1>1. Len(cmd) \in Nat /\ i + 1 \in 1 .. Len(cmd) /\ i + 1 + 1 = i + 2
  BY RequestArgs
<1>2. cmd[i + 1] \in Seq(Byte) /\ Len(cmd[i + 1]) \in 0 .. 9
  BY <1>1, RequestArgs
<1>3. /\ Offsets(cmd) \in [1 .. Len(cmd) + 1 -> Nat]
      /\ IsLayout(cmd, Offsets(cmd))
  BY Layout
<1>4. Offsets(cmd)[i + 1] \in Nat
  <2>1. i + 1 \in 1 .. Len(cmd) + 1
    BY <1>1
  <2> QED BY <1>3, <2>1
<1>5. i + 1 = Len(cmd) => Offsets(cmd)[i + 2] = Len(Encoded(cmd))
  BY <1>1, <1>3 DEF IsLayout
<1> QED BY <1>1, <1>2, <1>3, <1>4, <1>5 DEF IsLayout

LEMMA HeaderLayout ==
  ASSUME NEW cmd \in Request
  PROVE  /\ Encoded(cmd)[1] = "*" /\ Encoded(cmd)[2] = Decimal(Len(cmd))
         /\ Encoded(cmd)[3] = "CR" /\ Encoded(cmd)[4] = "LF"
         /\ Len(Encoded(cmd)) \in Nat /\ Len(Encoded(cmd)) >= 4
         /\ Offsets(cmd)[1] = 4
         /\ Len(cmd) = 0 => Len(Encoded(cmd)) = 4
<1>1. Len(cmd) \in Nat /\ Encoded(cmd) \in Seq(Byte) /\ Len(Encoded(cmd)) >= 4
      /\ IsLayout(cmd, Offsets(cmd))
  BY Layout, RequestArgs
<1>2. Offsets(cmd)[1] = 4 /\ Offsets(cmd)[Len(cmd) + 1] = Len(Encoded(cmd))
  BY <1>1 DEF IsLayout
<1>3. Len(cmd) = 0 => Len(Encoded(cmd)) = 4
  <2>1. Len(cmd) = 0 => Len(cmd) + 1 = 1
    OBVIOUS
  <2> QED BY <1>2, <2>1
<1>4. /\ Encoded(cmd)[1] = "*" /\ Encoded(cmd)[2] = Decimal(Len(cmd))
      /\ Encoded(cmd)[3] = "CR" /\ Encoded(cmd)[4] = "LF"
  BY <1>1 DEF IsLayout
<1>5. Len(Encoded(cmd)) \in Nat
  BY <1>1
<1> QED BY <1>1, <1>2, <1>3, <1>4, <1>5

\* With a byte before it the parser is in a request; it reads the byte that comes next.
LEMMA ByteHere ==
  ASSUME IInv, NEW p \in Nat, Synced(idx, p), idx < Len(queryBuff)
  PROVE  /\ Synced(idx + 1, p + 1)
         /\ Current <= Len(sent)
         /\ p < Len(Encoded(Cmd)) => ByteAt = Encoded(Cmd)[p + 1]
<1>1. /\ queryBuff \in Seq(Byte) /\ net \in Seq(Byte) /\ idx \in Nat /\ sent \in Seq(Request)
      /\ StreamFrom(sent, Current) \in Seq(Byte) /\ Current \in Nat \ {0}
      /\ Len(sent) <= Current + 1 /\ Len(sent) \in Nat
  BY Types DEF IInv, TypeOK
<1>2. /\ p < Len(StreamFrom(sent, Current)) /\ ByteAt = StreamFrom(sent, Current)[p + 1]
      /\ Synced(idx + 1, p + 1)
  BY <1>1, FollowsStep DEF Synced, ByteAt
<1>3. Current <= Len(sent)
  <2>1. CASE Current > Len(sent)
    <3>1. StreamFrom(sent, Current) = <<>>
      BY <1>1, <2>1, StreamLength
    <3> QED BY <1>2, <3>1
  <2> QED BY <1>1, <2>1
<1>4. ASSUME p < Len(Encoded(Cmd))
      PROVE  ByteAt = Encoded(Cmd)[p + 1]
  <2>1. Len(Encoded(Cmd)) \in Nat
    BY <1>3, CurrentRequest, HeaderLayout
  <2>2. p + 1 \in 1 .. Len(Encoded(Cmd))
    BY <1>4, <2>1
  <2>3. StreamFrom(sent, Current)[p + 1] = Encoded(sent[Current])[p + 1]
    BY <1>1, <1>3, <2>2, StreamByte DEF Cmd
  <2> QED BY <1>2, <2>3 DEF Cmd
<1> QED BY <1>2, <1>3, <1>4

LEMMA SyncedKept ==
  ASSUME NEW pos, NEW p, UNCHANGED <<client, buffer, executed>>, Synced(pos, p)
  PROVE  Follows(queryBuff, net, StreamFrom(sent, Current), pos, p)'
BY DEF Synced, Current, client, buffer
-----------------------------------------------------------------------------
(* The parser                                                              *)

Quiet == UNCHANGED <<client, buffer, executed>>

\* The part of the invariant a step of the parser has to establish anew.
LEMMA ParserMoves ==
  ASSUME IInv, Quiet, at = "parse", at' = "parse", idx' = idx + 1, idx < Len(queryBuff),
         argi' \in Nat, argc' \in Nat, argv' \in [0 .. MaxArgs-1 -> Arg],
         NEW q \in Nat, Synced(idx + 1, q),
         Inside(q)' \/ (AtDone(q) /\ ~Regular(Cmd))'
  PROVE  IInv'
<1>1. TypeOK /\ Counted /\ Parses /\ Len(queryBuff) \in Nat
  BY Types DEF IInv
<1>2. TypeOK' /\ Counted'
  BY <1>1 DEF TypeOK, Counted, Quiet, client, buffer
<1>3. Synced(idx, q)'
  BY SyncedKept DEF Quiet, Synced, Current, client, buffer
<1>4. idx' <= Len(queryBuff)' /\ (queryBuffPos' > 0 => Len(executed)' = answered' + 1)
  BY <1>1 DEF Parses, Quiet, client, buffer, TypeOK
<1>5. Parses'
  BY <1>3, <1>4 DEF Parses
<1> QED BY <1>2, <1>5 DEF IInv

\* A byte that is not expected: there was a request the handler does not take.
LEMMA ParserBreaks ==
  ASSUME IInv, Quiet, at = "parse", at' = "parsed", UNCHANGED <<idx, args>>,
         queryParserState' = "ERROR", Disturbed
  PROVE  IInv'
<1>1. TypeOK /\ Counted /\ Parses
  BY DEF IInv
<1>2. TypeOK' /\ Counted'
  BY <1>1 DEF TypeOK, Counted, Quiet, client, buffer, args
<1>3. Parsed'
  BY <1>1 DEF Parses, Parsed, Broken, Disturbed, OnlyRegularSent, Quiet, client, buffer
<1> QED BY <1>2, <1>3 DEF IInv

LEMMA ArrayKeeps ==
  ASSUME IInv, Array, Quiet
  PROVE  IInv'
<1>1. at = "parse" /\ idx < Len(queryBuff) /\ queryParserState = "ARRAY"
  BY DEF Array, Parsing
<1>2. TypeOK /\ Parses
  BY <1>1 DEF IInv
<1>3. PICK p \in Nat : Synced(idx, p) /\ AtArray(p)
  BY <1>1, <1>2 DEF Parses, Broken, Inside, AtArraySize, AtElement, AtElementSize, AtElementBytes,
                    AtDone
<1>4. /\ Synced(idx + 1, p + 1) /\ Current <= Len(sent)
      /\ p < Len(Encoded(Cmd)) => ByteAt = Encoded(Cmd)[p + 1]
  BY <1>1, <1>3, ByteHere
<1>5. Cmd \in Request /\ Len(Cmd) \in 0 .. 9
  BY <1>4, CurrentRequest
<1>6. CASE p = 0
  <2>1. ByteAt = "*"
    BY <1>4, <1>5, <1>6, HeaderLayout
  <2>2. /\ queryParserState' = "ARRAY_SIZE" /\ idx' = idx + 1 /\ at' = "parse" /\ UNCHANGED args
    BY <1>1, <2>1 DEF Array, Expect, Consume
  <2>3. Inside(1)'
    BY <1>3, <1>4, <2>2 DEF AtArray, Inside, AtArraySize, EmptyFrom, Current, Quiet, client, args
  <2>4. argi' \in Nat /\ argc' \in Nat /\ argv' \in [0 .. MaxArgs-1 -> Arg]
    BY <1>2, <2>2 DEF TypeOK, args
  <2>5. Synced(idx + 1, 1)
    BY <1>4, <1>6
  <2> QED BY <1>1, <2>2, <2>3, <2>4, <2>5, ParserMoves
<1>7. CASE p = 1
  <2>1. ByteAt = Decimal(Len(Cmd))
    BY <1>4, <1>5, <1>7, HeaderLayout
  <2>2. ByteAt # "*"
    BY <1>5, <2>1, DigitOfDecimal, NoDigits
  <2>3. queryParserState' = "ERROR" /\ at' = "parsed" /\ UNCHANGED <<idx, args>>
    BY <2>2 DEF Array, Expect, Stop
  <2>4. Disturbed
    BY <1>3, <1>7 DEF AtArray
  <2> QED BY <1>1, <2>3, <2>4, ParserBreaks
<1> QED BY <1>3, <1>6, <1>7 DEF AtArray

LEMMA ArraySizeKeeps ==
  ASSUME IInv, ArraySize, Quiet
  PROVE  IInv'
<1>1. at = "parse" /\ idx < Len(queryBuff) /\ queryParserState = "ARRAY_SIZE"
  BY DEF ArraySize, Parsing
<1>2. TypeOK /\ Parses
  BY <1>1 DEF IInv
<1>3. PICK p \in Nat : Synced(idx, p) /\ AtArraySize(p)
  BY <1>1, <1>2 DEF Parses, Broken, Inside, AtArray, AtElement, AtElementSize, AtElementBytes,
                    AtDone
<1>4. /\ Synced(idx + 1, p + 1) /\ Current <= Len(sent)
      /\ p < Len(Encoded(Cmd)) => ByteAt = Encoded(Cmd)[p + 1]
  BY <1>1, <1>3, ByteHere
<1>5. Cmd \in Request /\ Len(Cmd) \in 0 .. 9 /\ Len(Cmd) <= MaxArgs /\ MaxArgs \in Nat
  BY <1>4, CurrentRequest, Types
<1>6. /\ at' = "parse" /\ idx' = idx + 1 /\ UNCHANGED <<argv, argi>>
      /\ argi' \in Nat /\ argv' \in [0 .. MaxArgs-1 -> Arg]
  BY <1>1, <1>2 DEF ArraySize, Consume, TypeOK
<1>7. Cmd' = Cmd /\ Current' = Current /\ Current' <= Len(sent')
  BY <1>4 DEF Cmd, Current, Quiet, client
<1>8. CASE p = 1
  <2>1. ByteAt = Decimal(Len(Cmd)) /\ argc = 0
    BY <1>3, <1>4, <1>5, <1>8, HeaderLayout DEF AtArraySize
  <2>2. ByteAt \in DOMAIN Digit /\ Digit[ByteAt] = Len(Cmd) /\ ByteAt # "LF"
    BY <1>5, <2>1, DigitOfDecimal, NoDigits
  <2>3. argc' = Len(Cmd) /\ queryParserState' = "ARRAY_SIZE"
    BY <1>1, <1>5, <2>1, <2>2 DEF ArraySize
  <2>4. Inside(2)'
    BY <1>3, <1>6, <1>7, <2>3 DEF Inside, AtArraySize, EmptyFrom
  <2>5. Synced(idx + 1, 2)
    BY <1>4, <1>8
  <2> QED BY <1>1, <1>5, <1>6, <2>3, <2>4, <2>5, ParserMoves
<1>9. CASE p = 2
  <2>1. ByteAt = "CR" /\ argc = Len(Cmd)
    BY <1>3, <1>4, <1>5, <1>9, HeaderLayout DEF AtArraySize
  <2>2. argc' = argc /\ queryParserState' = "ARRAY_SIZE"
    BY <1>1, <2>1, NoDigits DEF ArraySize
  <2>3. Inside(3)'
    BY <1>3, <1>6, <1>7, <2>1, <2>2 DEF Inside, AtArraySize, EmptyFrom
  <2>4. Synced(idx + 1, 3)
    BY <1>4, <1>9
  <2> QED BY <1>1, <1>5, <1>6, <2>1, <2>2, <2>3, <2>4, ParserMoves
<1>10. CASE p = 3
  <2>1. ByteAt = "LF" /\ argc = Len(Cmd) /\ argi = 0
    BY <1>3, <1>4, <1>5, <1>10, HeaderLayout DEF AtArraySize
  <2>2. argc' = argc /\ queryParserState' = IF argc > 0 THEN "ELEMENT" ELSE "DONE"
    BY <1>1, <2>1, NoDigits DEF ArraySize
  <2>3. Synced(idx + 1, 4)
    BY <1>4, <1>10
  <2>4. EmptyFrom(0)'
    BY <1>3, <1>6 DEF AtArraySize, EmptyFrom
  <2>5. CASE argc > 0
    <3>1. AtElement(4)'
      <4>1. argc' = Len(Cmd') /\ argi' = 0 /\ argi' < argc' /\ queryParserState' = "ELEMENT"
        BY <1>5, <1>6, <1>7, <2>1, <2>2, <2>5
      <4>2. Loaded(argi)' /\ EmptyFrom(argi + 1)' /\ argv'[argi'] = NoArg
        <5>1. \A j \in 0 .. MaxArgs-1 : argv'[j] = NoArg
          BY <2>4 DEF EmptyFrom
        <5>2. 0 \in 0 .. MaxArgs-1 /\ argi' = 0 /\ argi' + 1 = 1
          BY <1>5, <4>1, Types
        <5> QED BY <5>1, <5>2 DEF Loaded, EmptyFrom
      <4>3. 4 = Offsets(Cmd')[argi' + 1]
        BY <1>5, <1>7, <4>1, HeaderLayout
      <4> QED BY <4>1, <4>2, <4>3 DEF AtElement, InArguments
    <3>2. Inside(4)'
      BY <1>7, <3>1 DEF Inside
    <3> QED BY <1>1, <1>5, <1>6, <2>1, <2>2, <2>3, <3>2, ParserMoves
  <2>6. CASE argc = 0
    <3>1. argc' = 0 /\ argi' = 0 /\ Len(Cmd') = 0 /\ queryParserState' = "DONE"
      BY <1>6, <1>7, <2>1, <2>2, <2>6
    <3>2. AtDone(4)'
      <4>1. 4 = Len(Encoded(Cmd'))
        BY <1>5, <1>7, <3>1, HeaderLayout
      <4>2. Loaded(argc)' /\ EmptyFrom(argc)'
        BY <2>4, <3>1 DEF Loaded, EmptyFrom
      <4> QED BY <1>7, <3>1, <4>1, <4>2 DEF AtDone
    <3>3. ~Regular(Cmd)'
      BY <3>1 DEF Regular
    <3> QED BY <1>1, <1>5, <1>6, <2>1, <2>2, <2>3, <3>2, <3>3, ParserMoves
  <2> QED BY <1>5, <2>1, <2>5, <2>6
<1> QED BY <1>3, <1>8, <1>9, <1>10 DEF AtArraySize
\* An argument that is complete: the next one, or the end of the request.
LEMMA ArgIsComplete ==
  ASSUME IInv, Quiet, Current <= Len(sent), InArguments, argv' \in [0 .. MaxArgs-1 -> Arg],
         argv' = [argv EXCEPT ![argi] = [size |-> Len(Cmd[argi + 1]), bytes |-> Cmd[argi + 1]]],
         argi' = argi + 1, argc' = argc,
         queryParserState' = IF argi + 1 < argc THEN "ELEMENT" ELSE "DONE",
         NEW q \in Nat, q = Offsets(Cmd)[argi + 2]
  PROVE  \/ Inside(q)'
         \/ AtDone(q)' /\ argi + 1 = Len(Cmd)
<1>1. /\ argi \in Nat /\ argc = Len(Cmd) /\ argi < argc /\ Loaded(argi) /\ EmptyFrom(argi + 1)
      /\ argv \in [0 .. MaxArgs-1 -> Arg]
  BY DEF IInv, TypeOK, InArguments
<1>2. Cmd \in Request /\ Len(Cmd) \in 0 .. 9 /\ Len(Cmd) <= MaxArgs /\ MaxArgs \in Nat
  BY CurrentRequest, Types
<1>3. Cmd' = Cmd /\ Current' = Current /\ Current' <= Len(sent')
  BY DEF Cmd, Current, Quiet, client
<1>4. Loaded(argi)'
  <2>1. ASSUME NEW j \in 0 .. argi
        PROVE  argv'[j] = [size |-> Len(Cmd[j + 1]), bytes |-> Cmd[j + 1]]
    <3>1. j \in 0 .. MaxArgs-1
      BY <1>1, <1>2
    <3>2. CASE j = argi
      BY <1>1, <3>1, <3>2
    <3>3. CASE j # argi
      <4>1. j \in 0 .. argi-1 /\ argv'[j] = argv[j]
        BY <1>1, <3>1, <3>3
      <4> QED BY <1>1, <4>1 DEF Loaded
    <3> QED BY <3>2, <3>3
  <2>2. argi' - 1 = argi
    BY <1>1
  <2> QED BY <1>3, <2>1, <2>2 DEF Loaded
<1>5. EmptyFrom(argi)'
  <2>1. ASSUME NEW j \in argi + 1 .. MaxArgs-1
        PROVE  argv'[j] = NoArg
    <3>1. j \in 0 .. MaxArgs-1 /\ j # argi
      BY <1>1, <1>2
    <3>2. argv'[j] = argv[j]
      BY <1>1, <3>1
    <3> QED BY <1>1, <3>2 DEF EmptyFrom
  <2> QED BY <2>1 DEF EmptyFrom
<1>6. CASE argi + 1 < argc
  <2>1. argi' + 1 = argi + 2 /\ argi' < argc' /\ queryParserState' = "ELEMENT"
    BY <1>1, <1>2, <1>6
  <2>2. argv'[argi'] = NoArg /\ EmptyFrom(argi + 1)'
    <3>1. argi' \in argi' .. MaxArgs-1 /\ \A j \in argi' + 1 .. MaxArgs-1 : j \in argi' .. MaxArgs-1
      BY <1>1, <1>2, <1>6
    <3> QED BY <1>5, <3>1 DEF EmptyFrom
  <2>3. AtElement(q)'
    BY <1>1, <1>3, <1>4, <2>1, <2>2 DEF AtElement, InArguments
  <2> QED BY <1>3, <2>3 DEF Inside
<1>7. CASE ~(argi + 1 < argc)
  <2>1. argi' = argc' /\ argi + 1 = Len(Cmd) /\ queryParserState' = "DONE"
    BY <1>1, <1>2, <1>7
  <2>2. q = Len(Encoded(Cmd))
    BY <1>1, <1>2, <2>1, ArgLayout
  <2>3. Loaded(argc)' /\ EmptyFrom(argc)'
    BY <1>4, <1>5, <2>1 DEF Loaded, EmptyFrom
  <2>4. Encoded(Cmd)' = Encoded(Cmd') /\ Encoded(Cmd') = Encoded(Cmd)
    BY <1>3 DEF Encoded, EncodedArg
  <2>5. AtDone(q)'
    BY <1>1, <1>3, <2>1, <2>2, <2>3, <2>4 DEF AtDone
  <2> QED BY <2>1, <2>5
<1> QED BY <1>6, <1>7

LEMMA ElementKeeps ==
  ASSUME IInv, Element, Quiet
  PROVE  IInv'
<1>1. at = "parse" /\ idx < Len(queryBuff) /\ queryParserState = "ELEMENT"
  BY DEF Element, Parsing
<1>2. TypeOK /\ Parses
  BY <1>1 DEF IInv
<1>3. PICK p \in Nat : Synced(idx, p) /\ AtElement(p)
  BY <1>1, <1>2 DEF Parses, Broken, Inside, AtArray, AtArraySize, AtElementSize, AtElementBytes,
                    AtDone
<1>4. /\ Synced(idx + 1, p + 1) /\ Current <= Len(sent)
      /\ p < Len(Encoded(Cmd)) => ByteAt = Encoded(Cmd)[p + 1]
  BY <1>1, <1>3, ByteHere
<1>5. Cmd \in Request /\ Len(Cmd) \in 0 .. 9
  BY <1>4, CurrentRequest
<1>6. argi \in Nat /\ argi < Len(Cmd) /\ InArguments /\ p = Offsets(Cmd)[argi + 1]
      /\ argv[argi] = NoArg
  BY <1>2, <1>3 DEF TypeOK, AtElement, InArguments
<1>7. p < Len(Encoded(Cmd)) /\ Encoded(Cmd)[p + 1] = "$"
  <2> DEFINE size == Len(Cmd[argi + 1])
             end == Offsets(Cmd)[argi + 2]
             all == Len(Encoded(Cmd))
  <2>1. size \in Nat /\ end = p + 4 + size /\ end <= all /\ all \in Nat
    BY <1>5, <1>6, ArgLayout, HeaderLayout
  <2>2. Encoded(Cmd)[p + 1] = "$"
    BY <1>5, <1>6, ArgLayout
  <2> HIDE DEF size, end, all
  <2>3. p < all
    BY <2>1
  <2> QED BY <2>2, <2>3 DEF all
<1>8. /\ queryParserState' = "ELEMENT_SIZE" /\ idx' = idx + 1 /\ at' = "parse" /\ UNCHANGED args
  BY <1>1, <1>4, <1>7 DEF Element, Expect, Consume
<1>9. Cmd' = Cmd /\ Current' = Current /\ Current' <= Len(sent')
  BY <1>4 DEF Cmd, Current, Quiet, client
<1>10. Inside(p + 1)'
  <2>1. InArguments'
    BY <1>6, <1>8, <1>9 DEF InArguments, Loaded, EmptyFrom, args
  <2>2. argv'[argi'].bytes = <<>> /\ argv'[argi'].size = 0 /\ p + 1 = Offsets(Cmd')[argi' + 1] + 1
    BY <1>6, <1>8, <1>9 DEF NoArg, args
  <2>3. AtElementSize(p + 1)'
    BY <1>8, <2>1, <2>2 DEF AtElementSize
  <2> QED BY <1>9, <2>3 DEF Inside
<1>11. argi' \in Nat /\ argc' \in Nat /\ argv' \in [0 .. MaxArgs-1 -> Arg]
  BY <1>2, <1>8 DEF TypeOK, args
<1>12. p + 1 \in Nat
  OBVIOUS
<1> QED BY <1>1, <1>4, <1>8, <1>10, <1>11, <1>12, ParserMoves
\* What the two states that count on an argument know of it.
LEMMA InArgument ==
  ASSUME IInv, Current <= Len(sent), InArguments
  PROVE  /\ argi \in Nat /\ argi < Len(Cmd) /\ argc = Len(Cmd) /\ argi \in 0 .. MaxArgs-1
         /\ argv \in [0 .. MaxArgs-1 -> Arg] /\ argv[argi] \in Arg
         /\ Cmd \in Request /\ Len(Cmd) \in Nat
         /\ Cmd[argi + 1] \in Seq(Byte) /\ Len(Cmd[argi + 1]) \in 0 .. 9
         /\ Offsets(Cmd)[argi + 1] \in Nat /\ Len(Encoded(Cmd)) \in Nat
         /\ Offsets(Cmd)[argi + 1] + 4 + Len(Cmd[argi + 1]) <= Len(Encoded(Cmd))
<1>1. /\ argi \in Nat /\ argv \in [0 .. MaxArgs-1 -> Arg] /\ argc = Len(Cmd) /\ argi < Len(Cmd)
  BY DEF IInv, TypeOK, InArguments
<1>2. Cmd \in Request /\ Len(Cmd) \in Nat /\ Len(Cmd) <= MaxArgs /\ MaxArgs \in Nat
  BY CurrentRequest, Types
<1>3. argi \in 0 .. MaxArgs-1
  BY <1>1, <1>2
<1>4. /\ Cmd[argi + 1] \in Seq(Byte) /\ Len(Cmd[argi + 1]) \in 0 .. 9
      /\ Offsets(Cmd)[argi + 1] \in Nat /\ Len(Encoded(Cmd)) \in Nat
      /\ Offsets(Cmd)[argi + 2] = Offsets(Cmd)[argi + 1] + 4 + Len(Cmd[argi + 1])
      /\ Offsets(Cmd)[argi + 2] <= Len(Encoded(Cmd))
  BY <1>1, <1>2, ArgLayout, HeaderLayout
<1> QED BY <1>1, <1>2, <1>3, <1>4

LEMMA ElementSizeKeeps ==
  ASSUME IInv, ElementSize, Quiet
  PROVE  IInv'
<1>1. at = "parse" /\ idx < Len(queryBuff) /\ queryParserState = "ELEMENT_SIZE"
  BY DEF ElementSize, Parsing
<1>2. TypeOK /\ Parses
  BY <1>1 DEF IInv
<1>3. PICK p \in Nat : Synced(idx, p) /\ AtElementSize(p)
  BY <1>1, <1>2 DEF Parses, Broken, Inside, AtArray, AtArraySize, AtElement, AtElementBytes,
                    AtDone
<1>4. /\ Synced(idx + 1, p + 1) /\ Current <= Len(sent) /\ InArguments
      /\ p < Len(Encoded(Cmd)) => ByteAt = Encoded(Cmd)[p + 1]
  BY <1>1, <1>3, ByteHere DEF AtElementSize
<1> DEFINE start == Offsets(Cmd)[argi + 1]
           arg == Cmd[argi + 1]
           all == Len(Encoded(Cmd))
<1>5. /\ argi \in Nat /\ argi < Len(Cmd) /\ argc = Len(Cmd) /\ argi \in 0 .. MaxArgs-1
      /\ argv \in [0 .. MaxArgs-1 -> Arg] /\ argv[argi] \in Arg
      /\ Cmd \in Request /\ Len(Cmd) \in Nat /\ arg \in Seq(Byte) /\ Len(arg) \in 0 .. 9
      /\ start \in Nat /\ all \in Nat /\ start + 4 + Len(arg) <= all
  BY <1>4, InArgument
<1>6. /\ Encoded(Cmd)[start + 2] = Decimal(Len(arg))
      /\ Encoded(Cmd)[start + 3] = "CR" /\ Encoded(Cmd)[start + 4] = "LF"
  BY <1>5, ArgLayout
<1>7. /\ argv[argi].bytes = <<>>
      /\ \/ p = start + 1 /\ argv[argi].size = 0
         \/ p \in {start + 2, start + 3} /\ argv[argi].size = Len(arg)
  BY <1>3 DEF AtElementSize
<1>8. at' = "parse" /\ idx' = idx + 1
  BY <1>1 DEF ElementSize, Consume
<1>9. Cmd' = Cmd /\ Current' = Current /\ Current' <= Len(sent')
  BY <1>4 DEF Cmd, Current, Quiet, client
<1> HIDE DEF start, arg, all
<1>10. CASE p = start + 1
  <2>1. p < all /\ p + 1 = start + 2
    BY <1>5, <1>10
  <2>2. ByteAt = Decimal(Len(arg))
    BY <1>4, <1>6, <2>1 DEF all
  <2>3. ByteAt \in DOMAIN Digit /\ Digit[ByteAt] = Len(arg) /\ ByteAt # "LF"
    BY <1>5, <2>2, DigitOfDecimal, NoDigits
  <2>4. argv[argi].size = 0
    BY <1>5, <1>7, <1>10
  <2>5. /\ argv' = [argv EXCEPT ![argi].size = @ * 10 + Digit[ByteAt]]
        /\ argi' = argi /\ argc' = argc /\ queryParserState' = "ELEMENT_SIZE"
    BY <1>1, <2>3 DEF ElementSize
  <2>6. /\ argv'[argi] = [size |-> Len(arg), bytes |-> <<>>]
        /\ \A j \in 0 .. MaxArgs-1 : j # argi => argv'[j] = argv[j]
        /\ argv' \in [0 .. MaxArgs-1 -> Arg]
    <3>1. argv'[argi] = [argv[argi] EXCEPT !.size = argv[argi].size * 10 + Digit[ByteAt]]
      BY <1>5, <2>5
    <3>2. argv'[argi].size = Len(arg) /\ argv'[argi].bytes = <<>>
      BY <1>5, <1>7, <2>3, <2>4, <3>1 DEF Arg
    <3>3. argv'[argi] = [size |-> Len(arg), bytes |-> <<>>] /\ argv'[argi] \in Arg
      BY <1>5, <3>1, <3>2 DEF Arg
    <3>4. \A j \in 0 .. MaxArgs-1 : j # argi => argv'[j] = argv[j]
      BY <1>5, <2>5
    <3>5. argv' \in [0 .. MaxArgs-1 -> Arg]
      BY <1>5, <2>5, <3>3, <3>4
    <3> QED BY <3>3, <3>4, <3>5
  <2>7. InArguments'
    <3>1. /\ \A j \in 0 .. argi-1 : j \in 0 .. MaxArgs-1 /\ j # argi
          /\ \A j \in argi + 1 .. MaxArgs-1 : j \in 0 .. MaxArgs-1 /\ j # argi
      <4>1. argi \in Nat /\ MaxArgs \in Nat /\ argi < MaxArgs
        BY <1>5, Types
      <4> QED BY <4>1
    <3>2. Loaded(argi)' /\ EmptyFrom(argi + 1)'
      BY <1>4, <1>9, <2>5, <2>6, <3>1 DEF InArguments, Loaded, EmptyFrom
    <3> QED BY <1>5, <1>9, <2>5, <3>2 DEF InArguments
  <2>8. AtElementSize(p + 1)'
    <3>1. p + 1 = Offsets(Cmd')[argi' + 1] + 2 /\ Cmd'[argi' + 1] = arg
      BY <1>9, <2>1, <2>5 DEF start, arg
    <3> QED BY <2>5, <2>6, <2>7, <3>1 DEF AtElementSize
  <2>9. Inside(p + 1)' /\ p + 1 \in Nat
    BY <1>9, <2>8 DEF Inside
  <2> QED BY <1>1, <1>4, <1>5, <1>8, <2>5, <2>6, <2>9, ParserMoves
<1>11. CASE p = start + 2
  <2>1. p < all /\ p + 1 = start + 3 /\ p # start + 1
    BY <1>5, <1>11
  <2>2. ByteAt = "CR" /\ argv[argi].size = Len(arg)
    BY <1>4, <1>6, <1>7, <2>1 DEF all
  <2>3. UNCHANGED args /\ queryParserState' = "ELEMENT_SIZE"
    BY <1>1, <2>2, NoDigits DEF ElementSize
  <2>4. InArguments'
    BY <1>4, <1>9, <2>3 DEF InArguments, Loaded, EmptyFrom, args
  <2>5. AtElementSize(p + 1)'
    <3>1. p + 1 = Offsets(Cmd')[argi' + 1] + 3 /\ Cmd'[argi' + 1] = arg
      BY <1>9, <2>1, <2>3 DEF start, arg, args
    <3> QED BY <1>7, <2>2, <2>3, <2>4, <3>1 DEF AtElementSize, args
  <2>6. Inside(p + 1)' /\ p + 1 \in Nat
    BY <1>9, <2>5 DEF Inside
  <2>7. argi' \in Nat /\ argc' \in Nat /\ argv' \in [0 .. MaxArgs-1 -> Arg]
    BY <1>5, <2>3 DEF args
  <2> QED BY <1>1, <1>4, <1>8, <2>6, <2>7, ParserMoves
<1>12. CASE p = start + 3
  <2>1. p < all /\ p + 1 = start + 4 /\ p # start + 1
    BY <1>5, <1>12
  <2>2. ByteAt = "LF" /\ argv[argi].size = Len(arg)
    BY <1>4, <1>6, <1>7, <2>1 DEF all
  <2>3. CASE Len(arg) > 0
    <3>1. UNCHANGED args /\ queryParserState' = "ELEMENT_BYTES"
      BY <1>1, <1>5, <2>2, <2>3, NoDigits DEF ElementSize
    <3>2. InArguments'
      BY <1>4, <1>9, <3>1 DEF InArguments, Loaded, EmptyFrom, args
    <3>3. AtElementBytes(p + 1)'
      <4>1. p + 1 = Offsets(Cmd')[argi' + 1] + 4 + 0 /\ Cmd'[argi' + 1] = arg
        BY <1>5, <1>9, <2>1, <3>1 DEF start, arg, args
      <4>2. argv'[argi'].bytes = <<>> /\ argv'[argi'].size = Len(arg) /\ Len(<<>>) = 0
        BY <1>7, <2>2, <3>1 DEF args
      <4> QED BY <2>3, <3>1, <3>2, <4>1, <4>2 DEF AtElementBytes
    <3>4. Inside(p + 1)' /\ p + 1 \in Nat
      BY <1>9, <3>3 DEF Inside
    <3>5. argi' \in Nat /\ argc' \in Nat /\ argv' \in [0 .. MaxArgs-1 -> Arg]
      BY <1>5, <3>1 DEF args
    <3> QED BY <1>1, <1>4, <1>8, <3>4, <3>5, ParserMoves
  <2>4. CASE Len(arg) = 0
    <3>1. /\ argv' = argv /\ argc' = argc /\ argi' = argi + 1
          /\ queryParserState' = IF argi + 1 < argc THEN "ELEMENT" ELSE "DONE"
      BY <1>1, <1>5, <2>2, <2>4, NoDigits DEF ElementSize
    <3>2. arg = <<>>
      BY <1>5, <2>4
    <3>3. argv[argi] = [size |-> Len(arg), bytes |-> arg]
      BY <1>5, <1>7, <2>2, <3>2 DEF Arg
    <3>4. argv' = [argv EXCEPT ![argi] = [size |-> Len(Cmd[argi + 1]), bytes |-> Cmd[argi + 1]]]
      BY <1>5, <3>1, <3>3 DEF arg
    <3>5. p + 1 = Offsets(Cmd)[argi + 2]
      <4>1. Offsets(Cmd)[argi + 2] = start + 4 + Len(arg)
        BY <1>5, ArgLayout DEF start, arg
      <4> QED BY <1>5, <2>1, <2>4, <4>1
    <3>6. argi' \in Nat /\ argc' \in Nat /\ argv' \in [0 .. MaxArgs-1 -> Arg] /\ p + 1 \in Nat
      BY <1>5, <3>1
    <3>7. \/ Inside(p + 1)'
          \/ AtDone(p + 1)' /\ argi + 1 = Len(Cmd)
      BY <1>4, <3>1, <3>4, <3>5, <3>6, ArgIsComplete
    <3>8. argi + 1 = Len(Cmd) => ~Regular(Cmd)'
      <4>1. argi + 1 = Len(Cmd) => Last(Cmd) = <<>>
        BY <3>2 DEF Last, arg
      <4> QED BY <1>9, <4>1 DEF Regular
    <3> QED BY <1>1, <1>4, <1>8, <3>6, <3>7, <3>8, ParserMoves
  <2> QED BY <1>5, <2>3, <2>4
<1> QED BY <1>5, <1>7, <1>10, <1>11, <1>12
LEMMA ElementBytesKeeps ==
  ASSUME IInv, ElementBytes, Quiet
  PROVE  IInv'
<1>1. at = "parse" /\ idx < Len(queryBuff) /\ queryParserState = "ELEMENT_BYTES"
  BY DEF ElementBytes, Parsing
<1>2. TypeOK /\ Parses
  BY <1>1 DEF IInv
<1>3. PICK p \in Nat : Synced(idx, p) /\ AtElementBytes(p)
  BY <1>1, <1>2 DEF Parses, Broken, Inside, AtArray, AtArraySize, AtElement, AtElementSize,
                    AtDone
<1>4. /\ Synced(idx + 1, p + 1) /\ Current <= Len(sent) /\ InArguments
      /\ p < Len(Encoded(Cmd)) => ByteAt = Encoded(Cmd)[p + 1]
  BY <1>1, <1>3, ByteHere DEF AtElementBytes
<1> DEFINE start == Offsets(Cmd)[argi + 1]
           arg == Cmd[argi + 1]
           all == Len(Encoded(Cmd))
           old == argv[argi].bytes
           n == Len(old)
           new == Append(old, ByteAt)
<1>5. /\ argi \in Nat /\ argi < Len(Cmd) /\ argc = Len(Cmd) /\ argi \in 0 .. MaxArgs-1
      /\ argv \in [0 .. MaxArgs-1 -> Arg] /\ argv[argi] \in Arg
      /\ Cmd \in Request /\ Len(Cmd) \in Nat /\ arg \in Seq(Byte) /\ Len(arg) \in 0 .. 9
      /\ start \in Nat /\ all \in Nat /\ start + 4 + Len(arg) <= all
  BY <1>4, InArgument
<1>6. \A j \in 1 .. Len(arg) : Encoded(Cmd)[start + 4 + j] = arg[j]
  BY <1>5, ArgLayout
<1>7. /\ argv[argi].size = Len(arg) /\ n < Len(arg) /\ p = start + 4 + n
      /\ \A j \in 1 .. n : old[j] = arg[j]
      /\ old \in Seq(Byte) /\ n \in Nat
  BY <1>3, <1>5 DEF AtElementBytes, Arg
<1>8. Cmd' = Cmd /\ Current' = Current /\ Current' <= Len(sent')
  BY <1>4 DEF Cmd, Current, Quiet, client
<1>9. ByteAt = arg[n + 1] /\ ByteAt \in Byte
  <2> HIDE DEF start, arg, all, old, n
  <2>1. p < all /\ n + 1 \in 1 .. Len(arg) /\ p + 1 = start + 4 + (n + 1)
    BY <1>5, <1>7
  <2>2. ByteAt = Encoded(Cmd)[p + 1]
    BY <1>4, <2>1 DEF all
  <2>3. arg[n + 1] \in Byte
    BY <1>5, <2>1
  <2> QED BY <1>6, <2>1, <2>2, <2>3
<1>10. /\ new \in Seq(Byte) /\ Len(new) = n + 1
       /\ \A j \in 1 .. n + 1 : new[j] = arg[j]
  <2> HIDE DEF start, arg, all, old
  <2>1. new \in Seq(Byte) /\ Len(new) = n + 1 /\ new[n + 1] = ByteAt
        /\ \A j \in 1 .. n : new[j] = old[j]
    BY <1>7, <1>9
  <2> HIDE DEF n, new
  <2>2. ASSUME NEW j \in 1 .. n + 1
        PROVE  new[j] = arg[j]
    <3>1. CASE j = n + 1
      BY <1>9, <2>1, <3>1
    <3>2. CASE j # n + 1
      <4>1. j \in 1 .. n
        BY <1>7, <3>2
      <4> QED BY <1>7, <2>1, <4>1
    <3> QED BY <3>1, <3>2
  <2> QED BY <2>1, <2>2
<1>11. /\ argv' = [argv EXCEPT ![argi].bytes = new]
       /\ argi' = IF n + 1 = argv[argi].size THEN argi + 1 ELSE argi
       /\ argc' = argc
  BY DEF ElementBytes, Filled
<1> HIDE DEF new
<1>12. /\ argv'[argi] = [size |-> Len(arg), bytes |-> new]
       /\ \A j \in 0 .. MaxArgs-1 : j # argi => argv'[j] = argv[j]
       /\ argv' \in [0 .. MaxArgs-1 -> Arg]
  <2> HIDE DEF start, arg, all, n
  <2> QED BY <1>5, <1>7, <1>10, <1>11 DEF Arg
<1>13. argi' \in Nat /\ argc' \in Nat /\ p + 1 \in Nat
  <2> HIDE DEF start, arg, all, old, n
  <2>1. argi + 1 \in Nat /\ argc \in Nat
    BY <1>5
  <2> QED BY <1>5, <1>11, <2>1
<1>14. CASE ~Filled
  <2>1. /\ n + 1 # argv[argi].size /\ argi' = argi /\ queryParserState' = "ELEMENT_BYTES"
        /\ at' = "parse" /\ idx' = idx + 1
    BY <1>1, <1>11, <1>14 DEF ElementBytes, Filled, Consume
  <2>2. InArguments'
    <3>1. /\ \A j \in 0 .. argi-1 : j \in 0 .. MaxArgs-1 /\ j # argi
          /\ \A j \in argi + 1 .. MaxArgs-1 : j \in 0 .. MaxArgs-1 /\ j # argi
      <4>1. argi \in Nat /\ MaxArgs \in Nat /\ argi < MaxArgs
        BY <1>5, Types
      <4> QED BY <4>1
    <3>2. Loaded(argi)' /\ EmptyFrom(argi + 1)'
      BY <1>4, <1>8, <1>12, <2>1, <3>1 DEF InArguments, Loaded, EmptyFrom
    <3> QED BY <1>5, <1>8, <1>11, <2>1, <3>2 DEF InArguments
  <2>3. AtElementBytes(p + 1)'
    <3>1. argv'[argi'].size = Len(arg) /\ argv'[argi'].bytes = new /\ Cmd'[argi' + 1] = arg
      BY <1>8, <1>12, <2>1
    <3>2. Offsets(Cmd')[argi' + 1] = start
      BY <1>8, <2>1
    <3> HIDE DEF start, arg, all, n
    <3>3. p + 1 = start + 4 + Len(new) /\ Len(new) < Len(arg)
      BY <1>5, <1>7, <1>10, <2>1
    <3> QED BY <1>10, <2>1, <2>2, <3>1, <3>2, <3>3 DEF AtElementBytes
  <2>4. Inside(p + 1)'
    BY <1>8, <2>3 DEF Inside
  <2> QED BY <1>1, <1>4, <1>12, <1>13, <2>1, <2>4, ParserMoves
<1>15. CASE Filled
  <2>1. n + 1 = Len(arg) /\ argi' = argi + 1
    BY <1>7, <1>11, <1>15 DEF Filled
  <2>2. new = arg
    <3> HIDE DEF start, arg, all, n
    <3> QED BY <1>5, <1>10, <2>1
  <2>3. argv' = [argv EXCEPT ![argi] = [size |-> Len(Cmd[argi + 1]), bytes |-> Cmd[argi + 1]]]
    <3> DEFINE complete == [size |-> Len(arg), bytes |-> arg]
    <3>1. argv'[argi] = complete
      BY <1>12, <2>2
    <3> HIDE DEF complete, start, arg, all, n
    <3>2. argv' = [argv EXCEPT ![argi] = complete]
      <4>1. \A j \in 0 .. MaxArgs-1 : argv'[j] = [argv EXCEPT ![argi] = complete][j]
        BY <1>5, <1>12, <3>1
      <4> QED BY <1>5, <1>12, <4>1
    <3> QED BY <3>2 DEF complete, arg
  <2>4. queryParserState' = IF argi + 1 < argc THEN "ELEMENT" ELSE "DONE"
    BY <1>5, <1>15 DEF ElementBytes, LastArg
  <2>5. p + 1 = Offsets(Cmd)[argi + 2]
    <3>1. Offsets(Cmd)[argi + 2] = start + 4 + Len(arg)
      BY <1>5, ArgLayout
    <3>2. p = start + 4 + n /\ n \in Nat /\ start \in Nat /\ n + 1 = Len(arg)
      BY <1>5, <1>7, <2>1
    <3> HIDE DEF start, arg, n
    <3>3. p + 1 = start + 4 + Len(arg)
      BY <3>2
    <3> QED BY <3>1, <3>3
  <2>6. \/ Inside(p + 1)'
        \/ AtDone(p + 1)' /\ argi + 1 = Len(Cmd)
    BY <1>4, <1>11, <1>12, <1>13, <2>1, <2>3, <2>4, <2>5, ArgIsComplete
  <2>7. CASE argi + 1 < argc
    <3>1. queryParserState' = "ELEMENT" /\ at' = "parse" /\ idx' = idx + 1
      BY <1>1, <1>5, <1>15, <2>7 DEF ElementBytes, LastArg, Consume
    <3>2. Inside(p + 1)'
      BY <2>6, <3>1 DEF AtDone
    <3> QED BY <1>1, <1>4, <1>12, <1>13, <3>1, <3>2, ParserMoves
  <2>8. CASE ~(argi + 1 < argc)
    <3>1. queryParserState' = "DONE" /\ at' = "parsed" /\ idx' = idx
      BY <1>1, <1>5, <1>15, <2>8 DEF ElementBytes, LastArg, Stop
    <3>2. AtDone(p + 1)'
      BY <2>6, <3>1 DEF Inside, AtArraySize, AtElement, AtElementSize, AtElementBytes
    <3>3. Synced(idx + 1, p + 1)'
      BY <1>4, <3>1, SyncedKept DEF Quiet, Synced, Current, client, buffer
    <3>4. TypeOK' /\ Counted'
      BY <1>2, <1>12, <1>13, <3>1 DEF IInv, TypeOK, Counted, Quiet, client, buffer
    <3>5. queryBuffPos' > 0 => Len(executed)' = answered' + 1
      BY <1>2 DEF Parses, Quiet, client, buffer
    <3>6. Parsed'
      BY <1>13, <3>2, <3>3, <3>5 DEF Parsed
    <3> QED BY <3>1, <3>4, <3>6 DEF IInv
  <2> QED BY <2>7, <2>8
<1> QED BY <1>14, <1>15

LEMMA OtherStepsKeep ==
  ASSUME IInv, Done \/ UnknownState \/ EndOfBuffer, Quiet
  PROVE  IInv'
<1>1. at = "parse" /\ TypeOK /\ Counted /\ Parses
  BY DEF IInv, Done, UnknownState, EndOfBuffer, Parsing
<1>2. /\ UNCHANGED <<idx, queryParserState, args>> /\ Cmd' = Cmd /\ Current' = Current
      /\ UNCHANGED <<sent, net, answered, queryBuff, queryBuffPos, executed>>
  BY DEF Done, UnknownState, EndOfBuffer, Stop, Cmd, Current, Quiet, client, buffer
<1>3. TypeOK' /\ Counted'
  BY <1>1, <1>2 DEF TypeOK, Counted, args
<1>4. queryBuffPos' > 0 => Len(executed)' = answered' + 1
  BY <1>1, <1>2 DEF Parses
<1>5. Disturbed' = Disturbed /\ Broken' = Broken /\ Regular(Cmd)' = Regular(Cmd)
  BY <1>2 DEF Broken, Disturbed, OnlyRegularSent, Regular
<1>6. ASSUME NEW p \in Nat
      PROVE  /\ Synced(idx, p)' = Synced(idx, p) /\ Inside(p)' = Inside(p)
             /\ AtDone(p)' = AtDone(p)
  BY <1>2 DEF Synced, Inside, AtArraySize, AtElement, AtElementSize, AtElementBytes, AtDone,
              InArguments, Loaded, EmptyFrom, args
<1>7. CASE Done
  <2>1. queryParserState = "DONE" /\ at' = "parsed"
    BY <1>7 DEF Done, Parsing, Stop
  <2>2. PICK p \in Nat : Synced(idx, p) /\ AtDone(p) /\ ~Regular(Cmd)
    BY <1>1, <2>1 DEF Parses, Broken, Inside, AtArray, AtArraySize, AtElement, AtElementSize,
                      AtElementBytes
  <2>3. Parsed'
    BY <1>4, <1>5, <1>6, <2>2 DEF Parsed
  <2> QED BY <1>3, <2>1, <2>3 DEF IInv
<1>8. CASE UnknownState
  <2>1. queryParserState = "ERROR" /\ at' = "exited"
    BY <1>8 DEF UnknownState, Parsing
  <2>2. Disturbed
    BY <1>1, <2>1 DEF Parses, Broken, Inside, AtArray, AtArraySize, AtElement, AtElementSize,
                      AtElementBytes, AtDone
  <2>3. Exited'
    BY <1>2, <1>5, <2>1, <2>2 DEF Exited
  <2> QED BY <1>3, <2>1, <2>3 DEF IInv
<1>9. CASE EndOfBuffer
  <2>1. idx = Len(queryBuff) /\ ~(idx < Len(queryBuff)) /\ at' = "parsed"
    BY <1>9, Types DEF EndOfBuffer
  <2>2. CASE Broken
    <3>1. Parsed'
      BY <1>4, <1>5, <2>2 DEF Parsed
    <3> QED BY <1>3, <2>1, <3>1 DEF IInv
  <2>3. CASE ~Broken
    <3>1. PICK p \in Nat : Synced(idx, p) /\ (Inside(p) \/ (AtDone(p) /\ ~Regular(Cmd)))
      BY <1>1, <2>1, <2>3 DEF Parses
    <3>2. Parsed'
      BY <1>2, <1>4, <1>5, <1>6, <2>1, <3>1 DEF Parsed
    <3> QED BY <1>3, <2>1, <3>2 DEF IInv
  <2> QED BY <2>2, <2>3
<1> QED BY <1>7, <1>8, <1>9
-----------------------------------------------------------------------------
(* The client, the network and the handler around the parser               *)

LEMMA PrefixFacts ==
  ASSUME IInv
  PROVE  /\ sent \in Seq(Seq(Seq(Byte))) /\ Len(executed) <= Len(sent)
         /\ \A i \in 1 .. Len(executed) : executed[i] = sent[i]
<1>1. sent \in Seq(Request) /\ executed \in Seq(Seq(Seq(Byte))) /\ IsPrefix(executed, sent)
  BY DEF IInv, TypeOK, Counted
<1>2. \A cmd \in Request : cmd \in Seq(Seq(Byte))
  BY RequestArgs
<1>3. sent \in Seq(Seq(Seq(Byte)))
  BY <1>1, <1>2
<1> QED BY <1>1, <1>3, PrefixPointwise

LEMMA SendKeeps ==
  ASSUME ~crowded', IInv, Len(sent) < MaxCommands, NEW cmd \in Commands[Len(sent) + 1], Send(cmd)
  PROVE  IInv'
<1>1. cmd \in Request
  <2>1. Len(sent) + 1 \in 1 .. Len(Commands)
    BY CommandsAssumption, Types DEF MaxCommands
  <2> QED BY <2>1, CommandsAssumption
<1>2. /\ TypeOK /\ Counted
      /\ sent \in Seq(Request) /\ Len(sent) \in Nat /\ answered \in Nat /\ Len(executed) \in Nat
      /\ executed \in Seq(Seq(Seq(Byte))) /\ answered <= Len(executed)
  BY Types DEF IInv, TypeOK, Counted
<1>3. /\ sent' = Append(sent, cmd) /\ net' = net \o Encoded(cmd)
      /\ UNCHANGED <<answered, at, queryBuff, queryBuffPos, idx, queryParserState, args, executed>>
  BY DEF Send, buffer
<1>5. /\ sent' \in Seq(Request) /\ Len(sent') = Len(sent) + 1
      /\ \A i \in 1 .. Len(sent) : sent'[i] = sent[i]
  BY <1>1, <1>2, <1>3
<1>4. Len(sent) + 1 <= answered + 2
  <2>1. ~(Len(sent') - answered > 2)
    BY DEF Send
  <2> QED BY <1>2, <1>5, <2>1
<1>6. Current' = Current /\ (Current = Len(sent) \/ Current = Len(sent) + 1)
  <2> DEFINE e == Len(executed)
             s == Len(sent)
  <2>1. e \in Nat /\ s \in Nat /\ answered \in Nat /\ e <= s /\ answered <= e /\ s + 1 <= answered + 2
    BY <1>2, <1>4, PrefixFacts
  <2>2. Current' = Current /\ Current = e + 1
    BY <1>3 DEF Current
  <2> HIDE DEF e, s
  <2>3. e + 1 = s \/ e + 1 = s + 1
    BY <2>1
  <2> QED BY <2>2, <2>3 DEF s
<1>7. Encoded(cmd) \in Seq(Byte)
  BY <1>1, Layout
<1>8. ASSUME NEW pos \in Nat, NEW p \in Nat, Synced(pos, p)
      PROVE  Synced(pos, p)'
  <2>1. StreamFrom(sent', Current) = StreamFrom(sent, Current) \o Encoded(cmd)
    BY <1>1, <1>2, <1>3, <1>6, Types, StreamGrows
  <2>2. Follows(queryBuff, net \o Encoded(cmd), StreamFrom(sent, Current) \o Encoded(cmd), pos, p)
    BY <1>2, <1>7, <1>8, FollowsSend, Types DEF Synced, TypeOK
  <2> QED BY <1>3, <1>6, <2>1, <2>2 DEF Synced
<1>9. Disturbed => Disturbed'
  <2>1. DOMAIN sent = 1 .. Len(sent) /\ DOMAIN sent' = 1 .. Len(sent')
    BY <1>2, <1>5
  <2>2. \A i \in 1 .. Len(sent) : i \in 1 .. Len(sent')
    BY <1>2, <1>5
  <2> QED BY <1>5, <2>1, <2>2 DEF Disturbed, OnlyRegularSent, Regular
<1>10. Current <= Len(sent) => Cmd' = Cmd /\ Current' <= Len(sent')
  <2>1. Current \in Nat \ {0}
    BY Types
  <2> QED BY <1>2, <1>5, <1>6, <2>1 DEF Cmd
<1>11. ASSUME NEW p \in Nat
       PROVE  /\ Inside(p) => Inside(p)'
              /\ AtArray(p) => AtArray(p)'
              /\ AtDone(p) => AtDone(p)'
  <2>1. Inside(p) => Inside(p)'
    BY <1>3, <1>10 DEF Inside, AtArraySize, AtElement, AtElementSize, AtElementBytes,
                       InArguments, Loaded, EmptyFrom, args
  <2>2. AtArray(p) => AtArray(p)'
    BY <1>3, <1>9 DEF AtArray, EmptyFrom, args
  <2>3. AtDone(p) => AtDone(p)'
    BY <1>3, <1>10 DEF AtDone, Loaded, EmptyFrom, args
  <2> QED BY <2>1, <2>2, <2>3
<1>12. ASSUME NEW p \in Nat, AtDone(p), ~Regular(Cmd)
       PROVE  ~Regular(Cmd)'
  BY <1>10, <1>12 DEF AtDone, Regular
<1>13. Broken => Broken'
  BY <1>3, <1>9 DEF Broken
<1>14. TypeOK'
  <2>1. net' \in Seq(Byte)
    BY <1>2, <1>3, <1>7, ConcatIsSequence DEF TypeOK
  <2> QED BY <1>2, <1>3, <1>5, <2>1 DEF TypeOK, args
<1>15. Counted'
  <2>1. Len(executed) <= Len(sent') /\ \A i \in 1 .. Len(executed) : executed[i] = sent'[i]
    <3>1. Len(executed) <= Len(sent) /\ \A i \in 1 .. Len(executed) : executed[i] = sent[i]
      BY PrefixFacts
    <3>2. Len(executed) <= Len(sent') /\ \A i \in 1 .. Len(executed) : i \in 1 .. Len(sent)
      BY <1>2, <1>5, <3>1
    <3> QED BY <1>5, <3>1, <3>2
  <2>2. sent' \in Seq(Seq(Seq(Byte)))
    <3>1. \A c \in Request : c \in Seq(Seq(Byte))
      BY RequestArgs
    <3> QED BY <1>5, <3>1
  <2>3. IsPrefix(executed, sent')
    BY <1>2, <2>1, <2>2, PrefixPointwise
  <2> QED BY <1>2, <1>3, <1>4, <1>5, <2>3 DEF Counted
<1>16. idx \in Nat /\ idx + 1 \in Nat /\ 0 \in Nat /\ Len(queryBuff) \in Nat
  BY <1>2, Types DEF TypeOK
<1>17. Waits => Waits'
  BY <1>3, <1>8, <1>11, <1>13, <1>16 DEF Waits
<1>18. Parses => Parses'
  <2> SUFFICES ASSUME Parses PROVE Parses'
    OBVIOUS
  <2>1. CASE Broken
    BY <1>3, <1>13, <2>1 DEF Parses
  <2>2. CASE ~Broken
    <3>1. PICK p \in Nat :
            /\ Synced(idx, p)
            /\ \/ Inside(p)
               \/ AtArray(p) /\ idx < Len(queryBuff)
               \/ AtDone(p) /\ ~Regular(Cmd)
      BY <2>2 DEF Parses
    <3>2. Synced(idx, p)'
      BY <1>3, <1>8, <1>16, <3>1 DEF Synced
    <3> QED BY <1>3, <1>11, <1>12, <3>1, <3>2 DEF Parses
  <2> QED BY <2>1, <2>2
<1>19. Parsed => Parsed'
  <2> SUFFICES ASSUME Parsed PROVE Parsed'
    OBVIOUS
  <2>1. CASE Broken
    BY <1>3, <1>13, <2>1 DEF Parsed
  <2>2. CASE ~Broken
    <3>1. PICK p \in Nat :
            \/ Inside(p) /\ idx = Len(queryBuff) /\ Synced(idx, p)
            \/ AtDone(p) /\ (Synced(idx + 1, p) \/ (Synced(idx, p) /\ ~Regular(Cmd)))
      BY <2>2 DEF Parsed
    <3>2. /\ Synced(idx, p) => Synced(idx, p)'
          /\ Synced(idx + 1, p) => Synced(idx + 1, p)'
      BY <1>3, <1>8, <1>16 DEF Synced
    <3> QED BY <1>3, <1>11, <1>12, <3>1, <3>2 DEF Parsed
  <2> QED BY <2>1, <2>2
<1>20. Writes => Writes'
  <2> SUFFICES ASSUME Writes PROVE Writes'
    OBVIOUS
  <2>1. PICK p \in Nat : Synced(Len(queryBuff), p) /\ (p = 0 \/ (p = 1 /\ Disturbed))
    BY DEF Writes
  <2>2. Synced(Len(queryBuff), p)'
    BY <1>3, <1>8, <1>16, <2>1 DEF Synced
  <2> QED BY <1>3, <1>9, <2>1, <2>2 DEF Writes, EmptyFrom, args
<1>21. Exited => Exited'
  BY <1>3, <1>9 DEF Exited
<1> QED BY <1>3, <1>14, <1>15, <1>17, <1>18, <1>19, <1>20, <1>21 DEF IInv

LEMMA ReadKeeps ==
  ASSUME IInv, NEW n \in 1 .. BufferSize, n <= Len(net), Read(n)
  PROVE  IInv'
<1>1. /\ at = "wait" /\ at' = "parse" /\ queryBuff = <<>> /\ queryBuffPos = 0 /\ Waits
      /\ TypeOK /\ Counted /\ net \in Seq(Byte)
  BY DEF Read, IInv, Waits, TypeOK
<1>2. /\ queryBuff' = SubSeq(net, 1, n) /\ net' = SubSeq(net, n + 1, Len(net)) /\ idx' = 0
      /\ queryBuffPos' = 0
      /\ UNCHANGED <<sent, answered, queryParserState, args, executed>>
      /\ Current' = Current /\ Cmd' = Cmd
  BY <1>1 DEF Read, Current, Cmd
<1>3. n \in 1 .. Len(net)
  BY <1>1, BoundsAssumption
<1>4. queryBuff' \in Seq(Byte) /\ Len(queryBuff') = n /\ net' \in Seq(Byte)
  BY <1>1, <1>2, <1>3
<1>5. ASSUME NEW p \in Nat, Synced(0, p)
      PROVE  Synced(idx, p)'
  <2>1. Follows(<<>>, net, StreamFrom(sent, Current), 0, p)
    BY <1>1, <1>5 DEF Synced
  <2>2. Follows(SubSeq(net, 1, n), SubSeq(net, n + 1, Len(net)), StreamFrom(sent, Current), 0, p)
    BY <1>1, <1>3, <2>1, FollowsRead, Types
  <2> QED BY <1>2, <2>2 DEF Synced
<1>6. Disturbed' = Disturbed /\ Broken' = Broken
  BY <1>2 DEF Broken, Disturbed, OnlyRegularSent, Regular
<1>7. ASSUME NEW p \in Nat
      PROVE  Inside(p)' = Inside(p) /\ AtArray(p)' = AtArray(p)
  BY <1>2, <1>6 DEF Inside, AtArray, AtArraySize, AtElement, AtElementSize, AtElementBytes,
                    InArguments, Loaded, EmptyFrom, args
<1>8. TypeOK' /\ Counted'
  BY <1>1, <1>2, <1>4 DEF TypeOK, Counted, args
<1>9. idx' < Len(queryBuff') /\ idx' <= Len(queryBuff') /\ ~(queryBuffPos' > 0)
  BY <1>2, <1>3, <1>4
<1>10. Parses'
  <2>1. CASE Broken
    BY <1>6, <1>9, <2>1 DEF Parses
  <2>2. CASE ~Broken
    <3>1. PICK p \in Nat : Synced(0, p) /\ (Inside(p) \/ AtArray(p))
      BY <1>1, <2>2 DEF Waits
    <3>2. Synced(idx, p)' /\ (Inside(p)' \/ AtArray(p)')
      BY <1>5, <1>7, <3>1
    <3> QED BY <1>9, <3>2 DEF Parses
  <2> QED BY <2>1, <2>2
<1> QED BY <1>1, <1>8, <1>10 DEF IInv
LEMMA IncompleteKeeps ==
  ASSUME IInv, Incomplete
  PROVE  IInv'
<1>1. /\ at = "parsed" /\ queryParserState # "DONE" /\ TypeOK /\ Counted /\ Parsed
      /\ queryBuff \in Seq(Byte) /\ net \in Seq(Byte)
  BY DEF Incomplete, IInv, TypeOK
<1>2. /\ at' = "wait" /\ queryBuff' = <<>> /\ queryBuffPos' = 0
      /\ UNCHANGED <<sent, net, answered, idx, queryParserState, args, executed>>
      /\ Current' = Current /\ Cmd' = Cmd
  BY DEF Incomplete, client, Current, Cmd
<1>3. Broken' = Broken
  BY <1>2 DEF Broken, Disturbed, OnlyRegularSent, Regular
<1>4. TypeOK' /\ Counted'
  <2>1. <<>> \in Seq(Byte)
    OBVIOUS
  <2> QED BY <1>1, <1>2, <2>1 DEF TypeOK, Counted, args
<1>5. Waits'
  <2>1. CASE Broken
    BY <1>2, <1>3, <2>1 DEF Waits
  <2>2. CASE ~Broken
    <3>1. PICK p \in Nat : Inside(p) /\ idx = Len(queryBuff) /\ Synced(idx, p)
      BY <1>1, <2>2 DEF Parsed, AtDone
    <3>2. Follows(<<>>, net, StreamFrom(sent, Current), 0, p)
      BY <1>1, <3>1, FollowsDrop, Types DEF Synced
    <3>3. Synced(0, p)'
      BY <1>2, <3>2 DEF Synced
    <3>4. Inside(p)'
      BY <1>2, <3>1 DEF Inside, AtArraySize, AtElement, AtElementSize, AtElementBytes,
                        InArguments, Loaded, EmptyFrom, args
    <3> QED BY <1>2, <3>3, <3>4 DEF Waits
  <2> QED BY <2>1, <2>2
<1> QED BY <1>2, <1>4, <1>5 DEF IInv

\* When a request is complete: what its arguments are and where the next one starts.
LEMMA RequestIsComplete ==
  ASSUME IInv, at = "parsed", queryParserState = "DONE"
  PROVE  /\ Current <= Len(sent) /\ argc = Len(Cmd) /\ argc \in 0 .. MaxArgs /\ EmptyFrom(argc)
         /\ \A i \in 1 .. argc : argv[i-1].bytes = Cmd[i]
         /\ argc = 0 => argv[0] = NoArg
         /\ \/ Follows(queryBuff, net, StreamFrom(sent, Current + 1), idx + 1, 0)
            \/ Follows(queryBuff, net, StreamFrom(sent, Current + 1), idx, 0) /\ ~Regular(Cmd)
<1>1. /\ Parsed /\ sent \in Seq(Request) /\ queryBuff \in Seq(Byte) /\ net \in Seq(Byte)
      /\ idx \in Nat
  BY DEF IInv, TypeOK
<1>2. PICK p \in Nat : AtDone(p) /\ (Synced(idx + 1, p) \/ (Synced(idx, p) /\ ~Regular(Cmd)))
  BY <1>1 DEF Parsed, Broken, Inside, AtArraySize, AtElement, AtElementSize, AtElementBytes
<1>3. /\ Current <= Len(sent) /\ argc = Len(Cmd) /\ Loaded(argc) /\ EmptyFrom(argc)
      /\ p = Len(Encoded(Cmd))
  BY <1>2 DEF AtDone
<1>4. Cmd \in Request /\ Len(Cmd) \in 0 .. 9 /\ Len(Cmd) <= MaxArgs /\ MaxArgs \in Nat \ {0}
  BY <1>3, CurrentRequest, Types
<1>5. \A i \in 1 .. argc : argv[i-1].bytes = Cmd[i]
  <2>1. ASSUME NEW i \in 1 .. argc
        PROVE  argv[i-1].bytes = Cmd[i]
    <3>1. i - 1 \in 0 .. argc-1 /\ (i - 1) + 1 = i
      BY <1>3, <1>4
    <3>2. argv[i-1] = [size |-> Len(Cmd[(i - 1) + 1]), bytes |-> Cmd[(i - 1) + 1]]
      BY <1>3, <3>1 DEF Loaded
    <3> QED BY <3>1, <3>2
  <2> QED BY <2>1
<1>6. argc = 0 => argv[0] = NoArg
  <2>1. 0 \in 0 .. MaxArgs-1
    BY <1>4
  <2> QED BY <1>3, <2>1 DEF EmptyFrom
<1>7. /\ Encoded(Cmd) \in Seq(Byte) /\ StreamFrom(sent, Current + 1) \in Seq(Byte)
      /\ StreamFrom(sent, Current) = Encoded(Cmd) \o StreamFrom(sent, Current + 1)
  <2>1. Encoded(Cmd) \in Seq(Byte)
    BY <1>4, Layout
  <2>2. StreamFrom(sent, Current + 1) \in Seq(Byte)
    <3>1. Current + 1 \in Nat \ {0}
      BY Types
    <3> QED BY <1>1, <3>1, StreamUnfolds
  <2>3. StreamFrom(sent, Current) = Encoded(sent[Current]) \o StreamFrom(sent, Current + 1)
    BY <1>1, <1>3, Types, StreamLength
  <2> QED BY <2>1, <2>2, <2>3 DEF Cmd
<1>8. ASSUME NEW pos \in Nat, Synced(pos, p)
      PROVE  Follows(queryBuff, net, StreamFrom(sent, Current + 1), pos, 0)
  <2>1. p = Len(Encoded(Cmd)) + 0
    BY <1>3, <1>4, HeaderLayout
  <2>2. Follows(queryBuff, net, Encoded(Cmd) \o StreamFrom(sent, Current + 1), pos,
                Len(Encoded(Cmd)) + 0)
    BY <1>7, <1>8, <2>1 DEF Synced
  <2>3. 0 \in Nat
    OBVIOUS
  <2> QED BY <1>1, <1>7, <2>2, <2>3, FollowsNext
<1>9. idx + 1 \in Nat
  BY <1>1
<1> QED BY <1>1, <1>2, <1>3, <1>4, <1>5, <1>6, <1>8, <1>9

LEMMA UnknownCommandKeeps ==
  ASSUME IInv, UnknownCommand
  PROVE  IInv'
<1>1. /\ at = "parsed" /\ queryParserState = "DONE" /\ argv[0].bytes \notin Names
      /\ TypeOK /\ Counted
  BY DEF UnknownCommand, IInv
<1>2. /\ at' = "exited"
      /\ UNCHANGED <<sent, net, answered, queryBuff, queryBuffPos, idx, queryParserState, args,
                     executed>>
  BY DEF UnknownCommand, client, buffer
<1>3. ~Regular(Cmd)
  <2>1. /\ argc = Len(Cmd) /\ Len(Cmd) \in Nat
        /\ \A i \in 1 .. argc : argv[i-1].bytes = Cmd[i]
    BY <1>1, RequestIsComplete, CurrentRequest
  <2>2. CASE Len(Cmd) = 0
    BY <2>2 DEF Regular
  <2>3. CASE Len(Cmd) > 0
    <3>1. 1 \in 1 .. argc /\ 1 - 1 = 0
      BY <2>1, <2>3
    <3>2. argv[1-1].bytes = Cmd[1]
      BY <2>1, <3>1
    <3>3. argv[0].bytes = Cmd[1]
      BY <3>1, <3>2
    <3> QED BY <1>1, <3>3 DEF Regular
  <2> QED BY <2>1, <2>2, <2>3
<1>4. Disturbed
  BY <1>1, <1>3, RequestIsComplete, CurrentRequest
<1>5. Exited'
  BY <1>1, <1>2, <1>4 DEF Exited, Disturbed, OnlyRegularSent, Regular
<1>6. TypeOK' /\ Counted'
  BY <1>1, <1>2 DEF TypeOK, Counted, args
<1> QED BY <1>2, <1>5, <1>6 DEF IInv
LEMMA Executes ==
  ASSUME IInv, at = "parsed", queryParserState = "DONE", Execute
  PROVE  /\ executed' \in Seq(Seq(Seq(Byte))) /\ Len(executed') = Current
         /\ IsPrefix(executed', sent)
<1>1. /\ Current <= Len(sent) /\ argc = Len(Cmd) /\ Cmd \in Seq(Seq(Byte))
      /\ \A i \in 1 .. argc : argv[i-1].bytes = Cmd[i]
  BY RequestIsComplete, CurrentRequest
<1>2. executed' = Append(executed, Cmd)
  <2>1. [i \in 1 .. argc |-> argv[i-1].bytes] = [i \in 1 .. Len(Cmd) |-> Cmd[i]]
    BY <1>1
  <2>2. Cmd = [i \in 1 .. Len(Cmd) |-> Cmd[i]]
    BY <1>1
  <2> QED BY <2>1, <2>2 DEF Execute
<1>3. executed \in Seq(Seq(Seq(Byte))) /\ Current = Len(executed) + 1 /\ Len(executed) \in Nat
  BY DEF IInv, TypeOK, Current
<1>4. /\ executed' \in Seq(Seq(Seq(Byte))) /\ Len(executed') = Current
      /\ \A i \in 1 .. Len(executed) : executed'[i] = executed[i]
      /\ executed'[Current] = Cmd
  BY <1>1, <1>2, <1>3
<1>5. ASSUME NEW i \in 1 .. Len(executed')
      PROVE  executed'[i] = sent[i]
  <2>1. CASE i = Current
    BY <1>4, <2>1 DEF Cmd
  <2>2. CASE i # Current
    <3>1. i \in 1 .. Len(executed)
      BY <1>3, <1>4, <2>2
    <3> QED BY <1>4, <3>1, PrefixFacts
  <2> QED BY <2>1, <2>2
<1>6. IsPrefix(executed', sent)
  BY <1>1, <1>4, <1>5, PrefixFacts, PrefixPointwise
<1> QED BY <1>4, <1>6

LEMMA Resets ==
  ASSUME IInv, EmptyFrom(argc), ResetArgv
  PROVE  argv' \in [0 .. MaxArgs-1 -> Arg] /\ argi' = 0 /\ argc' = 0 /\ EmptyFrom(0)'
<1>1. argv \in [0 .. MaxArgs-1 -> Arg] /\ argc \in Nat /\ MaxArgs \in Nat
  BY Types DEF IInv, TypeOK
<1>2. NoArg \in Arg
  <2>1. <<>> \in Seq(Byte)
    OBVIOUS
  <2> QED BY <2>1 DEF NoArg, Arg
<1>3. argv' = [i \in 0 .. MaxArgs-1 |-> IF i < argc THEN NoArg ELSE argv[i]]
  BY <1>1 DEF ResetArgv
<1>4. \A i \in 0 .. MaxArgs-1 : argv'[i] = NoArg
  <2>1. ASSUME NEW i \in 0 .. MaxArgs-1, ~(i < argc)
        PROVE  argv[i] = NoArg
    <3>1. i \in argc .. MaxArgs-1
      BY <1>1, <2>1
    <3> QED BY <3>1 DEF EmptyFrom
  <2> QED BY <1>3, <2>1
<1>5. argv' \in [0 .. MaxArgs-1 -> Arg]
  BY <1>2, <1>3, <1>4
<1> QED BY <1>4, <1>5 DEF ResetArgv, EmptyFrom

\* When a request follows the one that is complete, everything before it is answered.
LEMMA SecondOfTwo ==
  ASSUME IInv, Current < Len(sent), Parsed
  PROVE  queryBuffPos = 0 /\ answered + 1 = Current
<1>1. /\ Len(sent) <= answered + 2 /\ answered <= Len(executed) /\ Current = Len(executed) + 1
      /\ answered \in Nat /\ queryBuffPos \in Nat /\ Len(sent) \in Nat /\ Current \in Nat
  BY Types DEF IInv, TypeOK, Counted
<1>2. queryBuffPos > 0 => Len(executed) = answered + 1
  BY DEF Parsed
<1> DEFINE e == Len(executed)
           s == Len(sent)
<1>3. e \in Nat /\ Current = e + 1 /\ e + 1 < s /\ s <= answered + 2 /\ answered <= e /\ s \in Nat
      /\ (queryBuffPos > 0 => e = answered + 1)
  BY <1>1, <1>2 DEF IInv, TypeOK
<1> HIDE DEF e, s
<1> QED BY <1>1, <1>3

\* Where the request behind the one that is complete is read from.
LEMMA NextStream ==
  ASSUME IInv, at = "parsed", queryParserState = "DONE", NEW pos \in Nat,
         Follows(queryBuff, net, StreamFrom(sent, Current + 1), pos, 0)
  PROVE  /\ pos <= Len(queryBuff)
         /\ pos < Len(queryBuff) =>
              /\ queryBuffPos = 0 /\ answered + 1 = Current
              /\ Follows(queryBuff, net, StreamFrom(sent, Current + 1), pos + 1, 1)
<1>1. /\ Parsed /\ sent \in Seq(Request) /\ queryBuff \in Seq(Byte) /\ net \in Seq(Byte)
      /\ Current \in Nat \ {0} /\ Current + 1 \in Nat \ {0} /\ Len(sent) <= Current + 1
      /\ Len(queryBuff) \in Nat /\ Len(net) \in Nat /\ Current <= Len(sent) /\ Len(sent) \in Nat
  <2>1. Parsed /\ sent \in Seq(Request) /\ queryBuff \in Seq(Byte) /\ net \in Seq(Byte)
    BY DEF IInv, TypeOK
  <2>2. /\ Current \in Nat \ {0} /\ Len(sent) <= Current + 1
        /\ Len(queryBuff) \in Nat /\ Len(net) \in Nat /\ Len(sent) \in Nat
    BY Types
  <2>3. Current <= Len(sent)
    BY RequestIsComplete
  <2> QED BY <2>1, <2>2, <2>3
<1>2. StreamFrom(sent, Current + 1) \in Seq(Byte)
  BY <1>1, StreamUnfolds
<1>3. pos <= Len(queryBuff)
  BY DEF Follows
<1>4. ASSUME pos < Len(queryBuff)
      PROVE  /\ queryBuffPos = 0 /\ answered + 1 = Current
             /\ Follows(queryBuff, net, StreamFrom(sent, Current + 1), pos + 1, 1)
  <2>1. /\ 0 < Len(StreamFrom(sent, Current + 1))
        /\ Follows(queryBuff, net, StreamFrom(sent, Current + 1), pos + 1, 0 + 1)
    BY <1>1, <1>2, <1>4, FollowsStep
  <2>2. Current < Len(sent)
    <3>1. CASE Current >= Len(sent)
      <4>1. StreamFrom(sent, Current + 1) = <<>>
        BY <1>1, <3>1, StreamLength
      <4> QED BY <2>1, <4>1
    <3> QED BY <1>1, <3>1
  <2>3. queryBuffPos = 0 /\ answered + 1 = Current
    BY <1>1, <2>2, SecondOfTwo
  <2>4. 0 + 1 = 1
    OBVIOUS
  <2> QED BY <2>1, <2>3, <2>4
<1> QED BY <1>3, <1>4

LEMMA NextCommandKeeps ==
  ASSUME IInv, NextCommand
  PROVE  IInv'
<1>1. /\ at = "parsed" /\ queryParserState = "DONE" /\ Execute /\ ResetArgv
      /\ queryBuffPos + (idx + 1) < Len(queryBuff)
      /\ queryBuffPos' = queryBuffPos + (idx + 1) /\ idx' = queryBuffPos + (idx + 1)
      /\ queryParserState' = "ARRAY" /\ at' = "parse"
      /\ UNCHANGED <<sent, net, answered, queryBuff>>
  BY DEF NextCommand, MoreBytes, PositionAfter, client
<1>2. TypeOK /\ Counted /\ idx \in Nat /\ idx + 1 \in Nat /\ queryBuffPos \in Nat
      /\ Len(queryBuff) \in Nat
  BY Types DEF IInv, TypeOK
<1>3. /\ EmptyFrom(argc) /\ Current <= Len(sent)
      /\ \/ Follows(queryBuff, net, StreamFrom(sent, Current + 1), idx + 1, 0)
         \/ Follows(queryBuff, net, StreamFrom(sent, Current + 1), idx, 0) /\ ~Regular(Cmd)
  BY <1>1, RequestIsComplete
<1>4. /\ executed' \in Seq(Seq(Seq(Byte))) /\ Len(executed') = Current /\ IsPrefix(executed', sent)
      /\ argv' \in [0 .. MaxArgs-1 -> Arg] /\ argi' = 0 /\ argc' = 0 /\ EmptyFrom(0)'
  BY <1>1, <1>3, Executes, Resets
<1>5. idx < Len(queryBuff) /\ idx + 1 < Len(queryBuff)
  BY <1>1, <1>2
<1>6. queryBuffPos = 0 /\ answered + 1 = Current
  BY <1>1, <1>2, <1>3, <1>5, NextStream
<1>7. idx' = idx + 1 /\ queryBuffPos' = idx + 1 /\ Current' = Current + 1
  BY <1>1, <1>2, <1>4, <1>6 DEF Current
<1>8. TypeOK'
  BY <1>1, <1>2, <1>4, <1>7 DEF TypeOK
<1>9. Counted'
  <2>1. answered' <= Len(executed')
    BY <1>1, <1>2, <1>4, <1>6 DEF TypeOK
  <2> QED BY <1>1, <1>2, <1>4, <2>1 DEF Counted
<1>10. \E p \in Nat : Synced(idx, p)' /\ AtArray(p)'
  <2>1. CASE Follows(queryBuff, net, StreamFrom(sent, Current + 1), idx + 1, 0)
    <3>1. Synced(idx, 0)'
      BY <1>1, <1>7, <2>1 DEF Synced
    <3>2. AtArray(0)'
      BY <1>1, <1>4 DEF AtArray
    <3> QED BY <3>1, <3>2
  <2>2. CASE Follows(queryBuff, net, StreamFrom(sent, Current + 1), idx, 0) /\ ~Regular(Cmd)
    <3>1. Follows(queryBuff, net, StreamFrom(sent, Current + 1), idx + 1, 1)
      BY <1>1, <1>2, <1>5, <2>2, NextStream
    <3>2. Synced(idx, 1)'
      BY <1>1, <1>7, <3>1 DEF Synced
    <3>3. Disturbed'
      <4>1. Disturbed
        BY <1>3, <2>2, CurrentRequest
      <4> QED BY <1>1, <4>1 DEF Disturbed, OnlyRegularSent, Regular
    <3>4. AtArray(1)'
      BY <1>1, <1>4, <3>3 DEF AtArray
    <3> QED BY <3>2, <3>4
  <2> QED BY <1>3, <2>1, <2>2
<1>11. idx' <= Len(queryBuff)' /\ idx' < Len(queryBuff)' /\ Len(executed)' = answered' + 1
  BY <1>1, <1>2, <1>4, <1>5, <1>6, <1>7
<1>12. Parses'
  BY <1>10, <1>11 DEF Parses
<1> QED BY <1>1, <1>8, <1>9, <1>12 DEF IInv

LEMMA LastCommandKeeps ==
  ASSUME IInv, LastCommand
  PROVE  IInv'
<1>1. /\ at = "parsed" /\ queryParserState = "DONE" /\ Execute
      /\ ~(queryBuffPos + (idx + 1) < Len(queryBuff))
      /\ queryBuffPos' = queryBuffPos + (idx + 1) /\ at' = "write"
      /\ UNCHANGED <<sent, net, answered, queryBuff, idx, queryParserState, argv, argi, argc>>
  BY DEF LastCommand, MoreBytes, PositionAfter, client, args
<1>2. TypeOK /\ Counted /\ idx \in Nat /\ idx + 1 \in Nat /\ queryBuffPos \in Nat
      /\ Len(queryBuff) \in Nat /\ answered \in Nat
  BY Types DEF IInv, TypeOK
<1>3. /\ EmptyFrom(argc) /\ argc \in 0 .. MaxArgs /\ Current <= Len(sent)
      /\ \/ Follows(queryBuff, net, StreamFrom(sent, Current + 1), idx + 1, 0)
         \/ Follows(queryBuff, net, StreamFrom(sent, Current + 1), idx, 0) /\ ~Regular(Cmd)
  BY <1>1, RequestIsComplete
<1>4. executed' \in Seq(Seq(Seq(Byte))) /\ Len(executed') = Current /\ IsPrefix(executed', sent)
  BY <1>1, Executes
<1>5. Current' = Current + 1 /\ answered < Current
  <2>1. Current = Len(executed) + 1 /\ answered <= Len(executed) /\ Len(executed) \in Nat
    BY Types, <1>2 DEF Counted, TypeOK
  <2> QED BY <1>2, <1>4, <2>1 DEF Current
<1>6. TypeOK'
  BY <1>1, <1>2, <1>4 DEF TypeOK
<1>7. Counted'
  <2>1. answered' <= Len(executed')
    BY <1>1, <1>2, <1>4, <1>5, Types
  <2> QED BY <1>1, <1>2, <1>4, <2>1 DEF Counted
<1>8. Disturbed' = Disturbed
  BY <1>1 DEF Disturbed, OnlyRegularSent, Regular
<1>9. \E p \in Nat : /\ Follows(queryBuff, net, StreamFrom(sent, Current + 1), Len(queryBuff), p)
                     /\ p = 0 \/ (p = 1 /\ Disturbed)
  <2>1. CASE Follows(queryBuff, net, StreamFrom(sent, Current + 1), idx + 1, 0)
    <3>1. /\ idx + 1 <= Len(queryBuff)
          /\ idx + 1 < Len(queryBuff) => queryBuffPos = 0
      BY <1>1, <1>2, <2>1, NextStream
    <3>2. idx + 1 = Len(queryBuff)
      BY <1>1, <1>2, <3>1
    <3> QED BY <2>1, <3>2
  <2>2. CASE Follows(queryBuff, net, StreamFrom(sent, Current + 1), idx, 0) /\ ~Regular(Cmd)
    <3>1. /\ idx <= Len(queryBuff)
          /\ idx < Len(queryBuff) =>
               queryBuffPos = 0 /\ Follows(queryBuff, net, StreamFrom(sent, Current + 1), idx + 1, 1)
      BY <1>1, <1>2, <2>2, NextStream
    <3>2. CASE idx = Len(queryBuff)
      BY <2>2, <3>2
    <3>3. CASE idx # Len(queryBuff)
      <4>1. idx < Len(queryBuff)
        BY <1>2, <3>1, <3>3
      <4>2. idx + 1 = Len(queryBuff)
        BY <1>1, <1>2, <3>1, <4>1
      <4>3. Disturbed
        BY <1>3, <2>2, CurrentRequest
      <4>4. Follows(queryBuff, net, StreamFrom(sent, Current + 1), Len(queryBuff), 1)
        BY <3>1, <4>1, <4>2
      <4> QED BY <4>3, <4>4
    <3> QED BY <3>2, <3>3
  <2> QED BY <1>3, <2>1, <2>2
<1>10. \E p \in Nat : Synced(Len(queryBuff), p)' /\ (p = 0 \/ (p = 1 /\ Disturbed'))
  BY <1>1, <1>5, <1>8, <1>9 DEF Synced
<1>11. Writes'
  BY <1>1, <1>3, <1>4, <1>5, <1>10 DEF Writes, EmptyFrom
<1> QED BY <1>1, <1>6, <1>7, <1>11 DEF IInv

LEMMA WrittenKeeps ==
  ASSUME IInv, Written
  PROVE  IInv'
<1>1. /\ at = "write" /\ answered' = Len(executed) /\ queryBuff' = <<>> /\ queryBuffPos' = 0
      /\ queryParserState' = "ARRAY" /\ ResetArgv /\ at' = "wait"
      /\ UNCHANGED <<sent, net, idx, executed>>
  BY DEF Written
<1>2. TypeOK /\ Counted /\ Writes /\ queryBuff \in Seq(Byte) /\ net \in Seq(Byte)
      /\ answered \in Nat /\ Len(executed) \in Nat /\ Len(sent) \in Nat
  BY <1>1, Types DEF IInv, TypeOK
<1>3. argv' \in [0 .. MaxArgs-1 -> Arg] /\ argi' = 0 /\ argc' = 0 /\ EmptyFrom(0)'
  BY <1>1, <1>2, Resets DEF Writes
<1>4. PICK p \in Nat : Synced(Len(queryBuff), p) /\ (p = 0 \/ (p = 1 /\ Disturbed))
  BY <1>2 DEF Writes
<1>5. Follows(<<>>, net, StreamFrom(sent, Current), 0, p)
  BY <1>2, <1>4, FollowsDrop, Types DEF Synced
<1>6. Synced(0, p)'
  BY <1>1, <1>5 DEF Synced, Current
<1>7. Disturbed' = Disturbed
  BY <1>1 DEF Disturbed, OnlyRegularSent, Regular
<1>8. Waits'
  BY <1>1, <1>3, <1>4, <1>6, <1>7 DEF Waits, AtArray
<1>9. TypeOK'
  <2>1. <<>> \in Seq(Byte)
    OBVIOUS
  <2> QED BY <1>1, <1>2, <1>3, <2>1 DEF TypeOK
<1>10. Counted'
  <2>1. Len(sent) <= Len(executed) + 2 /\ Len(executed) <= Len(executed)
    BY <1>2 DEF Counted
  <2> QED BY <1>1, <1>2, <2>1 DEF Counted
<1> QED BY <1>1, <1>8, <1>9, <1>10 DEF IInv
-----------------------------------------------------------------------------
(* The invariant of the specification                                      *)

LEMMA InitHolds == Init => IInv
<1> SUFFICES ASSUME Init
             PROVE  IInv
  OBVIOUS
<1>1. /\ sent = <<>> /\ net = <<>> /\ answered = 0 /\ at = "wait"
      /\ queryBuff = <<>> /\ queryBuffPos = 0 /\ idx = 0 /\ queryParserState = "ARRAY"
      /\ argv = [i \in 0 .. MaxArgs-1 |-> NoArg] /\ argi = 0 /\ argc = 0 /\ executed = <<>>
  BY DEF Init
<1>2. /\ <<>> \in Seq(Request) /\ <<>> \in Seq(Byte) /\ <<>> \in Seq(Seq(Seq(Byte)))
      /\ Len(<<>>) = 0 /\ 0 \in Nat
  OBVIOUS
<1>3. argv \in [0 .. MaxArgs-1 -> Arg]
  BY <1>1, <1>2 DEF NoArg, Arg
<1>4. TypeOK
  BY <1>1, <1>2, <1>3 DEF TypeOK
<1>5. Counted
  <2>1. IsPrefix(executed, sent)
    BY <1>1 DEF IsPrefix
  <2> QED BY <1>1, <1>2, <2>1 DEF Counted
<1>6. StreamFrom(sent, Current) = <<>>
  <2>1. BytesOf(sent, 1) = <<>> /\ BytesOf(sent, 2) = <<>> /\ <<>> \o <<>> = <<>>
    BY <1>1, <1>2 DEF BytesOf
  <2>2. Current = 1 /\ 1 + 1 = 2
    BY <1>1, <1>2 DEF Current
  <2> QED BY <2>1, <2>2 DEF StreamFrom
<1>7. Synced(0, 0)
  BY <1>1, <1>6 DEF Synced, Follows
<1>8. AtArray(0) /\ answered = Len(executed)
  BY <1>1, <1>2 DEF AtArray, EmptyFrom
<1>9. Waits
  BY <1>1, <1>7, <1>8 DEF Waits
<1> QED BY <1>1, <1>4, <1>5, <1>9 DEF IInv

LEMMA StutterKeeps == IInv /\ UNCHANGED vars => IInv'
<1> SUFFICES ASSUME IInv, UNCHANGED vars
             PROVE  IInv'
  OBVIOUS
<1>1. UNCHANGED <<sent, net, answered, at, queryBuff, queryBuffPos, idx, queryParserState,
                  argv, argi, argc, executed>>
  BY DEF vars, client, buffer, args
<1>2. /\ TypeOK' = TypeOK /\ Counted' = Counted /\ Disturbed' = Disturbed
      /\ Cmd' = Cmd /\ Regular(Cmd)' = Regular(Cmd) /\ Current' = Current
  BY <1>1 DEF TypeOK, Counted, Disturbed, OnlyRegularSent, Regular, Cmd, Current
<1>3. ASSUME NEW p \in Nat
      PROVE  Inside(p)' = Inside(p) /\ AtArray(p)' = AtArray(p) /\ AtDone(p)' = AtDone(p)
  BY <1>1, <1>2 DEF Inside, AtArray, AtArraySize, AtElement, AtElementSize, AtElementBytes,
                    AtDone, InArguments, Loaded, EmptyFrom
<1>4. ASSUME NEW p \in Nat
      PROVE  /\ Synced(0, p)' = Synced(0, p) /\ Synced(idx, p)' = Synced(idx, p)
             /\ Synced(idx + 1, p)' = Synced(idx + 1, p)
             /\ Synced(Len(queryBuff), p)' = Synced(Len(queryBuff), p)
  BY <1>1, <1>2 DEF Synced
<1>5. Broken' = Broken
  BY <1>1, <1>2 DEF Broken
<1>6. Waits => Waits'
  BY <1>1, <1>3, <1>4, <1>5 DEF Waits
<1>7. Parses => Parses'
  BY <1>1, <1>2, <1>3, <1>4, <1>5 DEF Parses
<1>8. Parsed => Parsed'
  BY <1>1, <1>2, <1>3, <1>4, <1>5 DEF Parsed
<1>9. Writes => Writes'
  BY <1>1, <1>2, <1>4 DEF Writes, EmptyFrom
<1>10. Exited => Exited'
  BY <1>1, <1>2 DEF Exited
<1> QED BY <1>1, <1>2, <1>6, <1>7, <1>8, <1>9, <1>10 DEF IInv

LEMMA NextKeeps ==
  ASSUME ~crowded', IInv, [Next]_vars
  PROVE  IInv'
<1>1. CASE \E cmd \in Commands[Len(sent) + 1] : Len(sent) < MaxCommands /\ Send(cmd)
  BY <1>1, SendKeeps
<1>2. CASE \E n \in 1 .. BufferSize : n <= Len(net) /\ Read(n)
  BY <1>2, ReadKeeps
<1>3. CASE ProcessQueryBuffer
  BY <1>3, ArrayKeeps, ArraySizeKeeps, ElementKeeps, ElementSizeKeeps, ElementBytesKeeps,
     OtherStepsKeep DEF ProcessQueryBuffer, Quiet
<1>4. CASE Incomplete \/ UnknownCommand \/ NextCommand \/ LastCommand \/ Written
  BY <1>4, IncompleteKeeps, UnknownCommandKeeps, NextCommandKeeps, LastCommandKeeps, WrittenKeeps
<1>5. CASE UNCHANGED vars
  BY <1>5, StutterKeeps
<1> QED BY <1>1, <1>2, <1>3, <1>4, <1>5 DEF Next, Server

\* A client that has had more than two requests under way has had them.
LEMMA CrowdedStays ==
  ASSUME [Next]_vars, ~crowded'
  PROVE  ~crowded
<1>1. CASE \E cmd \in Commands[Len(sent) + 1] : Send(cmd)
  BY <1>1 DEF Send
<1>2. CASE \E n \in 1 .. BufferSize : Read(n)
  BY <1>2 DEF Read
<1>3. CASE ProcessQueryBuffer
  BY <1>3 DEF ProcessQueryBuffer, client
<1>4. CASE Incomplete \/ UnknownCommand \/ NextCommand \/ LastCommand
  BY <1>4 DEF Incomplete, UnknownCommand, NextCommand, LastCommand, client
<1>5. CASE Written \/ UNCHANGED vars
  BY <1>5 DEF Written, vars, client
<1> QED BY <1>1, <1>2, <1>3, <1>4, <1>5 DEF Next, Server

\* The inductive invariant: at every byte the parser is where the request says it is.
THEOREM Invariance == Spec => [](~crowded => IInv)
<1>1. Init => (~crowded => IInv)
  BY InitHolds
<1>2. (~crowded => IInv) /\ [Next]_vars => (~crowded => IInv)'
  BY NextKeeps, CrowdedStays
<1> QED BY <1>1, <1>2, PTL DEF Spec

\* Until a client has had more than two requests under way, the parser never writes
\* behind the argument it allocated or the array of arguments and never reads behind
\* the bytes of the buffer.
THEOREM WritesInBounds == Spec => []InBounds
<1>1. ASSUME ~crowded => IInv
      PROVE  InBounds
  <2> SUFFICES ASSUME IInv
               PROVE  InBounds
    BY <1>1 DEF InBounds
  <2>1. ASSUME NEW p \in Nat, Inside(p)
        PROVE  /\ queryParserState \in {"ELEMENT_SIZE", "ELEMENT_BYTES"} =>
                    argi < argc /\ argi < MaxArgs
               /\ queryParserState = "ELEMENT_BYTES" => Len(argv[argi].bytes) < argv[argi].size
    <3>1. CASE AtElementSize(p) \/ AtElementBytes(p)
      <4>1. Current <= Len(sent) /\ InArguments
        BY <2>1, <3>1 DEF Inside, AtElementSize, AtElementBytes
      <4>2. argi < argc /\ argi < MaxArgs
        <5>1. argi \in 0 .. MaxArgs-1 /\ argi < argc
          BY <4>1, InArgument
        <5> QED BY <5>1, Types
      <4> QED BY <3>1, <4>2 DEF AtElementSize, AtElementBytes
    <3>2. CASE AtArraySize(p) \/ AtElement(p)
      BY <3>2 DEF AtArraySize, AtElement
    <3> QED BY <2>1, <3>1, <3>2 DEF Inside
  <2>2. \/ queryParserState \in {"ARRAY", "DONE", "ERROR"}
        \/ \E p \in Nat : Inside(p)
    BY DEF IInv, Waits, Parses, Parsed, Writes, Exited, Broken, AtArray, AtDone
  <2>3. at = "parse" => idx <= Len(queryBuff)
    BY DEF IInv, Parses
  <2>4. CASE queryParserState \in {"ARRAY", "DONE", "ERROR"}
    BY <2>3, <2>4 DEF InBounds
  <2>5. CASE \E p \in Nat : Inside(p)
    BY <2>1, <2>3, <2>5 DEF InBounds
  <2> QED BY <2>2, <2>4, <2>5
<1>2. Spec => [](~crowded => IInv)
  BY Invariance
<1> QED BY <1>1, <1>2, PTL

\* Until then the commands executed are those that were sent, in their order and with
\* their own arguments, however the network cuts them.
THEOREM CommandsAreTheRequests == Spec => []ExecutedAsSent
<1>1. (~crowded => IInv) => ExecutedAsSent
  BY DEF IInv, Counted, ExecutedAsSent
<1>2. Spec => [](~crowded => IInv)
  BY Invariance
<1> QED BY <1>1, <1>2, PTL

\* Until then a regular request of which all bytes have been read has been executed.
THEOREM NoRequestIsLost == Spec => []NothingLost
<1>1. ASSUME IInv, OnlyRegularSent, at = "wait", net = <<>>, queryParserState = "ARRAY"
      PROVE  executed = sent
  <2>1. Waits /\ queryBuff = <<>> /\ sent \in Seq(Request)
    BY <1>1 DEF IInv, Waits, TypeOK
  <2>2. Synced(0, 0)
    BY <1>1, <2>1 DEF Waits, Broken, Disturbed, Inside, AtArray, AtArraySize, AtElement,
                      AtElementSize, AtElementBytes
  <2>3. Len(StreamFrom(sent, Current)) = 0
    BY <1>1, <2>1, <2>2 DEF Synced, Follows
  <2>4. Current > Len(sent)
    <3>1. CASE Current <= Len(sent)
      <4>1. /\ Len(StreamFrom(sent, Current)) >= Len(Encoded(sent[Current]))
            /\ Len(Encoded(sent[Current])) >= 4
        BY <1>1, <2>1, <3>1, Types, StreamLength
      <4>2. Len(Encoded(sent[Current])) \in Nat
        BY <1>1, <3>1, CurrentRequest, HeaderLayout DEF Cmd
      <4> QED BY <2>3, <4>1, <4>2
    <3> QED BY <1>1, <3>1, Types
  <2>5. /\ sent \in Seq(Seq(Seq(Byte))) /\ executed \in Seq(Seq(Seq(Byte)))
        /\ Len(executed) <= Len(sent) /\ \A i \in 1 .. Len(executed) : executed[i] = sent[i]
    BY <1>1, PrefixFacts DEF IInv, TypeOK
  <2>6. Len(executed) = Len(sent)
    BY <2>4, <2>5 DEF Current
  <2>7. /\ executed = [i \in 1 .. Len(executed) |-> executed[i]]
        /\ sent = [i \in 1 .. Len(sent) |-> sent[i]]
    BY <2>5
  <2>8. [i \in 1 .. Len(executed) |-> executed[i]] = [i \in 1 .. Len(sent) |-> sent[i]]
    BY <2>5, <2>6
  <2> QED BY <2>7, <2>8
<1>2. (~crowded => IInv) => NothingLost
  BY <1>1 DEF NothingLost, NoByteSkipped
<1>3. Spec => [](~crowded => IInv)
  BY Invariance
<1> QED BY <1>2, <1>3, PTL

\* Until then only a request that is not regular ends the process.
THEOREM StaysUp == Spec => []ServerStaysUp
<1>1. (~crowded => IInv) => ServerStaysUp
  BY DEF IInv, Exited, Disturbed, ServerStaysUp
<1>2. Spec => [](~crowded => IInv)
  BY Invariance
<1> QED BY <1>1, <1>2, PTL

-----------------------------------------------------------------------------
(* Answers are not held back, however many requests are under way          *)

\* Once a byte of a read has been parsed, the parser is not in its first state.
BetweenRequests ==
  /\ net \in Seq(Byte) /\ sent \in Seq(Request)
  /\ at = "wait" => queryBuffPos = 0
  /\ at = "parse" /\ queryParserState = "ARRAY" => idx # Len(queryBuff)
  /\ at = "parsed" => queryParserState # "ARRAY"
  /\ AnsweredBetweenCommands

LEMMA ParserLeavesStart ==
  ASSUME BetweenRequests, ProcessQueryBuffer
  PROVE  BetweenRequests'
<1>1. UNCHANGED <<sent, net, answered, queryBuff, queryBuffPos, executed>> /\ at = "parse"
  BY DEF ProcessQueryBuffer, client, buffer, Array, ArraySize, Element, ElementSize,
         ElementBytes, Done, UnknownState, EndOfBuffer, Parsing
<1>2. CASE EndOfBuffer
  BY <1>1, <1>2 DEF EndOfBuffer, BetweenRequests, AnsweredBetweenCommands
<1>3. CASE Array \/ Element
  BY <1>1, <1>3 DEF Array, Element, Expect, Consume, Stop, BetweenRequests,
                    AnsweredBetweenCommands
<1>4. CASE ArraySize \/ ElementSize
  BY <1>1, <1>4 DEF ArraySize, ElementSize, Parsing, Consume, BetweenRequests,
                    AnsweredBetweenCommands
<1>5. CASE ElementBytes \/ Done \/ UnknownState
  BY <1>1, <1>5 DEF ElementBytes, Done, UnknownState, Parsing, Consume, Stop,
                    BetweenRequests, AnsweredBetweenCommands
<1> QED BY <1>2, <1>3, <1>4, <1>5 DEF ProcessQueryBuffer

LEMMA HandlerBetweenRequests ==
  ASSUME BetweenRequests,
         Incomplete \/ UnknownCommand \/ NextCommand \/ LastCommand \/ Written
  PROVE  BetweenRequests'
<1>1. CASE Incomplete \/ UnknownCommand
  BY <1>1 DEF Incomplete, UnknownCommand, BetweenRequests, AnsweredBetweenCommands, client,
              buffer
<1>2. CASE NextCommand
  <2>1. PositionAfter # Len(queryBuff) \/ ~(PositionAfter < Len(queryBuff))
    OBVIOUS
  <2> QED BY <1>2, <2>1 DEF NextCommand, MoreBytes, BetweenRequests, AnsweredBetweenCommands, client
<1>3. CASE LastCommand \/ Written
  BY <1>3 DEF LastCommand, Written, BetweenRequests, AnsweredBetweenCommands, client
<1> QED BY <1>1, <1>2, <1>3

LEMMA ReadBetweenRequests ==
  ASSUME BetweenRequests, NEW n \in 1 .. BufferSize, n <= Len(net), Read(n)
  PROVE  BetweenRequests'
<1>1. /\ at = "wait" /\ at' = "parse" /\ idx' = queryBuffPos /\ queryBuffPos = 0
      /\ queryBuff' = SubSeq(net, 1, n) /\ net' = SubSeq(net, n + 1, Len(net))
      /\ UNCHANGED <<sent, answered, queryBuffPos, queryParserState, executed>>
  BY DEF Read, BetweenRequests
<1>2. net \in Seq(Byte) /\ n \in Nat /\ 1 <= n /\ n <= Len(net) /\ Len(net) \in Nat
  BY BoundsAssumption DEF BetweenRequests
<1>3. Len(queryBuff') = n
  BY <1>1, <1>2, LenProperties
<1>4. net' \in Seq(Byte)
  BY <1>1, <1>2
<1> QED BY <1>1, <1>2, <1>3, <1>4 DEF BetweenRequests, AnsweredBetweenCommands

LEMMA SendBetweenRequests ==
  ASSUME BetweenRequests, Len(sent) < MaxCommands,
         NEW cmd \in Commands[Len(sent) + 1], Send(cmd)
  PROVE  BetweenRequests'
<1>1. cmd \in Request
  <2>1. Len(sent) + 1 \in 1 .. Len(Commands)
    BY CommandsAssumption DEF MaxCommands, BetweenRequests
  <2> QED BY <2>1, CommandsAssumption
<1>2. Encoded(cmd) \in Seq(Byte)
  BY <1>1, EncodedHasLayout
<1>3. /\ sent' \in Seq(Request) /\ net' \in Seq(Byte)
  BY <1>1, <1>2 DEF Send, BetweenRequests
<1> QED BY <1>3 DEF Send, BetweenRequests, AnsweredBetweenCommands, buffer

\* While no request is half read, every command executed has been answered, of any
\* client and however many of its requests one read holds.
THEOREM AnswersAreNotHeldBack == Spec => []AnsweredBetweenCommands
<1>1. Init => BetweenRequests
  BY DEF Init, BetweenRequests, AnsweredBetweenCommands
<1>2. BetweenRequests /\ [Next]_vars => BetweenRequests'
  <2> SUFFICES ASSUME BetweenRequests, [Next]_vars
               PROVE  BetweenRequests'
    OBVIOUS
  <2>1. CASE UNCHANGED vars
    BY <2>1 DEF vars, client, buffer, BetweenRequests, AnsweredBetweenCommands
  <2> QED BY <2>1, SendBetweenRequests, ReadBetweenRequests, ParserLeavesStart,
             HandlerBetweenRequests DEF Next, Server
<1>3. BetweenRequests => AnsweredBetweenCommands
  BY DEF BetweenRequests
<1> QED BY <1>1, <1>2, <1>3, PTL DEF Spec
=============================================================================
