-------------------------- MODULE KeyspaceProofs ---------------------------
(***************************************************************************)
(* The keyspace for every set of keys and values, every timeout, clock     *)
(* range and scan: its invariants, and that it implements TTLMap.          *)
(***************************************************************************)
EXTENDS Keyspace, TLAPS

\* A deadline computed by SET EX is a number, wrapped or not.
LEMMA DeadlineIsNat ==
  ASSUME TypeOK, NEW t \in Timeouts
  PROVE  (now + t * Second) % Word \in Nat
<1>1. now \in Nat /\ t \in Nat /\ Second \in Nat /\ Word \in Nat \ {0}
  BY TimeoutsAssumption, NumbersAssumption DEF TypeOK
<1>2. t * Second \in Nat
  BY <1>1
<1> QED BY <1>1, <1>2

\* Whatever the slots, collecting removes expired keys from both stores and leaves
\* the others alone.
LEMMA CollectEffect ==
  ASSUME TypeOK, DeadlineHasKey, NEW S, Collect(S), UNCHANGED now
  PROVE  /\ kv' \in [Keys -> Values \cup {Absent}]
         /\ exp' \in [Keys -> Nat \cup {None}]
         /\ DeadlineHasKey'
         /\ \A k \in Keys : Visible(k)' = Visible(k) /\ Due(k)' = Due(k)
<1> DEFINE gone == {k \in Keys : Slot[k] \in S /\ IsExpired(k)}
<1>1. /\ kv' = [k \in Keys |-> IF k \in gone THEN Absent ELSE kv[k]]
      /\ exp' = [k \in Keys |-> IF k \in gone THEN None ELSE exp[k]]
  BY DEF Collect
<1>2. /\ kv' \in [Keys -> Values \cup {Absent}]
      /\ exp' \in [Keys -> Nat \cup {None}]
      /\ DeadlineHasKey'
  BY <1>1 DEF TypeOK, DeadlineHasKey
<1>3. ASSUME NEW k \in Keys
      PROVE  Visible(k)' = Visible(k) /\ Due(k)' = Due(k)
  <2>1. CASE k \in gone
    BY <1>1, <2>1 DEF Visible, Due, IsExpired
  <2>2. CASE k \notin gone
    BY <1>1, <2>2 DEF Visible, Due, IsExpired
  <2> QED BY <2>1, <2>2
<1> QED BY <1>2, <1>3

\* The run of the cron stays inside the slots.
LEMMA CronCursor ==
  ASSUME TypeOK, Cron
  PROVE  cursor' \in 0 .. Slots-1
<1>1. Slots \in Nat \ {0} /\ cursor \in 0 .. Slots-1
  BY NumbersAssumption DEF TypeOK
<1>2. PICK n \in RunLengths : cursor' = (cursor + n) % Slots
  BY DEF Cron, SlotAfter
<1>3. n \in Nat
  BY <1>1, <1>2 DEF RunLengths
<1> QED BY <1>1, <1>2, <1>3

LEMMA Inductive ==
  ASSUME TypeOK, DeadlineHasKey, [Next]_vars
  PROVE  TypeOK' /\ DeadlineHasKey'
<1>1. ASSUME NEW k \in Keys, NEW v \in Values, Set(k, v)
      PROVE  TypeOK' /\ DeadlineHasKey'
  BY <1>1, AbsentAssumption DEF Set, TypeOK, DeadlineHasKey
<1>2. ASSUME NEW k \in Keys, NEW v \in Values, NEW t \in Timeouts, SetEx(k, v, t)
      PROVE  TypeOK' /\ DeadlineHasKey'
  <2>1. exp' \in [Keys -> Nat \cup {None}]
    BY <1>2, DeadlineIsNat DEF SetEx, TypeOK
  <2> QED BY <1>2, <2>1, AbsentAssumption DEF SetEx, TypeOK, DeadlineHasKey
<1>3. ASSUME NEW k \in Keys, Get(k)
      PROVE  TypeOK' /\ DeadlineHasKey'
  BY <1>3 DEF Get, TypeOK, DeadlineHasKey
<1>4. ASSUME NEW k \in Keys, Exists(k)
      PROVE  TypeOK' /\ DeadlineHasKey'
  BY <1>4 DEF Exists, TypeOK, DeadlineHasKey
<1>5. ASSUME NEW k \in Keys, Del(k)
      PROVE  TypeOK' /\ DeadlineHasKey'
  BY <1>5 DEF Del, TypeOK, DeadlineHasKey
<1>6. ASSUME Cron
      PROVE  TypeOK' /\ DeadlineHasKey'
  <2>1. PICK n \in RunLengths : Collect(cursor .. cursor + n - 1)
    BY <1>6 DEF Cron
  <2>2. UNCHANGED now
    BY <1>6 DEF Cron
  <2> QED BY <1>6, <2>1, <2>2, CollectEffect, CronCursor DEF TypeOK
<1>7. ASSUME Tick \/ UNCHANGED vars
      PROVE  TypeOK' /\ DeadlineHasKey'
  BY <1>7 DEF Tick, vars, TypeOK, DeadlineHasKey
<1> QED BY <1>1, <1>2, <1>3, <1>4, <1>5, <1>6, <1>7 DEF Next, Command

LEMMA InitTyped ==
  ASSUME Init
  PROVE  TypeOK /\ DeadlineHasKey
BY NumbersAssumption DEF Init, TypeOK, DeadlineHasKey

\* The stores and the clock keep their types, and a key that is gone leaves no
\* deadline behind, whichever of GET, DEL and the cron removed it.
THEOREM Invariance == Spec => [](TypeOK /\ DeadlineHasKey)
<1>1. Init => TypeOK /\ DeadlineHasKey
  BY InitTyped
<1>2. TypeOK /\ DeadlineHasKey /\ [Next]_vars => (TypeOK /\ DeadlineHasKey)'
  BY Inductive
<1> QED BY <1>1, <1>2, PTL DEF Spec

\* The cursor of the cron stays inside the slots and every deadline, wrapped or not, is
\* a number.
THEOREM TypeCorrect == Spec => []TypeOK
BY Invariance, PTL

-----------------------------------------------------------------------------
(* The keyspace implements the map with deadlines                          *)

\* What clients see of one key after a step is a function of what they saw of it.
LEMMA ViewUpdate ==
  ASSUME NEW k \in Keys, NEW r, NEW d, Visible(k)' = r, Due(k)' = d,
         \A j \in Keys \ {k} : Visible(j)' = Visible(j) /\ Due(j)' = Due(j)
  PROVE  /\ [j \in Keys |-> Visible(j)]' = [[j \in Keys |-> Visible(j)] EXCEPT ![k] = r]
         /\ [j \in Keys |-> Due(j)]' = [[j \in Keys |-> Due(j)] EXCEPT ![k] = d]
<1>1. \A j \in Keys : /\ Visible(j)' = IF j = k THEN r ELSE Visible(j)
                      /\ Due(j)' = IF j = k THEN d ELSE Due(j)
  OBVIOUS
<1>2. [j \in Keys |-> Visible(j)]' = [j \in Keys |-> IF j = k THEN r ELSE Visible(j)]
  BY <1>1
<1>3. [j \in Keys |-> Due(j)]' = [j \in Keys |-> IF j = k THEN d ELSE Due(j)]
  BY <1>1
<1> QED BY <1>2, <1>3

LEMMA ViewUnchanged ==
  ASSUME \A j \in Keys : Visible(j)' = Visible(j) /\ Due(j)' = Due(j)
  PROVE  /\ [j \in Keys |-> Visible(j)]' = [j \in Keys |-> Visible(j)]
         /\ [j \in Keys |-> Due(j)]' = [j \in Keys |-> Due(j)]
OBVIOUS

\* A key starts or ceases to linger by itself.
LEMMA LingeringUpdate ==
  ASSUME NEW k \in Keys, \A j \in Keys \ {k} : IsExpired(j)' <=> IsExpired(j)
  PROVE  /\ IsExpired(k)' => {j \in Keys : IsExpired(j)}' = {j \in Keys : IsExpired(j)} \cup {k}
         /\ ~IsExpired(k)' => {j \in Keys : IsExpired(j)}' = {j \in Keys : IsExpired(j)} \ {k}
OBVIOUS

LEMMA LingeringUnchanged ==
  ASSUME \A j \in Keys : IsExpired(j)' <=> IsExpired(j)
  PROVE  {j \in Keys : IsExpired(j)}' = {j \in Keys : IsExpired(j)}
OBVIOUS

\* A key is in server.kvstore when clients can see it or it lingers.
LEMMA StoredSeen ==
  ASSUME TypeOK, DeadlineHasKey, NEW k \in Keys
  PROVE  kv[k] # Absent <=> Visible(k) # Absent \/ k \in {j \in Keys : IsExpired(j)}
BY DEF Visible, IsExpired, DeadlineHasKey

LEMMA SetRefines ==
  ASSUME TypeOK, NEW k \in Keys, NEW v \in Values, Set(k, v)
  PROVE  Clients!Set(k, v)
<1>1. /\ kv' = [kv EXCEPT ![k] = v] /\ UNCHANGED <<exp, now>>
      /\ reply' = [op |-> "SET", key |-> k, result |-> "OK"]
  BY DEF Set, Answer
<1>2. \A j \in Keys : (IsExpired(j)' <=> IsExpired(j)) /\ Due(j)' = Due(j)
  BY <1>1 DEF IsExpired, Due
<1>3. \A j \in Keys \ {k} : Visible(j)' = Visible(j)
  BY <1>1, <1>2 DEF Visible, TypeOK
<1>4. /\ [j \in Keys |-> Due(j)]' = [j \in Keys |-> Due(j)]
      /\ {j \in Keys : IsExpired(j)}' = {j \in Keys : IsExpired(j)}
  BY <1>2
<1>5. [j \in Keys |-> Visible(j)]' =
        IF k \in {j \in Keys : IsExpired(j)} THEN [j \in Keys |-> Visible(j)]
        ELSE [[j \in Keys |-> Visible(j)] EXCEPT ![k] = v]
  <2>1. CASE IsExpired(k)
    <3>1. \A j \in Keys : Visible(j)' = Visible(j)
      BY <1>2, <1>3, <2>1 DEF Visible
    <3> QED BY <2>1, <3>1
  <2>2. CASE ~IsExpired(k)
    <3>1. Visible(k)' = v
      BY <1>1, <1>2, <2>2 DEF Visible, TypeOK
    <3>2. [j \in Keys |-> Visible(j)]' = [[j \in Keys |-> Visible(j)] EXCEPT ![k] = v]
      BY <1>2, <1>3, <3>1, ViewUpdate
    <3> QED BY <2>2, <3>2
  <2> QED BY <2>1, <2>2
<1> QED BY <1>1, <1>4, <1>5 DEF Clients!Set, Clients!Answer

LEMMA SetExRefines ==
  ASSUME TypeOK, NEW k \in Keys, NEW v \in Values, NEW t \in Timeouts, SetEx(k, v, t)
  PROVE  Clients!SetEx(k, v, t)
<1> DEFINE d == (now + t * Second) % Word
<1>1. /\ kv' = [kv EXCEPT ![k] = v] /\ exp' = [exp EXCEPT ![k] = d] /\ UNCHANGED now
      /\ reply' = [op |-> "SET", key |-> k, result |-> "OK"]
  BY DEF SetEx, Answer
<1>2. d \in Nat
  BY DeadlineIsNat
<1> HIDE DEF d
<1>3. d # None
  BY <1>2, NoneAssumption
<1>4. \A j \in Keys \ {k} : /\ Visible(j)' = Visible(j) /\ Due(j)' = Due(j)
                            /\ IsExpired(j)' <=> IsExpired(j)
  BY <1>1 DEF Visible, Due, IsExpired, TypeOK
<1>5. IsExpired(k)' <=> Clients!Overdue(d, now)
  BY <1>1, <1>3 DEF IsExpired, TypeOK, Clients!Overdue
<1>6. CASE ~Clients!Overdue(d, now)
  <2>1. Visible(k)' = v /\ Due(k)' = d
    BY <1>1, <1>5, <1>6 DEF Visible, Due, TypeOK
  <2>2. /\ [j \in Keys |-> Visible(j)]' = [[j \in Keys |-> Visible(j)] EXCEPT ![k] = v]
        /\ [j \in Keys |-> Due(j)]' = [[j \in Keys |-> Due(j)] EXCEPT ![k] = d]
    BY <1>4, <2>1, ViewUpdate
  <2>3. {j \in Keys : IsExpired(j)}' = {j \in Keys : IsExpired(j)} \ {k}
    BY <1>4, <1>5, <1>6, LingeringUpdate
  <2> QED BY <1>1, <1>6, <2>2, <2>3 DEF d, Clients!SetEx, Clients!Answer
<1>7. CASE Clients!Overdue(d, now)
  <2>1. Visible(k)' = Absent /\ Due(k)' = None
    BY <1>5, <1>7 DEF Visible, Due
  <2>2. /\ [j \in Keys |-> Visible(j)]' = [[j \in Keys |-> Visible(j)] EXCEPT ![k] = Absent]
        /\ [j \in Keys |-> Due(j)]' = [[j \in Keys |-> Due(j)] EXCEPT ![k] = None]
    BY <1>4, <2>1, ViewUpdate
  <2>3. {j \in Keys : IsExpired(j)}' = {j \in Keys : IsExpired(j)} \cup {k}
    BY <1>4, <1>5, <1>7, LingeringUpdate
  <2> QED BY <1>1, <1>7, <2>2, <2>3 DEF d, Clients!SetEx, Clients!Answer
<1> QED BY <1>6, <1>7

LEMMA GetRefines ==
  ASSUME TypeOK, DeadlineHasKey, NEW k \in Keys, Get(k)
  PROVE  Clients!Get(k)
<1>1. reply' = [op |-> "GET", key |-> k, result |-> Visible(k)] /\ UNCHANGED now
  BY DEF Get, Answer, Visible
<1>2. \A j \in Keys : Visible(j)' = Visible(j) /\ Due(j)' = Due(j)
  BY DEF Get, Visible, Due, IsExpired, TypeOK
<1>3. ~IsExpired(k)' /\ \A j \in Keys \ {k} : IsExpired(j)' <=> IsExpired(j)
  BY DEF Get, IsExpired, DeadlineHasKey, TypeOK
<1>4. {j \in Keys : IsExpired(j)}' = {j \in Keys : IsExpired(j)} \ {k}
  BY <1>3, LingeringUpdate
<1> QED BY <1>1, <1>2, <1>4, ViewUnchanged DEF Clients!Get, Clients!Answer

LEMMA ExistsRefines ==
  ASSUME TypeOK, DeadlineHasKey, NEW k \in Keys, Exists(k)
  PROVE  Clients!Exists(k)
<1>1. /\ reply' = [op |-> "EXISTS", key |-> k, result |-> kv[k] # Absent]
      /\ UNCHANGED <<kv, exp, now>>
  BY DEF Exists, Answer
<1>2. \A j \in Keys : /\ Visible(j)' = Visible(j) /\ Due(j)' = Due(j)
                      /\ IsExpired(j)' <=> IsExpired(j)
  BY <1>1 DEF Visible, Due, IsExpired
<1>3. (kv[k] # Absent) = ([j \in Keys |-> Visible(j)][k] # Absent \/ k \in {j \in Keys : IsExpired(j)})
  BY StoredSeen
<1> QED BY <1>1, <1>2, <1>3, ViewUnchanged, LingeringUnchanged
        DEF Clients!Exists, Clients!Answer, Clients!Stored

LEMMA DelRefines ==
  ASSUME TypeOK, DeadlineHasKey, NEW k \in Keys, Del(k)
  PROVE  Clients!Del(k)
<1>1. /\ reply' = [op |-> "DEL", key |-> k, result |-> IF kv[k] # Absent THEN 1 ELSE 0]
      /\ kv' = [kv EXCEPT ![k] = Absent] /\ exp' = [exp EXCEPT ![k] = None]
      /\ UNCHANGED now
  BY DEF Del, Answer
<1>2. /\ Visible(k)' = Absent /\ Due(k)' = None /\ ~IsExpired(k)'
      /\ \A j \in Keys \ {k} : /\ Visible(j)' = Visible(j) /\ Due(j)' = Due(j)
                               /\ IsExpired(j)' <=> IsExpired(j)
  BY <1>1 DEF Visible, Due, IsExpired, TypeOK
<1>3. kv[k] # Absent <=> [j \in Keys |-> Visible(j)][k] # Absent \/ k \in {j \in Keys : IsExpired(j)}
  BY StoredSeen
<1>4. {j \in Keys : IsExpired(j)}' = {j \in Keys : IsExpired(j)} \ {k}
  BY <1>2, LingeringUpdate
<1> QED BY <1>1, <1>2, <1>3, <1>4, ViewUpdate DEF Clients!Del, Clients!Answer, Clients!Stored

\* A run of the cron only takes keys out of those that linger.
LEMMA CronRefines ==
  ASSUME TypeOK, DeadlineHasKey, Cron
  PROVE  Clients!Collect
<1>1. UNCHANGED <<now, reply>>
  BY DEF Cron
<1>2. PICK n \in RunLengths : Collect(cursor .. cursor + n - 1)
  BY DEF Cron
<1>3. \A j \in Keys : Visible(j)' = Visible(j) /\ Due(j)' = Due(j)
  BY <1>1, <1>2, CollectEffect
<1>4. \A j \in Keys : IsExpired(j)' => IsExpired(j)
  BY <1>1, <1>2 DEF Collect, IsExpired
<1> DEFINE S == {j \in Keys : IsExpired(j) /\ ~IsExpired(j)'}
<1>5. /\ S \in SUBSET {j \in Keys : IsExpired(j)}
      /\ {j \in Keys : IsExpired(j)}' = {j \in Keys : IsExpired(j)} \ S
  BY <1>4
<1> HIDE DEF S
<1> QED BY <1>1, <1>3, <1>5, ViewUnchanged DEF Clients!Collect

LEMMA StutterRefines ==
  ASSUME UNCHANGED vars
  PROVE  UNCHANGED Clients!vars
<1>1. UNCHANGED <<now, reply>> /\ \A j \in Keys : /\ Visible(j)' = Visible(j) /\ Due(j)' = Due(j)
                                                  /\ IsExpired(j)' <=> IsExpired(j)
  BY DEF vars, Visible, Due, IsExpired
<1> QED BY <1>1, ViewUnchanged, LingeringUnchanged DEF Clients!vars

LEMMA TickRefines ==
  ASSUME TypeOK, Tick
  PROVE  Clients!Tick
<1>1. now < MaxTime /\ now' = now + 1 /\ UNCHANGED <<kv, exp, reply>> /\ now \in Nat
  BY DEF Tick, TypeOK
<1> DEFINE gone == {k \in Keys : Clients!Overdue([j \in Keys |-> Due(j)][k], now + 1)}
<1>2. ASSUME NEW k \in Keys
      PROVE  /\ Visible(k)' = IF k \in gone THEN Absent ELSE Visible(k)
             /\ Due(k)' = IF k \in gone THEN None ELSE Due(k)
             /\ IsExpired(k)' <=> IsExpired(k) \/ k \in gone
  <2>0. k \in gone <=> Due(k) # None /\ now + 1 > Due(k)
    BY DEF Clients!Overdue
  <2> HIDE DEF gone
  <2>1. CASE exp[k] = None
    BY <1>1, <2>0, <2>1 DEF Visible, Due, IsExpired
  <2>2. CASE exp[k] # None
    <3>1. exp[k] \in Nat
      BY <2>2 DEF TypeOK
    <3> QED BY <1>1, <2>0, <2>2, <3>1 DEF Visible, Due, IsExpired
  <2> QED BY <2>1, <2>2
<1>3. [k \in Keys |-> Visible(k)]' =
        [k \in Keys |-> IF k \in gone THEN Absent ELSE [j \in Keys |-> Visible(j)][k]]
  BY <1>2
<1>4. [k \in Keys |-> Due(k)]' =
        [k \in Keys |-> IF k \in gone THEN None ELSE [j \in Keys |-> Due(j)][k]]
  BY <1>2
<1>5. {k \in Keys : IsExpired(k)}' = {k \in Keys : IsExpired(k)} \cup gone
  BY <1>2
<1> QED BY <1>1, <1>3, <1>4, <1>5 DEF Clients!Tick

LEMMA InitRefines ==
  ASSUME Init
  PROVE  Clients!Init
BY DEF Init, Clients!Init, Visible, Due, IsExpired

\* Clients see a map with deadlines: expiry by a GET and expiry by the cron cannot
\* be told apart, and every command answers as that map does, on a key that is expired
\* and not yet collected as TTLMap says of one that lingers.
THEOREM Refinement == Spec => RefinesTTLMap
<1>1. Init => Clients!Init
  BY InitRefines
<1>2. TypeOK /\ DeadlineHasKey /\ [Next]_vars => [Clients!Next]_(Clients!vars)
  BY SetRefines, SetExRefines, GetRefines, ExistsRefines, DelRefines, CronRefines, TickRefines,
     StutterRefines
     DEF Next, Command, Clients!Next, Clients!Command
<1> QED BY <1>1, <1>2, Invariance, PTL DEF Spec, RefinesTTLMap, Clients!Spec
=============================================================================
