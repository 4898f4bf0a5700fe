------------------------------ MODULE Keyspace -----------------------------
(***************************************************************************)
(* The commands of archke_commands.c and the two ways a key expires: when  *)
(* a GET meets it (lazy) and when serverCron scans the store of deadlines  *)
(* (active).                                                               *)
(*                                                                         *)
(* server.kvstore and server.expire are the maps that KVStore implements.  *)
(* The scan of server.expire is one walk over numbered slots: KVScan shows *)
(* that the real scan reports every key that stays, although the table     *)
(* grows.  The server is single-threaded: a command and a run of the cron  *)
(* are one action each, and the clock moves between them.                  *)
(***************************************************************************)
EXTENDS Integers, FiniteSets

CONSTANTS
  Keys, Values,
  Absent,       \* a key server.kvstore does not hold
  None,         \* a key server.expire does not hold
  Timeouts,     \* what clients write after EX
  Second,       \* clock units of a second: 1000
  Word,         \* 2^64, the range of a deadline
  MaxTime,      \* bound on the clock
  Slots,        \* buckets of server.expire
  Slot,         \* the bucket of each key
  Batch         \* buckets between two looks at the time limit: 16

ASSUME AbsentAssumption   == Absent \notin Values
ASSUME NoneAssumption     == None \notin Nat
ASSUME TimeoutsAssumption == Timeouts \subseteq Nat
ASSUME NumbersAssumption  == {Second, Word, Slots, Batch} \subseteq Nat \ {0} /\ MaxTime \in Nat
ASSUME SlotAssumption     == Slot \in [Keys -> 0 .. Slots-1]

VARIABLES
  kv,        \* server.kvstore: key -> value, or Absent
  exp,       \* server.expire: key -> deadline, or None
  now,       \* the monotonic clock, in milliseconds
  cursor,    \* server.cursor: the slot the next run of the cron starts with
  reply      \* the last command and its answer

vars == <<kv, exp, now, cursor, reply>>

Answer(op, k, result) == reply' = [op |-> op, key |-> k, result |-> result]

Init ==
  /\ kv = [k \in Keys |-> Absent]
  /\ exp = [k \in Keys |-> None]
  /\ now = 0
  /\ cursor = 0
  /\ reply = [op |-> None, key |-> None, result |-> None]

\* rchkIsExpired: a deadline is passed when the clock is beyond it.
IsExpired(k) == exp[k] # None /\ now > exp[k]

-----------------------------------------------------------------------------
(* Commands                                                                *)

\* SET key value: the deadline of an overwritten key is left as it is.
Set(k, v) ==
  /\ kv' = [kv EXCEPT ![k] = v]
  /\ Answer("SET", k, "OK")
  /\ UNCHANGED <<exp, now, cursor>>

\* SET key value EX t: arithmetic on uint64_t.
SetEx(k, v, t) ==
  /\ kv' = [kv EXCEPT ![k] = v]
  /\ exp' = [exp EXCEPT ![k] = (now + t * Second) % Word]
  /\ Answer("SET", k, "OK")
  /\ UNCHANGED <<now, cursor>>

\* A slip: the deadline is not looked at.
GetUnchecked(k) == Answer("GET", k, kv[k]) /\ UNCHANGED <<kv, exp, now, cursor>>

\* GET key: an expired key is removed from both stores and not found.
Get(k) ==
  /\ UNCHANGED <<now, cursor>>
  /\ \/ /\ kv[k] # Absent /\ IsExpired(k)
        /\ kv' = [kv EXCEPT ![k] = Absent]
        /\ exp' = [exp EXCEPT ![k] = None]
        /\ Answer("GET", k, Absent)
     \/ /\ ~(kv[k] # Absent /\ IsExpired(k))
        /\ Answer("GET", k, kv[k])
        /\ UNCHANGED <<kv, exp>>

\* EXISTS key: server.expire is not consulted.
Exists(k) ==
  /\ Answer("EXISTS", k, kv[k] # Absent)
  /\ UNCHANGED <<kv, exp, now, cursor>>

\* A slip: the deadline of a deleted key is left behind.
DelKeepsDeadline(k) ==
  /\ Answer("DEL", k, IF kv[k] # Absent THEN 1 ELSE 0)
  /\ kv' = [kv EXCEPT ![k] = Absent]
  /\ UNCHANGED <<exp, now, cursor>>

\* DEL key: the key leaves both stores; the answer tells of server.kvstore.
Del(k) ==
  /\ Answer("DEL", k, IF kv[k] # Absent THEN 1 ELSE 0)
  /\ kv' = [kv EXCEPT ![k] = Absent]
  /\ exp' = [exp EXCEPT ![k] = None]
  /\ UNCHANGED <<now, cursor>>

-----------------------------------------------------------------------------
(* The cron                                                                *)

\* A slip: the deadline of a collected key is left behind.
CollectKeepsDeadline(S) ==
  /\ kv' = [k \in Keys |-> IF Slot[k] \in S /\ IsExpired(k) THEN Absent ELSE kv[k]]
  /\ UNCHANGED exp

\* activeExpiryCallback on every key of the slots S.
Collect(S) ==
  LET gone == {k \in Keys : Slot[k] \in S /\ IsExpired(k)}
  IN /\ kv' = [k \in Keys |-> IF k \in gone THEN Absent ELSE kv[k]]
     /\ exp' = [k \in Keys |-> IF k \in gone THEN None ELSE exp[k]]

\* The numbers of slots one run may scan: to the end of the pass, or fewer when
\* the time limit is seen to have passed after a multiple of Batch.
RunLengths ==
  {Slots - cursor} \cup {n \in 1 .. Slots - cursor : n % Batch = 0}

\* A slip: a pass that ends does not start over.
SlotAfterUnwrapped(n) == cursor + n

SlotAfter(n) == (cursor + n) % Slots

\* The active expiry of serverCron.
Cron ==
  /\ \E n \in RunLengths :
       /\ Collect(cursor .. cursor + n - 1)
       /\ cursor' = SlotAfter(n)
  /\ UNCHANGED <<now, reply>>

Tick ==
  /\ now < MaxTime
  /\ now' = now + 1
  /\ UNCHANGED <<kv, exp, cursor, reply>>

Command ==
  \E k \in Keys :
    \/ \E v \in Values : Set(k, v) \/ \E t \in Timeouts : SetEx(k, v, t)
    \/ Get(k)
    \/ Exists(k)
    \/ Del(k)

Next == Command \/ Cron \/ Tick

Spec == Init /\ [][Next]_vars

\* The event loop runs the cron again 200 ms after each run, for ever.
FairSpec == Spec /\ WF_vars(Cron)

-----------------------------------------------------------------------------
TypeOK ==
  /\ kv \in [Keys -> Values \cup {Absent}]
  /\ exp \in [Keys -> Nat \cup {None}]
  /\ now \in Nat
  /\ cursor \in 0 .. Slots-1

\* A deadline belongs to a stored key: one left behind would remove the next
\* value its key is given.
DeadlineHasKey == \A k \in Keys : exp[k] # None => kv[k] # Absent

\* Clients see the map of TTLMap: no GET returns a value past its deadline, only a
\* DEL or a passed deadline takes a value away, no SET is lost and EXISTS and DEL
\* count no key that a GET would not find, but for a key that is expired and not yet
\* collected; by whom it is collected, a GET or the cron, makes no difference.
Visible(k) == IF IsExpired(k) THEN Absent ELSE kv[k]
Due(k) == IF IsExpired(k) THEN None ELSE exp[k]

Clients == INSTANCE TTLMap WITH visible <- [k \in Keys |-> Visible(k)],
                                due <- [k \in Keys |-> Due(k)],
                                lingering <- {k \in Keys : IsExpired(k)}

RefinesTTLMap == Clients!Spec

\* An expired key is collected, or given a new deadline, although the time limit
\* cuts the runs of the cron short.
ExpiredIsCollected == \A k \in Keys : IsExpired(k) ~> ~IsExpired(k)

-----------------------------------------------------------------------------
(* What the protocol description says of commands on expired keys and the  *)
(* code does not do                                                        *)

\* SET, EXISTS and DEL agree with GET about which values there are, as protocol/ACSP
\* describes them.  SET "creates key-value pairs. if the key already holds a value, it
\* is overwritten"; EXISTS "returns true if a value associated with a given key exists.
\* Returns false if otherwise"; DEL answers "0" "if a value associated with "MYKEY" does
\* not exist".  The code does otherwise with all three when the key has expired and is
\* not yet collected.
CommandsAgree ==
  [][\A k \in Keys :
       /\ \A v \in Values : Set(k, v) => Visible(k)' = v
       /\ Exists(k) => reply'.result = (Visible(k) # Absent)
       /\ Del(k) /\ Visible(k) = Absent => reply'.result = 0]_vars
=============================================================================
