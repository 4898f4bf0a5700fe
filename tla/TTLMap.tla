------------------------------- MODULE TTLMap ------------------------------
(***************************************************************************)
(* What the keyspace is to its clients: a map whose entries vanish when    *)
(* their deadline has passed.  A GET finds nothing from that moment on,    *)
(* but the entry stays in the memory of the server until something         *)
(* collects it, and clients can tell.  While a key lingers,                *)
(*   - a SET without EX on it is lost: it keeps the passed deadline;       *)
(*   - EXISTS answers true and DEL answers 1.                              *)
(* For every other key the answers are those of a map.                     *)
(***************************************************************************)
EXTENDS Naturals

CONSTANTS Keys, Values, Absent, None, Timeouts, Second, Word, MaxTime

VARIABLES
  visible,   \* key -> value a GET returns, or Absent
  due,       \* key -> deadline of a visible entry, or None
  lingering, \* keys whose deadline has passed and whose entry was not collected
  now,       \* the monotonic clock, in milliseconds
  reply      \* the last command and its answer

vars == <<visible, due, lingering, now, reply>>

Answer(op, k, result) == reply' = [op |-> op, key |-> k, result |-> result]

Init ==
  /\ visible = [k \in Keys |-> Absent]
  /\ due = [k \in Keys |-> None]
  /\ lingering = {}
  /\ now = 0
  /\ reply = [op |-> None, key |-> None, result |-> None]

Overdue(d, t) == d # None /\ t > d

Stored(k) == visible[k] # Absent \/ k \in lingering

\* Time passes: the entries whose deadline it passes disappear from sight.
Tick ==
  LET gone == {k \in Keys : Overdue(due[k], now + 1)}
  IN /\ now < MaxTime
     /\ now' = now + 1
     /\ visible' = [k \in Keys |-> IF k \in gone THEN Absent ELSE visible[k]]
     /\ due' = [k \in Keys |-> IF k \in gone THEN None ELSE due[k]]
     /\ lingering' = lingering \cup gone
     /\ UNCHANGED reply

Set(k, v) ==
  /\ visible' = IF k \in lingering THEN visible ELSE [visible EXCEPT ![k] = v]
  /\ Answer("SET", k, "OK")
  /\ UNCHANGED <<due, lingering, now>>

\* A deadline that wrapped may have passed already.
SetEx(k, v, t) ==
  LET d == (now + t * Second) % Word
  IN /\ Answer("SET", k, "OK")
     /\ UNCHANGED now
     /\ \/ /\ ~Overdue(d, now)
           /\ visible' = [visible EXCEPT ![k] = v]
           /\ due' = [due EXCEPT ![k] = d]
           /\ lingering' = lingering \ {k}
        \/ /\ Overdue(d, now)
           /\ visible' = [visible EXCEPT ![k] = Absent]
           /\ due' = [due EXCEPT ![k] = None]
           /\ lingering' = lingering \cup {k}

\* A GET collects a key that lingers.
Get(k) ==
  /\ Answer("GET", k, visible[k])
  /\ lingering' = lingering \ {k}
  /\ UNCHANGED <<visible, due, now>>

Exists(k) ==
  /\ Answer("EXISTS", k, Stored(k))
  /\ UNCHANGED <<visible, due, lingering, now>>

Del(k) ==
  /\ Answer("DEL", k, IF Stored(k) THEN 1 ELSE 0)
  /\ visible' = [visible EXCEPT ![k] = Absent]
  /\ due' = [due EXCEPT ![k] = None]
  /\ lingering' = lingering \ {k}
  /\ UNCHANGED now

\* The server collects some of the keys that linger.
Collect ==
  /\ \E S \in SUBSET lingering : lingering' = lingering \ S
  /\ UNCHANGED <<visible, due, now, reply>>

Command ==
  \E k \in Keys :
    \/ \E v \in Values : Set(k, v) \/ \E t \in Timeouts : SetEx(k, v, t)
    \/ Get(k)
    \/ Exists(k)
    \/ Del(k)

Next == Command \/ Collect \/ Tick

Spec == Init /\ [][Next]_vars
=============================================================================
