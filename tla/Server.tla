------------------------------- MODULE Server -------------------------------
(***************************************************************************)
(* The program as it runs: the event loop, commands on the two hash tables *)
(* server.kvstore and server.expire, and serverCron step by step.  Every   *)
(* table operation is the one of KVStore and every call of the scan the    *)
(* one of ScanStep, so both tables grow while the active expiry walks over *)
(* one of them and deletes from both.                                      *)
(*                                                                         *)
(* Time is kept as what the code makes of it: milliseconds until the cron  *)
(* is due, whether a deadline has passed, whether the time limit of the    *)
(* current part of the cron has passed.  A batch of events is any number   *)
(* of commands.  A signal may come at any moment.                          *)
(***************************************************************************)
EXTENDS Integers, FiniteSets

CONSTANTS
  Keys, Values, Absent, Hash, InitSize, MaxBits,    \* as in ScanStep
  Period,    \* milliseconds between two runs of the cron: 1000/hz
  Batch      \* scan calls between two looks at the time limit: 16

ASSUME KeysAssumption   == IsFiniteSet(Keys)
ASSUME AbsentAssumption == Absent \notin Values \cup {"ahead", "passed"}
ASSUME HashAssumption   == Hash \in [Keys -> Nat]
ASSUME SizeAssumption   == InitSize \in Nat \ {0} /\ \E b \in 0 .. MaxBits : InitSize = 2^b
ASSUME PeriodAssumption == Period \in Nat \ {0}
ASSUME BatchAssumption  == Batch \in Nat \ {0}

VARIABLES
  dbBuckets, dbNew, dbUsed, dbSize, dbNewSize, dbRehashIdx,    \* server.kvstore
  exBuckets, exNew, exUsed, exSize, exNewSize, exRehashIdx,    \* server.expire
  at,           \* where the process is
  untilCron,    \* timeEvent->when - now, 0 when that is in the past
  timeout,      \* what is left of the wait of epoll_wait
  shutdown,     \* server.shutdown
  cursor,       \* server.cursor
  iteration,    \* scan calls of this run, up to a multiple of Batch
  late          \* the time limit of this part of the cron has passed

db == <<dbBuckets, dbNew, dbUsed, dbSize, dbNewSize, dbRehashIdx>>
ex == <<exBuckets, exNew, exUsed, exSize, exNewSize, exRehashIdx>>
timer == <<untilCron, timeout>>
cron == <<cursor, iteration, late>>
vars == <<db, ex, at, timer, shutdown, cron>>

Db == INSTANCE ScanStep WITH
        buckets <- dbBuckets, new <- dbNew, used <- dbUsed,
        size <- dbSize, newSize <- dbNewSize, rehashIdx <- dbRehashIdx

\* A deadline is a number in the code; here it is ahead of the clock or passed.
Ex == INSTANCE ScanStep WITH
        Values <- {"ahead", "passed"},
        buckets <- exBuckets, new <- exNew, used <- exUsed,
        size <- exSize, newSize <- exNewSize, rehashIdx <- exRehashIdx

Init ==
  /\ Db!Init /\ Ex!Init
  /\ at = "poll"
  /\ untilCron = 1 /\ timeout = 0
  /\ shutdown = FALSE
  /\ cursor = 0 /\ iteration = 0 /\ late = FALSE

-----------------------------------------------------------------------------
(* Commands                                                                *)

IsExpired(k) == Ex!Get(k) = "passed"

Set(k, v) == Db!Put(k, v) /\ UNCHANGED ex

SetEx(k, v) == Db!Put(k, v) /\ Ex!Put(k, "ahead")

\* The key leaves both stores, as far as it is there.
Forget(k) ==
  /\ Db!Delete(k) \/ (Db!Search(k) = {} /\ UNCHANGED db)
  /\ Ex!Delete(k) \/ (Ex!Search(k) = {} /\ UNCHANGED ex)

\* GET removes an expired key; EXISTS, ECHO and other GETs change nothing.
GetExpired(k) == Db!Get(k) # Absent /\ IsExpired(k) /\ Forget(k)

Del(k) == Forget(k)

CommandOn(k) ==
  \/ \E v \in Values : Set(k, v) \/ SetEx(k, v)
  \/ GetExpired(k)
  \/ Del(k)

\* Handlers of a batch execute commands.
Command ==
  /\ at = "io"
  /\ \E k \in Keys : CommandOn(k)
  /\ UNCHANGED <<at, timer, shutdown, cron>>

ShutdownCommand ==
  /\ at = "io" /\ at' = "exited"
  /\ UNCHANGED <<db, ex, timer, shutdown, cron>>

-----------------------------------------------------------------------------
(* rchkEventLoopMain                                                       *)

EarliestTimerOffset == untilCron

Poll ==
  /\ at = "poll" /\ at' = "wait"
  /\ timeout' = EarliestTimerOffset
  /\ UNCHANGED <<db, ex, untilCron, shutdown, cron>>

\* epoll_wait returns events.
Ready ==
  /\ at = "wait" /\ at' = "io"
  /\ timeout' = 0
  /\ UNCHANGED <<db, ex, untilCron, shutdown, cron>>

TimedOut ==
  /\ at = "wait" /\ timeout = 0
  /\ at' = "timers"
  /\ UNCHANGED <<db, ex, timer, shutdown, cron>>

\* SIGTERM or SIGINT: the handler sets a flag, and a wait ends with EINTR unless
\* the signal came just before it began.
Signal ==
  /\ at # "exited" /\ ~shutdown
  /\ shutdown' = TRUE
  /\ \/ at = "wait" /\ at' = "timers" /\ timeout' = 0
     \/ UNCHANGED <<at, timeout>>
  /\ UNCHANGED <<db, ex, untilCron, cron>>

EndOfBatch ==
  /\ at = "io" /\ at' = "timers"
  /\ UNCHANGED <<db, ex, timer, shutdown, cron>>

NotDue ==
  /\ at = "timers" /\ untilCron > 0
  /\ at' = "poll"
  /\ UNCHANGED <<db, ex, timer, shutdown, cron>>

-----------------------------------------------------------------------------
(* serverCron                                                              *)

\* A slip: every run starts its scan at the first bucket.
FromFirstBucket ==
  /\ at = "timers" /\ untilCron = 0 /\ ~shutdown
  /\ at' = "scan"
  /\ cursor' = 0 /\ iteration' = 0 /\ late' = FALSE
  /\ UNCHANGED <<db, ex, timer, shutdown>>

StartCron ==
  /\ at = "timers" /\ untilCron = 0 /\ ~shutdown
  /\ at' = "scan"
  /\ iteration' = 0 /\ late' = FALSE
  /\ UNCHANGED <<db, ex, timer, shutdown, cursor>>

\* A slip: the flag is looked at when the cron is not due.
ExitUndue ==
  /\ at = "timers" /\ untilCron > 0 /\ shutdown
  /\ at' = "exited"
  /\ UNCHANGED <<db, ex, timer, shutdown, cron>>

Exit ==
  /\ at = "timers" /\ untilCron = 0 /\ shutdown
  /\ at' = "exited"
  /\ UNCHANGED <<db, ex, timer, shutdown, cron>>

\* A slip: the deadline is removed and the key stays.
CollectDeadlines(D) == Ex!DeleteAll(D) /\ UNCHANGED db

\* A slip: the key is removed and its deadline stays.
CollectKeys(D) == Db!DeleteAll(D) /\ UNCHANGED ex

\* activeExpiryCallback for the keys D of the elements whose deadline has passed.
Collect(D) == Ex!DeleteAll(D) /\ Db!DeleteAll(D \cap Db!Stored)

\* One turn of the loop of the active expiry.
ScanCall ==
  LET next == Ex!NextCursor(cursor)
      turns == (iteration + 1) % Batch
  IN /\ at = "scan"
     /\ Collect({k \in Keys : k \in Ex!Reported(cursor) /\ IsExpired(k)})
     /\ cursor' = next
     /\ iteration' = turns
     /\ at' = IF next = 0 \/ (turns = 0 /\ late) THEN "activateDb" ELSE "scan"
     /\ UNCHANGED <<timer, shutdown, late>>

\* rchkIncrementalRehashing looks whether a rehash is needed and at the clock.
ActivateDb ==
  /\ at = "activateDb" /\ at' = "rehashDb"
  /\ Db!RehashActivateIfNeeded
  /\ late' = FALSE
  /\ UNCHANGED <<ex, timer, shutdown, cursor, iteration>>

ActivateEx ==
  /\ at = "activateEx" /\ at' = "rehashEx"
  /\ Ex!RehashActivateIfNeeded
  /\ late' = FALSE
  /\ UNCHANGED <<db, timer, shutdown, cursor, iteration>>

\* Its loop ends with the rehash, or with a step before the limit has passed: the
\* comparison is the wrong way round.
RehashDb ==
  /\ at = "rehashDb"
  /\ Db!RehashStep \/ (~Db!RehashActive /\ UNCHANGED db)
  /\ at' = IF ~Db!RehashActive \/ Db!LastBucket \/ ~late THEN "activateEx" ELSE at
  /\ UNCHANGED <<ex, timer, shutdown, cron>>

\* A slip: the other store is rehashed again.
RehashDbTwice ==
  /\ at = "rehashEx" /\ at' = "poll"
  /\ Db!RehashStep \/ (~Db!RehashActive /\ UNCHANGED db)
  /\ untilCron' = Period
  /\ UNCHANGED <<ex, timeout, shutdown, cron>>

\* The end of the cron: the loop sets the timer to Period from now.
RehashEx ==
  /\ at = "rehashEx"
  /\ Ex!RehashStep \/ (~Ex!RehashActive /\ UNCHANGED ex)
  /\ \/ /\ ~Ex!RehashActive \/ Ex!LastBucket \/ ~late
        /\ at' = "poll"
        /\ untilCron' = Period
     \/ /\ Ex!RehashActive /\ ~Ex!LastBucket /\ late
        /\ UNCHANGED <<at, untilCron>>
  /\ UNCHANGED <<db, timeout, shutdown, cron>>

CronStep == ScanCall \/ ActivateDb \/ RehashDb \/ ActivateEx \/ RehashEx

-----------------------------------------------------------------------------
(* Time                                                                    *)

\* A millisecond passes.  The kernel ends a wait on time.
Tick ==
  /\ at # "exited"
  /\ at = "wait" => timeout > 0
  /\ untilCron' = IF untilCron > 0 THEN untilCron - 1 ELSE 0
  /\ timeout' = IF at = "wait" THEN timeout - 1 ELSE 0
  /\ late' = (late \/ at \in {"scan", "rehashDb", "rehashEx"})
  /\ UNCHANGED <<db, ex, at, shutdown, cursor, iteration>>

\* The cron reads the clock once and nobody else reads a deadline until it is done:
\* one that passes meanwhile is marked afterwards.
DeadlinePasses(k) ==
  /\ at \in {"wait", "io"} /\ Ex!Get(k) = "ahead"
  /\ Ex!Put(k, "passed")
  /\ UNCHANGED <<db, at, timer, shutdown, cron>>

-----------------------------------------------------------------------------
Loop == Poll \/ TimedOut \/ EndOfBatch \/ NotDue \/ StartCron \/ Exit \/ CronStep

Next ==
  \/ Loop
  \/ Ready \/ Command \/ ShutdownCommand
  \/ Signal
  \/ Tick \/ \E k \in Keys : DeadlinePasses(k)

Spec == Init /\ [][Next]_vars

\* The process runs and time passes.  Clients, signals and deadlines need not come.
FairSpec == Spec /\ WF_vars(Loop) /\ WF_vars(Tick)

-----------------------------------------------------------------------------
\* What a GET would answer.
Visible(k) == IF IsExpired(k) THEN Absent ELSE Db!Get(k)

\* What clients see of a key changes by a command on this key or when its deadline
\* passes: neither a scan that deletes from both stores, nor a table that grows under
\* it, nor a command on another key loses a value or brings one back.
KeysAreSafe ==
  [][\A k \in Keys :
       Visible(k)' # Visible(k) => (at = "io" /\ CommandOn(k)) \/ DeadlinePasses(k)]_vars

\* The two stores agree although they grow at different times: a deadline belongs to
\* a stored key, between the steps of the cron too.
DeadlinesBelong == Ex!Stored \subseteq Db!Stored

\* An expired key is collected, however short the time limit cuts the runs of the
\* cron and however the table grows between them.
ExpiredIsCollected == \A k \in Keys : IsExpired(k) ~> ~IsExpired(k) \/ at = "exited"

\* A rehash of either store ends, one step in each run of the cron being enough.
RehashesEnd ==
  /\ Db!RehashActive ~> ~Db!RehashActive \/ at = "exited"
  /\ Ex!RehashActive ~> ~Ex!RehashActive \/ at = "exited"

\* A signal ends the process, whenever it comes and whatever clients do.
ShutdownEnds == shutdown ~> at = "exited"
=============================================================================
