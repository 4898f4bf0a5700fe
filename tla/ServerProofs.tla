---------------------------- MODULE ServerProofs ----------------------------
(***************************************************************************)
(* The two stores of the running server, for every set of keys and values, *)
(* every hash function, initial size, period and batch of the cron: a      *)
(* deadline belongs to a stored key in every state, and what clients see   *)
(* of a key changes by nothing but a command on it or its deadline.        *)
(***************************************************************************)
EXTENDS Server, FiniteSetTheorems, TLAPS

\* The theorems about one store, for each of the two.
DbP == INSTANCE KVStoreProofs WITH
         buckets <- dbBuckets, new <- dbNew, used <- dbUsed,
         size <- dbSize, newSize <- dbNewSize, rehashIdx <- dbRehashIdx

ExP == INSTANCE KVStoreProofs WITH
         Values <- {"ahead", "passed"},
         buckets <- exBuckets, new <- exNew, used <- exUsed,
         size <- exSize, newSize <- exNewSize, rehashIdx <- exRehashIdx

\* The inductive invariant: the tables of both stores are sound, and no deadline is
\* left without its key.
IInv == DbP!Inv /\ ExP!Inv /\ DeadlinesBelong

-----------------------------------------------------------------------------
(* What the operations of server.kvstore do to its searches                *)

LEMMA DbAssumptions ==
  /\ DbP!IsFiniteSet(Keys) /\ Absent \notin Values /\ Hash \in [Keys -> Nat]
  /\ InitSize \in Nat \ {0} /\ \E b \in 0 .. MaxBits : InitSize = 2^b
<1>1. DbP!IsFiniteSet(Keys)
  BY KeysAssumption DEF DbP!IsFiniteSet, IsFiniteSet
<1> QED BY <1>1, AbsentAssumption, HashAssumption, SizeAssumption

LEMMA DbSearch ==
  ASSUME NEW k
  PROVE  Db!Search(k) = DbP!Search(k) /\ Db!Search(k)' = DbP!Search(k)'
BY DEF Db!Search, DbP!Search, Db!InPrimary, DbP!InPrimary, Db!InNew, DbP!InNew,
       Db!SearchInBuckets, DbP!SearchInBuckets, Db!Index, DbP!Index,
       Db!RehashActive, DbP!RehashActive, Db!NullTable, DbP!NullTable,
       Db!EmptyTable, DbP!EmptyTable

LEMMA DbPut ==
  ASSUME DbP!Inv, NEW k \in Keys, NEW v \in Values, Db!Put(k, v)
  PROVE  /\ DbP!Inv'
         /\ Db!Search(k)' = {[key |-> k, value |-> v]}
         /\ \A j \in Keys \ {k} : Db!Search(j)' = Db!Search(j)
<1>1. DbP!Put(k, v)
  BY DEF Db!Put, DbP!Put, Db!PutOverwrite, DbP!PutOverwrite, Db!PutInsert, DbP!PutInsert,
       Db!Replace, DbP!Replace, Db!Push, DbP!Push,
       Db!ActivateIfNeeded, DbP!ActivateIfNeeded, Db!Overloaded, DbP!Overloaded,
       Db!StartRehash, DbP!StartRehash, Db!Search, DbP!Search,
       Db!InPrimary, DbP!InPrimary, Db!InNew, DbP!InNew,
       Db!SearchInBuckets, DbP!SearchInBuckets, Db!Index, DbP!Index,
       Db!RehashActive, DbP!RehashActive, Db!NullTable, DbP!NullTable,
       Db!EmptyTable, DbP!EmptyTable
<1> QED BY <1>1, DbAssumptions, DbSearch, DbP!PutSearch

LEMMA DbDelete ==
  ASSUME DbP!Inv, NEW k \in Keys, Db!Delete(k)
  PROVE  /\ DbP!Inv'
         /\ Db!Search(k)' = {}
         /\ \A j \in Keys \ {k} : Db!Search(j)' = Db!Search(j)
<1>1. DbP!Delete(k)
  BY DEF Db!Delete, DbP!Delete, Db!Unlink, DbP!Unlink,
       Db!ActivateIfNeeded, DbP!ActivateIfNeeded, Db!Overloaded, DbP!Overloaded,
       Db!StartRehash, DbP!StartRehash, Db!Search, DbP!Search,
       Db!InPrimary, DbP!InPrimary, Db!InNew, DbP!InNew,
       Db!SearchInBuckets, DbP!SearchInBuckets, Db!Index, DbP!Index,
       Db!RehashActive, DbP!RehashActive, Db!NullTable, DbP!NullTable,
       Db!EmptyTable, DbP!EmptyTable
<1> QED BY <1>1, DbAssumptions, DbSearch, DbP!DeleteSearch

LEMMA DbRehash ==
  ASSUME DbP!Inv, Db!RehashActivateIfNeeded \/ Db!RehashStep \/ UNCHANGED db
  PROVE  DbP!Inv' /\ \A j \in Keys : Db!Search(j)' = Db!Search(j)
<1>1. DbP!RehashActivateIfNeeded \/ DbP!RehashStep \/ UNCHANGED DbP!vars
  BY DEF Db!RehashActivateIfNeeded, DbP!RehashActivateIfNeeded,
       Db!RehashStep, DbP!RehashStep, Db!Scattered, DbP!Scattered,
       Db!LastBucket, DbP!LastBucket, Db!ActivateIfNeeded, DbP!ActivateIfNeeded,
       Db!Overloaded, DbP!Overloaded, Db!StartRehash, DbP!StartRehash,
       Db!Search, DbP!Search, Db!InPrimary, DbP!InPrimary, Db!InNew, DbP!InNew,
       Db!SearchInBuckets, DbP!SearchInBuckets, Db!Index, DbP!Index,
       Db!RehashActive, DbP!RehashActive, Db!NullTable, DbP!NullTable,
       Db!EmptyTable, DbP!EmptyTable, db, DbP!vars
<1> QED BY <1>1, DbAssumptions, DbSearch, DbP!RehashSearch

LEMMA DbDeleteAll ==
  ASSUME DbP!Inv, NEW D \in SUBSET Db!Stored, Db!DeleteAll(D)
  PROVE  /\ DbP!Inv'
         /\ \A k \in Keys : Db!Search(k)' = IF k \in D THEN {} ELSE Db!Search(k)
<1>1. DbP!DeleteAll(D)
  BY DEF Db!DeleteAll, DbP!DeleteAll, Db!Cardinality, DbP!Cardinality, Db!Without, DbP!Without,
       Db!ActivateIfNeeded, DbP!ActivateIfNeeded, Db!Overloaded, DbP!Overloaded,
       Db!StartRehash, DbP!StartRehash, Db!Search, DbP!Search,
       Db!InPrimary, DbP!InPrimary, Db!InNew, DbP!InNew,
       Db!SearchInBuckets, DbP!SearchInBuckets, Db!Index, DbP!Index,
       Db!RehashActive, DbP!RehashActive, Db!NullTable, DbP!NullTable,
       Db!EmptyTable, DbP!EmptyTable
<1>2. Db!Stored = DbP!Stored
  BY DbSearch DEF Db!Stored, DbP!Stored
<1> QED BY <1>1, <1>2, DbAssumptions, DbSearch, DbP!DeleteAllSearch

LEMMA DbGet ==
  ASSUME DbP!Inv, NEW k \in Keys
  PROVE  Db!Get(k) = Absent <=> Db!Search(k) = {}
<1>1. Db!Get(k) = DbP!Get(k)
  BY DEF Db!Get, DbP!Get, Db!ValueOf, DbP!ValueOf,
         Db!Search, DbP!Search, Db!InPrimary, DbP!InPrimary, Db!InNew, DbP!InNew,
       Db!SearchInBuckets, DbP!SearchInBuckets, Db!Index, DbP!Index,
       Db!RehashActive, DbP!RehashActive, Db!NullTable, DbP!NullTable,
       Db!EmptyTable, DbP!EmptyTable
<1> QED BY <1>1, DbAssumptions, DbSearch, DbP!GetOfSearch

LEMMA DbInit ==
  ASSUME Db!Init
  PROVE  DbP!Inv /\ \A k \in Keys : Db!Search(k) = {}
<1>1. DbP!Init
  BY DEF Db!Init, DbP!Init, Db!NullTable, DbP!NullTable, Db!EmptyTable, DbP!EmptyTable
<1> QED BY <1>1, DbAssumptions, DbSearch, DbP!InitInv

-----------------------------------------------------------------------------
(* The same for server.expire                                              *)

LEMMA ExAssumptions ==
  /\ ExP!IsFiniteSet(Keys) /\ Absent \notin {"ahead", "passed"} /\ Hash \in [Keys -> Nat]
  /\ InitSize \in Nat \ {0} /\ \E b \in 0 .. MaxBits : InitSize = 2^b
<1>1. ExP!IsFiniteSet(Keys)
  BY KeysAssumption DEF ExP!IsFiniteSet, IsFiniteSet
<1> QED BY <1>1, AbsentAssumption, HashAssumption, SizeAssumption

LEMMA ExSearch ==
  ASSUME NEW k
  PROVE  Ex!Search(k) = ExP!Search(k) /\ Ex!Search(k)' = ExP!Search(k)'
BY DEF Ex!Search, ExP!Search, Ex!InPrimary, ExP!InPrimary, Ex!InNew, ExP!InNew,
       Ex!SearchInBuckets, ExP!SearchInBuckets, Ex!Index, ExP!Index,
       Ex!RehashActive, ExP!RehashActive, Ex!NullTable, ExP!NullTable,
       Ex!EmptyTable, ExP!EmptyTable

LEMMA ExPut ==
  ASSUME ExP!Inv, NEW k \in Keys, NEW v \in {"ahead", "passed"}, Ex!Put(k, v)
  PROVE  /\ ExP!Inv'
         /\ Ex!Search(k)' = {[key |-> k, value |-> v]}
         /\ \A j \in Keys \ {k} : Ex!Search(j)' = Ex!Search(j)
<1>1. ExP!Put(k, v)
  BY DEF Ex!Put, ExP!Put, Ex!PutOverwrite, ExP!PutOverwrite, Ex!PutInsert, ExP!PutInsert,
       Ex!Replace, ExP!Replace, Ex!Push, ExP!Push,
       Ex!ActivateIfNeeded, ExP!ActivateIfNeeded, Ex!Overloaded, ExP!Overloaded,
       Ex!StartRehash, ExP!StartRehash, Ex!Search, ExP!Search,
       Ex!InPrimary, ExP!InPrimary, Ex!InNew, ExP!InNew,
       Ex!SearchInBuckets, ExP!SearchInBuckets, Ex!Index, ExP!Index,
       Ex!RehashActive, ExP!RehashActive, Ex!NullTable, ExP!NullTable,
       Ex!EmptyTable, ExP!EmptyTable
<1> QED BY <1>1, ExAssumptions, ExSearch, ExP!PutSearch

LEMMA ExDelete ==
  ASSUME ExP!Inv, NEW k \in Keys, Ex!Delete(k)
  PROVE  /\ ExP!Inv'
         /\ Ex!Search(k)' = {}
         /\ \A j \in Keys \ {k} : Ex!Search(j)' = Ex!Search(j)
<1>1. ExP!Delete(k)
  BY DEF Ex!Delete, ExP!Delete, Ex!Unlink, ExP!Unlink,
       Ex!ActivateIfNeeded, ExP!ActivateIfNeeded, Ex!Overloaded, ExP!Overloaded,
       Ex!StartRehash, ExP!StartRehash, Ex!Search, ExP!Search,
       Ex!InPrimary, ExP!InPrimary, Ex!InNew, ExP!InNew,
       Ex!SearchInBuckets, ExP!SearchInBuckets, Ex!Index, ExP!Index,
       Ex!RehashActive, ExP!RehashActive, Ex!NullTable, ExP!NullTable,
       Ex!EmptyTable, ExP!EmptyTable
<1> QED BY <1>1, ExAssumptions, ExSearch, ExP!DeleteSearch

LEMMA ExRehash ==
  ASSUME ExP!Inv, Ex!RehashActivateIfNeeded \/ Ex!RehashStep \/ UNCHANGED ex
  PROVE  ExP!Inv' /\ \A j \in Keys : Ex!Search(j)' = Ex!Search(j)
<1>1. ExP!RehashActivateIfNeeded \/ ExP!RehashStep \/ UNCHANGED ExP!vars
  BY DEF Ex!RehashActivateIfNeeded, ExP!RehashActivateIfNeeded,
       Ex!RehashStep, ExP!RehashStep, Ex!Scattered, ExP!Scattered,
       Ex!LastBucket, ExP!LastBucket, Ex!ActivateIfNeeded, ExP!ActivateIfNeeded,
       Ex!Overloaded, ExP!Overloaded, Ex!StartRehash, ExP!StartRehash,
       Ex!Search, ExP!Search, Ex!InPrimary, ExP!InPrimary, Ex!InNew, ExP!InNew,
       Ex!SearchInBuckets, ExP!SearchInBuckets, Ex!Index, ExP!Index,
       Ex!RehashActive, ExP!RehashActive, Ex!NullTable, ExP!NullTable,
       Ex!EmptyTable, ExP!EmptyTable, ex, ExP!vars
<1> QED BY <1>1, ExAssumptions, ExSearch, ExP!RehashSearch

LEMMA ExDeleteAll ==
  ASSUME ExP!Inv, NEW D \in SUBSET Ex!Stored, Ex!DeleteAll(D)
  PROVE  /\ ExP!Inv'
         /\ \A k \in Keys : Ex!Search(k)' = IF k \in D THEN {} ELSE Ex!Search(k)
<1>1. ExP!DeleteAll(D)
  BY DEF Ex!DeleteAll, ExP!DeleteAll, Ex!Cardinality, ExP!Cardinality, Ex!Without, ExP!Without,
       Ex!ActivateIfNeeded, ExP!ActivateIfNeeded, Ex!Overloaded, ExP!Overloaded,
       Ex!StartRehash, ExP!StartRehash, Ex!Search, ExP!Search,
       Ex!InPrimary, ExP!InPrimary, Ex!InNew, ExP!InNew,
       Ex!SearchInBuckets, ExP!SearchInBuckets, Ex!Index, ExP!Index,
       Ex!RehashActive, ExP!RehashActive, Ex!NullTable, ExP!NullTable,
       Ex!EmptyTable, ExP!EmptyTable
<1>2. Ex!Stored = ExP!Stored
  BY ExSearch DEF Ex!Stored, ExP!Stored
<1> QED BY <1>1, <1>2, ExAssumptions, ExSearch, ExP!DeleteAllSearch

LEMMA ExGet ==
  ASSUME ExP!Inv, NEW k \in Keys
  PROVE  Ex!Get(k) = Absent <=> Ex!Search(k) = {}
<1>1. Ex!Get(k) = ExP!Get(k)
  BY DEF Ex!Get, ExP!Get, Ex!ValueOf, ExP!ValueOf,
         Ex!Search, ExP!Search, Ex!InPrimary, ExP!InPrimary, Ex!InNew, ExP!InNew,
       Ex!SearchInBuckets, ExP!SearchInBuckets, Ex!Index, ExP!Index,
       Ex!RehashActive, ExP!RehashActive, Ex!NullTable, ExP!NullTable,
       Ex!EmptyTable, ExP!EmptyTable
<1> QED BY <1>1, ExAssumptions, ExSearch, ExP!GetOfSearch

LEMMA ExInit ==
  ASSUME Ex!Init
  PROVE  ExP!Inv /\ \A k \in Keys : Ex!Search(k) = {}
<1>1. ExP!Init
  BY DEF Ex!Init, ExP!Init, Ex!NullTable, ExP!NullTable, Ex!EmptyTable, ExP!EmptyTable
<1> QED BY <1>1, ExAssumptions, ExSearch, ExP!InitInv

-----------------------------------------------------------------------------
(* Steps of the server                                                     *)

\* What the searches of a key decide.
LEMMA VisibleFollows ==
  ASSUME NEW k, Db!Search(k)' = Db!Search(k), Ex!Search(k)' = Ex!Search(k)
  PROVE  Visible(k)' = Visible(k)
<1>1. Db!Get(k)' = Db!Get(k) /\ Ex!Get(k)' = Ex!Get(k)
  BY DEF Db!Get, Ex!Get
<1> QED BY <1>1 DEF Visible, IsExpired

\* An expired key has a deadline, so GET answers Absent for it.
LEMMA ExpiredHasDeadline ==
  ASSUME ExP!Inv, NEW k \in Keys, IsExpired(k)
  PROVE  k \in Ex!Stored
<1>1. Ex!Get(k) # Absent
  BY AbsentAssumption DEF IsExpired
<1> QED BY <1>1, ExGet DEF Ex!Stored

\* A store that a step leaves alone keeps its invariant and its searches.
LEMMA DbUnchanged ==
  ASSUME DbP!Inv, UNCHANGED db
  PROVE  DbP!Inv' /\ \A k \in Keys : Db!Search(k)' = Db!Search(k)
BY DbRehash

LEMMA ExUnchanged ==
  ASSUME ExP!Inv, UNCHANGED ex
  PROVE  ExP!Inv' /\ \A k \in Keys : Ex!Search(k)' = Ex!Search(k)
BY ExRehash

\* The searches that did not change keep deadlines and keys together.
LEMMA BelongFollows ==
  ASSUME DeadlinesBelong,
         \A k \in Keys : \/ Ex!Search(k)' = {}
                         \/ Db!Search(k)' # {}
                         \/ Ex!Search(k)' = Ex!Search(k) /\ Db!Search(k)' = Db!Search(k)
  PROVE  DeadlinesBelong'
BY DEF DeadlinesBelong, Db!Stored, Ex!Stored

\* A command on one key touches no other.
LEMMA CommandStep ==
  ASSUME IInv, NEW k \in Keys, CommandOn(k)
  PROVE  IInv' /\ \A j \in Keys \ {k} : Visible(j)' = Visible(j)
<1>1. DbP!Inv /\ ExP!Inv /\ DeadlinesBelong
  BY DEF IInv
<1>2. ASSUME DbP!Inv', ExP!Inv',
             \A j \in Keys \ {k} :
               Db!Search(j)' = Db!Search(j) /\ Ex!Search(j)' = Ex!Search(j),
             Ex!Search(k)' = {} \/ Db!Search(k)' # {}
      PROVE  IInv' /\ \A j \in Keys \ {k} : Visible(j)' = Visible(j)
  <2>1. DeadlinesBelong'
    BY <1>1, <1>2, BelongFollows
  <2> QED BY <1>2, <2>1, VisibleFollows DEF IInv
<1>3. ASSUME NEW v \in Values, Set(k, v)
      PROVE  IInv' /\ \A j \in Keys \ {k} : Visible(j)' = Visible(j)
  <2>1. /\ DbP!Inv' /\ Db!Search(k)' # {}
        /\ \A j \in Keys \ {k} : Db!Search(j)' = Db!Search(j)
    BY <1>1, <1>3, DbPut DEF Set
  <2>2. ExP!Inv' /\ \A j \in Keys : Ex!Search(j)' = Ex!Search(j)
    BY <1>1, <1>3, ExUnchanged DEF Set
  <2> QED BY <1>2, <2>1, <2>2
<1>4. ASSUME NEW v \in Values, SetEx(k, v)
      PROVE  IInv' /\ \A j \in Keys \ {k} : Visible(j)' = Visible(j)
  <2>1. /\ DbP!Inv' /\ Db!Search(k)' # {}
        /\ \A j \in Keys \ {k} : Db!Search(j)' = Db!Search(j)
    BY <1>1, <1>4, DbPut DEF SetEx
  <2>2. ExP!Inv' /\ \A j \in Keys \ {k} : Ex!Search(j)' = Ex!Search(j)
    BY <1>1, <1>4, ExPut DEF SetEx
  <2> QED BY <1>2, <2>1, <2>2
<1>5. ASSUME Forget(k)
      PROVE  IInv' /\ \A j \in Keys \ {k} : Visible(j)' = Visible(j)
  <2>1. DbP!Inv' /\ \A j \in Keys \ {k} : Db!Search(j)' = Db!Search(j)
    BY <1>1, <1>5, DbDelete, DbUnchanged DEF Forget
  <2>2. /\ ExP!Inv' /\ Ex!Search(k)' = {}
        /\ \A j \in Keys \ {k} : Ex!Search(j)' = Ex!Search(j)
    BY <1>1, <1>5, ExDelete, ExUnchanged DEF Forget
  <2> QED BY <1>2, <2>1, <2>2
<1> QED BY <1>3, <1>4, <1>5 DEF CommandOn, GetExpired, Del

\* The active expiry deletes from both stores what no client can see any more.
LEMMA CollectStep ==
  ASSUME IInv, NEW D \in SUBSET {k \in Keys : IsExpired(k)}, Collect(D)
  PROVE  IInv' /\ \A k \in Keys : Visible(k)' = Visible(k)
<1>1. DbP!Inv /\ ExP!Inv /\ DeadlinesBelong
  BY DEF IInv
<1>2. D \subseteq Ex!Stored
  BY <1>1, ExpiredHasDeadline
<1>3. /\ ExP!Inv'
      /\ \A k \in Keys : Ex!Search(k)' = IF k \in D THEN {} ELSE Ex!Search(k)
  BY <1>1, <1>2, ExDeleteAll DEF Collect
<1>4. /\ DbP!Inv'
      /\ \A k \in Keys :
           Db!Search(k)' = IF k \in D \cap Db!Stored THEN {} ELSE Db!Search(k)
  BY <1>1, DbDeleteAll DEF Collect
<1>5. \A k \in D : Db!Search(k)' = {} /\ Ex!Search(k)' = {}
  BY <1>3, <1>4 DEF Db!Stored
<1>6. DeadlinesBelong'
  BY <1>1, <1>3, <1>4, <1>5, BelongFollows
<1>7. ASSUME NEW k \in Keys \ D
      PROVE  Visible(k)' = Visible(k)
  BY <1>3, <1>4, VisibleFollows
<1>8. ASSUME NEW k \in D
      PROVE  Visible(k)' = Visible(k)
  <2>1. Visible(k) = Absent
    BY DEF Visible
  <2>2. Db!Get(k)' = Absent
    BY <1>5 DEF Db!Get, Db!ValueOf
  <2> QED BY <2>1, <2>2 DEF Visible
<1> QED BY <1>3, <1>4, <1>6, <1>7, <1>8 DEF IInv

\* Neither the cron nor the loop is seen by clients.
LEMMA QuietStep ==
  ASSUME IInv,
         Db!RehashActivateIfNeeded \/ Db!RehashStep \/ UNCHANGED db,
         Ex!RehashActivateIfNeeded \/ Ex!RehashStep \/ UNCHANGED ex
  PROVE  IInv' /\ \A k \in Keys : Visible(k)' = Visible(k)
<1>1. DbP!Inv /\ ExP!Inv /\ DeadlinesBelong
  BY DEF IInv
<1>2. DbP!Inv' /\ \A k \in Keys : Db!Search(k)' = Db!Search(k)
  BY <1>1, DbRehash
<1>3. ExP!Inv' /\ \A k \in Keys : Ex!Search(k)' = Ex!Search(k)
  BY <1>1, ExRehash
<1>4. DeadlinesBelong'
  BY <1>1, <1>2, <1>3, BelongFollows
<1> QED BY <1>2, <1>3, <1>4, VisibleFollows DEF IInv

LEMMA DeadlineStep ==
  ASSUME IInv, NEW k \in Keys, DeadlinePasses(k)
  PROVE  IInv' /\ \A j \in Keys \ {k} : Visible(j)' = Visible(j)
<1>1. DbP!Inv /\ ExP!Inv /\ DeadlinesBelong /\ Ex!Get(k) # Absent
  BY AbsentAssumption DEF IInv, DeadlinePasses
<1>2. DbP!Inv' /\ \A j \in Keys : Db!Search(j)' = Db!Search(j)
  BY <1>1, DbUnchanged DEF DeadlinePasses
<1>3. ExP!Inv' /\ \A j \in Keys \ {k} : Ex!Search(j)' = Ex!Search(j)
  BY <1>1, ExPut DEF DeadlinePasses
<1>4. Db!Search(k) # {}
  BY <1>1, ExGet DEF DeadlinesBelong, Db!Stored, Ex!Stored
<1>5. DeadlinesBelong'
  BY <1>1, <1>2, <1>3, <1>4, BelongFollows
<1> QED BY <1>2, <1>3, <1>5, VisibleFollows DEF IInv

\* A step of the server keeps the invariant, and clients see of a key what they saw
\* unless it is the key of a command or its deadline passes.
LEMMA ServerStep ==
  ASSUME IInv, [Next]_vars
  PROVE  /\ IInv'
         /\ \A k \in Keys :
              Visible(k)' # Visible(k) => (at = "io" /\ CommandOn(k)) \/ DeadlinePasses(k)
<1>1. CASE Command
  BY <1>1, CommandStep DEF Command
<1>2. CASE ScanCall
  <2>1. Collect({k \in Keys : k \in Ex!Reported(cursor) /\ IsExpired(k)})
    BY <1>2 DEF ScanCall
  <2> QED BY <2>1, CollectStep
<1>3. CASE ActivateDb \/ ActivateEx \/ RehashDb \/ RehashEx
  <2>1. /\ Db!RehashActivateIfNeeded \/ Db!RehashStep \/ UNCHANGED db
        /\ Ex!RehashActivateIfNeeded \/ Ex!RehashStep \/ UNCHANGED ex
    BY <1>3 DEF ActivateDb, ActivateEx, RehashDb, RehashEx
  <2> QED BY <2>1, QuietStep
<1>4. ASSUME NEW k \in Keys, DeadlinePasses(k)
      PROVE  /\ IInv'
             /\ \A j \in Keys : Visible(j)' # Visible(j) => DeadlinePasses(j)
  BY <1>4, DeadlineStep
<1>5. CASE \/ Poll \/ TimedOut \/ EndOfBatch \/ NotDue \/ StartCron \/ Exit
           \/ Ready \/ ShutdownCommand \/ Signal \/ Tick \/ UNCHANGED vars
  <2>1. UNCHANGED db /\ UNCHANGED ex
    BY <1>5 DEF Poll, TimedOut, EndOfBatch, NotDue, StartCron, Exit, Ready,
                ShutdownCommand, Signal, Tick, vars
  <2> QED BY <2>1, QuietStep
<1> QED BY <1>1, <1>2, <1>3, <1>4, <1>5 DEF Next, Loop, CronStep

-----------------------------------------------------------------------------
(* The theorems                                                            *)

\* The inductive invariant: both tables stay sound while the cron rehashes, scans and
\* deletes between commands.
THEOREM Invariance == Spec => []IInv
<1>1. Init => IInv
  <2> SUFFICES ASSUME Init
               PROVE  IInv
    OBVIOUS
  <2>1. DbP!Inv /\ ExP!Inv /\ \A k \in Keys : Ex!Search(k) = {}
    BY DbInit, ExInit DEF Init
  <2> QED BY <2>1 DEF IInv, DeadlinesBelong, Ex!Stored
<1>2. IInv /\ [Next]_vars => IInv'
  BY ServerStep
<1> QED BY <1>1, <1>2, PTL DEF Spec

\* A deadline belongs to a stored key, between the steps of the cron too.
THEOREM DeadlinesAreOwned == Spec => []DeadlinesBelong
<1>1. IInv => DeadlinesBelong
  BY DEF IInv
<1> QED BY <1>1, Invariance, PTL

\* What clients see of a key changes by a command on it or when its deadline passes.
THEOREM ClientsKeysAreSafe == Spec => KeysAreSafe
<1> DEFINE Seen == \A k \in Keys :
                     Visible(k)' # Visible(k) =>
                       (at = "io" /\ CommandOn(k)) \/ DeadlinePasses(k)
<1>1. IInv /\ [Next]_vars => [Seen]_vars
  BY ServerStep
<1> QED BY <1>1, Invariance, PTL DEF Spec, KeysAreSafe
=============================================================================
