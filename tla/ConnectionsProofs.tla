------------------------- MODULE ConnectionsProofs -------------------------
(***************************************************************************)
(* The bookkeeping of connections, for every set of descriptors, every     *)
(* number of clients and both event loops: no handler of a batch meets a   *)
(* descriptor or a client that an earlier one has ended.                   *)
(***************************************************************************)
EXTENDS Connections, FiniteSetTheorems, TLAPS

Ready == [fd : Fds, event : {Read, Write}]

TypeOK ==
  /\ backend \in {"epoll", "kqueue"}
  /\ open \in SUBSET Fds
  /\ interest \in [Fds -> SUBSET {Read, Write}]
  /\ mask \in [Fds -> {None, Read, Write}]
  /\ clientData \in [Fds -> Nat \cup {NULL}]
  /\ batch \in Seq(Ready)
  /\ clientCount \in Nat
  /\ clients \in [1 .. clientCount -> Nat \cup {NULL}]
  /\ DOMAIN fdOf \in SUBSET (1 .. clientCount)
  /\ fdOf \in [DOMAIN fdOf -> Fds]

\* The listener stays as it was registered.
ListenerWaits == Listener \in open /\ mask[Listener] = Read

\* Clients and open descriptors point at each other.
Paired ==
  /\ \A fd \in open \ {Listener} : Client(fd) \in DOMAIN fdOf /\ fdOf[Client(fd)] = fd
  /\ \A c \in DOMAIN fdOf : fdOf[c] \in open \ {Listener} /\ Client(fdOf[c]) = c

\* The i-th client accepted is at place i of the list until it is freed.
Placed ==
  \A i \in 1 .. clientCount : clients[i] = IF i \in DOMAIN fdOf THEN i ELSE NULL

\* A descriptor is in a batch once, for the event it is registered for.
BatchCurrent ==
  /\ \A i \in 1 .. Len(batch) : mask[batch[i].fd] = batch[i].event
  /\ \A i, j \in 1 .. Len(batch) : batch[i].fd = batch[j].fd => i = j

\* The inductive invariant.  BatchCurrent is what survives a close: the descriptor
\* closed is at the head of the batch and nowhere else in it, and a number handed out
\* anew was not registered, hence is in no entry that waits.
Inv ==
  /\ TypeOK
  /\ KernelAgrees
  /\ ListenerWaits
  /\ Paired
  /\ Placed
  /\ BatchCurrent

-----------------------------------------------------------------------------
LEMMA InitInv ==
  ASSUME Init
  PROVE  Inv
<1> USE ListenerAssumption DEF None, Read, Write
<1>1. TypeOK
  BY DEF Init, TypeOK
<1>2. KernelAgrees /\ ListenerWaits
  BY DEF Init, KernelAgrees, ListenerWaits
<1>3. Paired /\ Placed /\ BatchCurrent
  BY DEF Init, Paired, Placed, BatchCurrent
<1> QED BY <1>1, <1>2, <1>3 DEF Inv

\* What a wait may return is finite: it can be put into a sequence.
LEMMA ReadyIsFinite == IsFiniteSet(Ready)
<1> DEFINE pairs == Fds \X {Read, Write}
           f == [p \in pairs |-> [fd |-> p[1], event |-> p[2]]]
<1>1. IsFiniteSet({Read, Write})
  <2>1. {Read, Write} = {Read} \cup {Write}
    OBVIOUS
  <2>2. IsFiniteSet({Read})
    BY FS_Singleton
  <2>3. IsFiniteSet({Read} \cup {Write})
    BY <2>2, FS_AddElement
  <2> QED BY <2>1, <2>3
<1>2. IsFiniteSet(pairs)
  BY <1>1, FdsAssumption, FS_Product
<1>3. f \in Surjection(pairs, Ready)
  <2>1. f \in [pairs -> Ready]
    BY DEF Ready
  <2>2. ASSUME NEW r \in Ready
        PROVE  \E p \in pairs : f[p] = r
    <3>1. <<r.fd, r.event>> \in pairs /\ f[<<r.fd, r.event>>] = r
      BY DEF Ready
    <3> QED BY <3>1
  <2> QED BY <2>1, <2>2 DEF Surjection
<1> HIDE DEF pairs, f
<1> QED BY <1>2, <1>3, FS_Surjection

LEMMA PollInv ==
  ASSUME Inv, Poll
  PROVE  Inv'
<1>1. PICK ready \in SUBSET UNION {{[fd |-> fd, event |-> m] : m \in interest[fd]} : fd \in Fds} :
        batch' \in SetToSeqs(ready)
  BY DEF Poll
<1>2. ASSUME NEW r \in ready
      PROVE  r \in Ready /\ mask[r.fd] = r.event
  <2>1. PICK fd \in Fds : \E m \in interest[fd] : r = [fd |-> fd, event |-> m]
    BY <1>1
  <2>2. interest[fd] = {mask[fd]} \ {None} /\ interest[fd] \subseteq {Read, Write}
    BY DEF Inv, TypeOK, KernelAgrees
  <2> QED BY <2>1, <2>2 DEF Ready
<1>3. IsFiniteSet(ready)
  BY <1>2, ReadyIsFinite, FS_Subset
<1>4. Cardinality(ready) \in Nat
  BY <1>3, FS_CardinalityType
<1>5. /\ batch' \in [1 .. Cardinality(ready) -> ready]
      /\ \A i, j \in 1 .. Cardinality(ready) : i # j => batch'[i] # batch'[j]
  BY <1>1 DEF SetToSeqs
<1>6. batch' \in Seq(ready) /\ Len(batch') = Cardinality(ready)
  BY <1>4, <1>5
<1>7. batch' \in Seq(Ready)
  BY <1>2, <1>4, <1>5
<1>8. BatchCurrent'
  <2>1. \A i \in 1 .. Len(batch') : batch'[i] \in ready
    BY <1>5, <1>6
  <2>2. \A i \in 1 .. Len(batch') : mask'[batch'[i].fd] = batch'[i].event
    BY <1>2, <2>1 DEF Poll, events
  <2>3. ASSUME NEW i \in 1 .. Len(batch'), NEW j \in 1 .. Len(batch'), batch'[i].fd = batch'[j].fd
        PROVE  i = j
    <3>1. batch'[i] \in Ready /\ batch'[j] \in Ready /\ batch'[i].event = batch'[j].event
      BY <1>2, <2>1, <2>3
    <3>2. batch'[i] = batch'[j]
      BY <2>3, <3>1 DEF Ready
    <3> QED BY <1>5, <1>6, <3>2
  <2> QED BY <2>2, <2>3 DEF BatchCurrent
<1>9. /\ TypeOK' /\ KernelAgrees' /\ ListenerWaits' /\ Paired' /\ Placed'
  BY <1>7 DEF Poll, kernel, events, list, Inv, TypeOK, KernelAgrees, ListenerWaits, Paired,
              Placed, Client
<1> QED BY <1>8, <1>9 DEF Inv

\* What a batch holds is open.
LEMMA EntryIsOpen ==
  ASSUME Inv, NEW i \in 1 .. Len(batch)
  PROVE  batch[i].fd \in open /\ batch[i].event # None /\ mask[batch[i].fd] = batch[i].event
<1>1. batch[i] \in Ready
  BY DEF Inv, TypeOK
<1>2. batch[i].fd \in Fds /\ batch[i].event # None
  BY <1>1 DEF Ready, None, Read, Write
<1> QED BY <1>2 DEF Inv, BatchCurrent, KernelAgrees

LEMMA HeadIsFirst ==
  ASSUME NEW S, NEW s \in Seq(S), s # <<>>
  PROVE  /\ Len(s) \in Nat \ {0} /\ 1 \in 1 .. Len(s) /\ Head(s) = s[1]
         /\ Tail(s) \in Seq(S) /\ Len(Tail(s)) = Len(s) - 1
         /\ \A i \in 1 .. Len(Tail(s)) : Tail(s)[i] = s[i+1] /\ i + 1 \in 1 .. Len(s)
OBVIOUS

\* One entry of the batch is dispatched: the others stay current as long as the
\* handler registers and ends its own descriptor alone.
LEMMA DispatchedBatch ==
  ASSUME Inv, NEW fd \in Fds, NEW m \in {Read, Write}, Dispatched(fd, m),
         \A other \in open \ {fd} : mask'[other] = mask[other]
  PROVE  /\ batch' \in Seq(Ready)
         /\ mask[fd] = m /\ fd \in open
         /\ BatchCurrent'
<1>1. /\ batch \in Seq(Ready) /\ batch # <<>> /\ Len(batch) \in Nat \ {0} /\ 1 \in 1 .. Len(batch)
      /\ batch[1] = [fd |-> fd, event |-> m]
  <2>1. batch \in Seq(Ready)
    BY DEF Inv, TypeOK
  <2> QED BY <2>1, HeadIsFirst DEF Dispatched
<1>2. /\ batch' \in Seq(Ready) /\ Len(batch') = Len(batch) - 1
      /\ \A i \in 1 .. Len(batch') : batch'[i] = batch[i+1] /\ i + 1 \in 1 .. Len(batch)
  BY <1>1, HeadIsFirst DEF Dispatched
<1>3. ASSUME NEW i \in 1 .. Len(batch)
      PROVE  batch[i].fd \in open /\ batch[i].event # None
  BY <1>1, EntryIsOpen
<1>4. ASSUME NEW i \in 1 .. Len(batch')
      PROVE  batch'[i].fd \in open \ {fd}
  <2>1. batch[i+1].fd # batch[1].fd
    BY <1>1, <1>2 DEF Inv, BatchCurrent
  <2> QED BY <1>1, <1>2, <1>3, <2>1
<1>5. BatchCurrent'
  <2>1. \A i \in 1 .. Len(batch') : mask'[batch'[i].fd] = batch'[i].event
    BY <1>2, <1>4 DEF Inv, BatchCurrent
  <2>2. ASSUME NEW i \in 1 .. Len(batch'), NEW j \in 1 .. Len(batch'),
               batch'[i].fd = batch'[j].fd
        PROVE  i = j
    <3>1. /\ i + 1 \in 1 .. Len(batch) /\ batch'[i] = batch[i+1]
          /\ j + 1 \in 1 .. Len(batch) /\ batch'[j] = batch[j+1]
      BY <1>2
    <3>2. i + 1 = j + 1
      BY <2>2, <3>1 DEF Inv, BatchCurrent
    <3>3. i \in Int /\ j \in Int
      OBVIOUS
    <3> QED BY <3>2, <3>3
  <2> QED BY <2>1, <2>2 DEF BatchCurrent
<1>6. mask[fd] = m /\ fd \in open
  <2>1. 1 \in 1 .. Len(batch)
    BY <1>1
  <2> QED BY <1>1, <1>3, <2>1 DEF Inv, BatchCurrent
<1> QED BY <1>2, <1>5, <1>6

\* Either event loop leaves one watched event for a descriptor it registers.
LEMMA RegisteredWatches ==
  ASSUME Inv, NEW fd \in Fds, NEW m \in {Read, Write}, NEW client, Registered(fd, m, client)
  PROVE  /\ interest' = [interest EXCEPT ![fd] = {m}]
         /\ mask' = [mask EXCEPT ![fd] = m]
         /\ clientData' = [clientData EXCEPT ![fd] = client]
<1>1. interest[fd] = {mask[fd]} \ {None}
  BY DEF Inv, KernelAgrees
<1>2. CASE EpollCtl(fd, m)
  BY <1>2 DEF EpollCtl, Registered
<1>3. CASE KqueueChange(fd, m)
  <2>1. (interest[fd] \ {mask[fd]}) \cup {m} = {m}
    BY <1>1
  <2>2. interest' = [interest EXCEPT ![fd] = (interest[fd] \ {mask[fd]}) \cup {m}]
    BY <1>3 DEF KqueueChange, Inv, TypeOK
  <2> QED BY <2>1, <2>2 DEF Registered
<1> QED BY <1>2, <1>3 DEF Registered

-----------------------------------------------------------------------------
(* The handlers                                                            *)

LEMMA SequenceIsArray ==
  ASSUME NEW S, NEW t \in Seq(S), NEW m, m = Len(t)
  PROVE  t \in [1 .. m -> S]
OBVIOUS

\* An array with one more element at its end.
LEMMA AppendedArray ==
  ASSUME NEW S, NEW n \in Nat, NEW s \in [1 .. n -> S], NEW e \in S
  PROVE  Append(s, e) \in [1 .. n+1 -> S]
<1> DEFINE t == Append(s, e)
           m == n + 1
<1>1. s \in Seq(S) /\ Len(s) = n
  OBVIOUS
<1>2. t \in Seq(S) /\ m = Len(t)
  BY <1>1
<1> HIDE DEF t, m
<1>3. t \in [1 .. m -> S]
  BY <1>2, SequenceIsArray
<1> QED BY <1>3 DEF t, m

LEMMA AppendedElement ==
  ASSUME NEW S, NEW n \in Nat, NEW s \in [1 .. n -> S], NEW e \in S
  PROVE  \A i \in 1 .. n+1 : Append(s, e)[i] = IF i = n + 1 THEN e ELSE s[i]
<1>1. s \in Seq(S) /\ Len(s) = n
  OBVIOUS
<1> QED BY <1>1

LEMMA AcceptInv ==
  ASSUME Inv, HandleAcceptEvent
  PROVE  Inv'
<1> USE DEF None, Read, Write
<1>1. Dispatched(Listener, Read) /\ UNCHANGED backend
  BY DEF HandleAcceptEvent, Dispatched
<1>2. CASE UNCHANGED <<kernel, events, list>>
  <2>1. batch' \in Seq(Ready) /\ BatchCurrent'
    BY <1>1, <1>2, DispatchedBatch, ListenerAssumption DEF events
  <2> QED BY <1>1, <1>2, <2>1
          DEF kernel, events, list, Inv, TypeOK, KernelAgrees, ListenerWaits, Paired, Placed, Client
<1>3. ASSUME NEW fd \in Fds \ open,
             clientCount' = clientCount + 1, Accepted(fd, clientCount + 1)
      PROVE  Inv'
  <2> DEFINE client == clientCount + 1
  <2>1. /\ client \in Nat \ {0} /\ client \notin DOMAIN fdOf /\ mask[fd] = None
        /\ clients \in [1 .. clientCount -> Nat \cup {NULL}] /\ clientCount \in Nat
    BY DEF Inv, TypeOK, KernelAgrees
  <2>2. CASE /\ open' = open \cup {fd}
             /\ Registered(fd, Read, client)
             /\ fdOf' = [c \in DOMAIN fdOf \cup {client} |-> IF c = client THEN fd ELSE fdOf[c]]
             /\ clients' = Append(clients, client)
    <3>1. /\ interest' = [interest EXCEPT ![fd] = {Read}]
          /\ mask' = [mask EXCEPT ![fd] = Read]
          /\ clientData' = [clientData EXCEPT ![fd] = client]
      BY <2>2, RegisteredWatches
    <3>2. batch' \in Seq(Ready) /\ BatchCurrent'
      BY <1>1, <3>1, DispatchedBatch, ListenerAssumption DEF Inv, TypeOK
    <3>3. /\ DOMAIN fdOf' = DOMAIN fdOf \cup {client}
          /\ fdOf'[client] = fd
          /\ \A c \in DOMAIN fdOf : fdOf'[c] = fdOf[c]
          /\ fdOf' \in [DOMAIN fdOf' -> Fds]
      BY <2>1, <2>2 DEF Inv, TypeOK
    <3>4. /\ clients' \in [1 .. clientCount' -> Nat \cup {NULL}]
          /\ clients'[client] = client
          /\ \A i \in 1 .. clientCount : clients'[i] = clients[i]
      <4>1. client \in Nat \cup {NULL}
        BY <2>1
      <4>2. Append(clients, client) \in [1 .. client -> Nat \cup {NULL}]
        BY <2>1, <4>1, AppendedArray
      <4>3. \A i \in 1 .. client : Append(clients, client)[i] = IF i = client THEN client ELSE clients[i]
        BY <2>1, <4>1, AppendedElement
      <4> QED BY <1>3, <2>1, <2>2, <4>2, <4>3
    <3>5. TypeOK'
      BY <1>1, <1>3, <2>1, <2>2, <3>1, <3>2, <3>3, <3>4 DEF Inv, TypeOK
    <3>6. KernelAgrees' /\ ListenerWaits'
      BY <2>1, <2>2, <3>1, ListenerAssumption DEF Inv, TypeOK, KernelAgrees, ListenerWaits
    <3>7. Paired'
      BY <2>1, <2>2, <3>1, <3>3 DEF Inv, TypeOK, ListenerWaits, Paired, Client
    <3>8. Placed'
      <4>1. \A i \in 1 .. clientCount' : i = client \/ i \in 1 .. clientCount
        BY <1>3, <2>1
      <4>2. \A i \in 1 .. clientCount : i # client => (i \in DOMAIN fdOf' <=> i \in DOMAIN fdOf)
        BY <3>3
      <4>3. client \notin 1 .. clientCount
        BY <1>3, <2>1
      <4> QED BY <3>3, <3>4, <4>1, <4>2, <4>3 DEF Inv, Placed
    <3> QED BY <3>2, <3>5, <3>6, <3>7, <3>8 DEF Inv
  <2>3. CASE /\ clients' = Append(clients, NULL)
             /\ UNCHANGED <<kernel, events, fdOf>>
    <3>1. batch' \in Seq(Ready) /\ BatchCurrent'
      BY <1>1, <2>3, DispatchedBatch, ListenerAssumption DEF events
    <3>2. /\ clients' \in [1 .. clientCount' -> Nat \cup {NULL}]
          /\ clients'[client] = NULL
          /\ \A i \in 1 .. clientCount : clients'[i] = clients[i]
      <4>1. NULL \in Nat \cup {NULL}
        BY <2>1
      <4>2. Append(clients, NULL) \in [1 .. client -> Nat \cup {NULL}]
        BY <2>1, <4>1, AppendedArray
      <4>3. \A i \in 1 .. client : Append(clients, NULL)[i] = IF i = client THEN NULL ELSE clients[i]
        BY <2>1, <4>1, AppendedElement
      <4> QED BY <1>3, <2>1, <2>3, <4>2, <4>3
    <3>3. TypeOK'
      BY <1>1, <1>3, <2>1, <2>3, <3>1, <3>2 DEF kernel, events, Inv, TypeOK
    <3>4. KernelAgrees' /\ ListenerWaits' /\ Paired'
      BY <2>3 DEF kernel, events, Inv, KernelAgrees, ListenerWaits, Paired, Client
    <3>5. Placed'
      BY <1>3, <2>1, <2>3, <3>2 DEF Inv, TypeOK, Placed
    <3> QED BY <3>1, <3>3, <3>4, <3>5 DEF Inv
  <2> QED BY <1>3, <2>2, <2>3 DEF Accepted
<1> QED BY <1>2, <1>3 DEF HandleAcceptEvent

\* The handler of a client's descriptor leaves it, registers it again or ends it.
LEMMA HandledInv ==
  ASSUME Inv, NEW fd \in Fds \ {Listener}, NEW m \in {Read, Write}, NEW r \in {Read, Write},
         Dispatched(fd, m),
         \/ UNCHANGED <<kernel, events, list>>
         \/ Registered(fd, r, Client(fd)) /\ UNCHANGED <<open, list>>
         \/ EndConnection(fd)
  PROVE  Inv'
<1> USE DEF None, Read, Write
<1>1. UNCHANGED backend
  BY DEF Dispatched
<1>2. CASE UNCHANGED <<kernel, events, list>>
  <2>1. batch' \in Seq(Ready) /\ BatchCurrent'
    BY <1>2, DispatchedBatch DEF events
  <2> QED BY <1>1, <1>2, <2>1
          DEF kernel, events, list, Inv, TypeOK, KernelAgrees, ListenerWaits, Paired, Placed, Client
<1>3. CASE Registered(fd, r, Client(fd)) /\ UNCHANGED <<open, list>>
  <2>1. /\ interest' = [interest EXCEPT ![fd] = {r}]
        /\ mask' = [mask EXCEPT ![fd] = r]
        /\ clientData' = [clientData EXCEPT ![fd] = Client(fd)]
    BY <1>3, RegisteredWatches
  <2>2. clientData' = clientData
    BY <2>1 DEF Client, Inv, TypeOK
  <2>3. batch' \in Seq(Ready) /\ BatchCurrent' /\ fd \in open
    BY <2>1, DispatchedBatch DEF Inv, TypeOK
  <2>4. TypeOK' /\ KernelAgrees' /\ ListenerWaits'
    BY <1>1, <1>3, <2>1, <2>2, <2>3 DEF list, Inv, TypeOK, KernelAgrees, ListenerWaits
  <2>5. Paired' /\ Placed'
    BY <1>3, <2>2 DEF list, Inv, Paired, Placed, Client
  <2> QED BY <2>3, <2>4, <2>5 DEF Inv
<1>4. CASE EndConnection(fd)
  <2> DEFINE client == Client(fd)
  <2>1. /\ open' = open \ {fd}
        /\ interest' = [interest EXCEPT ![fd] = {}]
        /\ mask' = [mask EXCEPT ![fd] = None]
        /\ clientData' = [clientData EXCEPT ![fd] = NULL]
        /\ fdOf' = [c \in DOMAIN fdOf \ {client} |-> fdOf[c]]
        /\ clients' = [i \in DOMAIN clients |-> IF clients[i] = client THEN NULL ELSE clients[i]]
        /\ clientCount' = clientCount
    BY <1>4 DEF EndConnection, ClosedAndUnregistered, Freed
  <2>2. batch' \in Seq(Ready) /\ BatchCurrent' /\ fd \in open
    BY <2>1, DispatchedBatch DEF Inv, TypeOK
  <2>3. client \in DOMAIN fdOf /\ fdOf[client] = fd
    BY <2>2 DEF Inv, Paired
  <2>4. \A c \in DOMAIN fdOf \ {client} : fdOf[c] # fd
    BY <2>3 DEF Inv, Paired
  <2>5. TypeOK' /\ KernelAgrees' /\ ListenerWaits'
    BY <1>1, <2>1, <2>2 DEF Inv, TypeOK, KernelAgrees, ListenerWaits
  <2>6. Paired'
    BY <2>1, <2>3, <2>4 DEF Inv, TypeOK, Paired, Client
  <2>7. Placed'
    BY <2>1, <2>3, NullAssumption DEF Inv, TypeOK, Placed
  <2> QED BY <2>2, <2>5, <2>6, <2>7 DEF Inv
<1> QED BY <1>2, <1>3, <1>4

LEMMA NextInv ==
  ASSUME Inv, [Next]_vars
  PROVE  Inv'
<1>1. CASE Poll
  BY <1>1, PollInv
<1>2. CASE HandleAcceptEvent
  BY <1>2, AcceptInv
<1>3. ASSUME NEW fd \in Fds, HandleReadEvent(fd)
      PROVE  Inv'
  BY <1>3, HandledInv DEF HandleReadEvent
<1>4. ASSUME NEW fd \in Fds, HandleWriteEvent(fd)
      PROVE  Inv'
  <2>1. Dispatched(fd, Write)
    BY <1>4 DEF HandleWriteEvent
  <2>2. fd # Listener
    <3>1. batch \in Seq(Ready) /\ batch # <<>> /\ Head(batch) = [fd |-> fd, event |-> Write]
      BY <2>1 DEF Inv, TypeOK, Dispatched
    <3>2. 1 \in 1 .. Len(batch) /\ batch[1] = [fd |-> fd, event |-> Write]
      BY <3>1, HeadIsFirst
    <3>3. mask[fd] = Write
      BY <3>2 DEF Inv, BatchCurrent
    <3> QED BY <3>3 DEF Inv, ListenerWaits, Read, Write
  <2> QED BY <1>4, <2>2, HandledInv DEF HandleWriteEvent
<1>5. CASE UNCHANGED vars
  BY <1>5 DEF vars, kernel, events, list, Inv, TypeOK, KernelAgrees, ListenerWaits, Paired, Placed,
              BatchCurrent, Client
<1> QED BY <1>1, <1>2, <1>3, <1>4, <1>5 DEF Next

\* The inductive invariant: table, kernel, list and batch agree on who is connected.
THEOREM Invariance == Spec => []Inv
<1>1. Init => Inv
  BY InitInv
<1>2. Inv /\ [Next]_vars => Inv'
  BY NextInv
<1> QED BY <1>1, <1>2, PTL DEF Spec

\* A registration never meets a stale entry, in the table or in the kernel, of an
\* earlier connection with the same descriptor number.
THEOREM TableIsCurrent == Spec => []KernelAgrees
<1>1. Inv => KernelAgrees
  BY DEF Inv
<1> QED BY <1>1, Invariance, PTL

\* Whatever the handlers of a batch close and accept, those that follow find their
\* own client, allocated.
THEOREM HandlersMeetLiveClients == Spec => []DispatchToLive
<1>1. ASSUME Inv
      PROVE  DispatchToLive
  <2>1. ASSUME NEW i \in DOMAIN batch
        PROVE  mask[batch[i].fd] = batch[i].event /\ batch[i].fd \in open
    BY <1>1, EntryIsOpen DEF Inv, TypeOK
  <2> QED BY <1>1, <2>1 DEF Inv, Paired, DispatchToLive
<1> QED BY <1>1, Invariance, PTL

\* The cron's walk over the list meets every allocated client once and no other.
THEOREM ListIsExact == Spec => []ListHoldsClients
<1>1. ASSUME Inv
      PROVE  ListHoldsClients
  <2>1. /\ DOMAIN clients = 1 .. clientCount
        /\ DOMAIN fdOf \subseteq 1 .. clientCount
        /\ clientCount \in Nat
        /\ \A i \in 1 .. clientCount : clients[i] = IF i \in DOMAIN fdOf THEN i ELSE NULL
    BY <1>1 DEF Inv, TypeOK, Placed
  <2>2. ASSUME NEW c \in DOMAIN fdOf
        PROVE  Cardinality({i \in DOMAIN clients : clients[i] = c}) = 1
    <3>1. {i \in DOMAIN clients : clients[i] = c} = {c}
      BY <2>1, NullAssumption
    <3> QED BY <3>1, FS_Singleton
  <2> QED BY <2>1, <2>2 DEF ListHoldsClients
<1> QED BY <1>1, Invariance, PTL

\* No way out of a handler loses a socket or a client.
THEOREM NothingIsLost == Spec => []NothingLeaks
<1>1. Inv => NothingLeaks
  BY DEF Inv, Paired, NothingLeaks
<1> QED BY <1>1, Invariance, PTL
=============================================================================
