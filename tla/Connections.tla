---------------------------- MODULE Connections ----------------------------
(***************************************************************************)
(* Who owns which file descriptor: the accept handler, the two client      *)
(* handlers, the event loop with its table of events, the set of events    *)
(* the kernel watches, and the server's list of clients.  The event loop   *)
(* exists twice, over epoll and over kqueue; a build has one of them.      *)
(*                                                                         *)
(* A wait returns a batch of ready descriptors; the handlers of a batch    *)
(* run one after the other and may close descriptors, whose numbers the    *)
(* kernel hands out again at the next accept, while later entries of the   *)
(* batch wait.  What a handler reads or writes is left open: each of its   *)
(* ways to end is one disjunct here.                                       *)
(***************************************************************************)
EXTENDS Integers, SequencesExt, FiniteSetsExt

CONSTANTS
  Fds,           \* descriptors of sockets the kernel may give the process
  Listener,      \* descriptor of the listening socket
  MaxClients,    \* bound on the clients created
  NULL

ASSUME FdsAssumption      == IsFiniteSet(Fds)
ASSUME ListenerAssumption == Listener \in Fds
ASSUME NullAssumption     == NULL \notin Nat

VARIABLES
  backend,       \* the event loop of the build
  open,          \* kernel: the descriptors in use
  interest,      \* kernel: descriptor -> the events it is watched for
  mask,          \* eventLoop->events[fd].mask
  clientData,    \* eventLoop->events[fd].clientData
  batch,         \* what the wait returned and is not dispatched yet
  fdOf,          \* allocated clients: client -> client->fd
  clients,       \* server.clients, up to clientCount
  clientCount    \* server.clientCount

kernel == <<open, interest>>
events == <<mask, clientData>>
list == <<fdOf, clients, clientCount>>
vars == <<backend, kernel, events, batch, list>>

None  == "ARCHKE_EVENT_LOOP_NONE_EVENT"
Read  == "ARCHKE_EVENT_LOOP_READ_EVENT"
Write == "ARCHKE_EVENT_LOOP_WRITE_EVENT"

\* The client the handler of descriptor fd works on.
Client(fd) == clientData[fd]

Init ==
  /\ backend \in {"epoll", "kqueue"}
  /\ open = {Listener}
  /\ interest = [fd \in Fds |-> IF fd = Listener THEN {Read} ELSE {}]
  /\ mask = [fd \in Fds |-> IF fd = Listener THEN Read ELSE None]
  /\ clientData = [fd \in Fds |-> NULL]
  /\ batch = <<>>
  /\ fdOf = <<>> /\ clients = <<>> /\ clientCount = 0

-----------------------------------------------------------------------------
(* Pieces of the handlers                                                  *)

\* epoll_ctl as rchkEventLoopRegisterIOEvent calls it: EPOLL_CTL_ADD of a watched
\* descriptor fails, and so does EPOLL_CTL_MOD of one that is not.
EpollCtl(fd, m) ==
  /\ backend = "epoll"
  /\ (mask[fd] = None) <=> (interest[fd] = {})
  /\ interest' = [interest EXCEPT ![fd] = {m}]

\* A slip: the event watched so far is not deleted.
KqueueAdd(fd, m) ==
  /\ backend = "kqueue"
  /\ interest' = [interest EXCEPT ![fd] = @ \cup {m}]

\* With kqueue an event is a filter of its own: EV_DELETE of the one in the table,
\* which fails when the kernel has no such filter, then EV_ADD.
KqueueChange(fd, m) ==
  /\ backend = "kqueue"
  /\ mask[fd] # None => mask[fd] \in interest[fd]
  /\ interest' = [interest EXCEPT ![fd] = (@ \ {mask[fd]}) \cup {m}]

\* rchkEventLoopRegisterIOEvent
Registered(fd, m, client) ==
  /\ EpollCtl(fd, m) \/ KqueueChange(fd, m)
  /\ mask' = [mask EXCEPT ![fd] = m]
  /\ clientData' = [clientData EXCEPT ![fd] = client]

\* A slip: the table of events keeps the descriptor.
OnlyClosed(fd) ==
  /\ open' = open \ {fd}
  /\ interest' = [interest EXCEPT ![fd] = {}]
  /\ UNCHANGED events

\* rchkSocketClose and rchkEventLoopUnregister, in either order: closing a socket
\* removes what the kernel watches it for, and EPOLL_CTL_DEL or EV_DELETE of a
\* closed one only fails.
ClosedAndUnregistered(fd) ==
  /\ open' = open \ {fd}
  /\ interest' = [interest EXCEPT ![fd] = {}]
  /\ mask' = [mask EXCEPT ![fd] = None]
  /\ clientData' = [clientData EXCEPT ![fd] = NULL]

\* A slip: the last client of the list is not looked at.
FreedButLast(client) ==
  /\ fdOf' = [c \in DOMAIN fdOf \ {client} |-> fdOf[c]]
  /\ clients' = [i \in DOMAIN clients |->
                   IF i < clientCount /\ clients[i] = client THEN NULL ELSE clients[i]]
  /\ UNCHANGED clientCount

\* rchkClientFree: the places of the client in the list are cleared.
Freed(client) ==
  /\ fdOf' = [c \in DOMAIN fdOf \ {client} |-> fdOf[c]]
  /\ clients' = [i \in DOMAIN clients |-> IF clients[i] = client THEN NULL ELSE clients[i]]
  /\ UNCHANGED clientCount

\* A slip: the socket of a failed connection is left to the event loop.
FreedNotClosed(fd) == Freed(Client(fd)) /\ UNCHANGED <<kernel, events>>

\* The end of a connection: an error, the client's FIN, or a registration that fails.
\* One over kqueue may fail between EV_DELETE and EV_ADD; the close covers both.
EndConnection(fd) == ClosedAndUnregistered(fd) /\ Freed(Client(fd))

-----------------------------------------------------------------------------
\* epoll_wait or kevent: some of the watched events are ready, in any order.
Poll ==
  /\ batch = <<>>
  /\ \E ready \in SUBSET UNION {{[fd |-> fd, event |-> m] : m \in interest[fd]} : fd \in Fds} :
       batch' \in SetToSeqs(ready)
  /\ UNCHANGED <<backend, kernel, events, list>>

Dispatched(fd, m) ==
  /\ batch # <<>> /\ Head(batch) = [fd |-> fd, event |-> m]
  /\ batch' = Tail(batch)
  /\ UNCHANGED backend

LowestFree(fd) == \A free \in Fds \ open : fd <= free

\* The socket of a new connection is registered with its client, or in vain: then it
\* is closed again, and the client, already in the list, freed.
Accepted(fd, client) ==
  \/ /\ open' = open \cup {fd}
     /\ Registered(fd, Read, client)
     /\ fdOf' = [c \in DOMAIN fdOf \cup {client} |-> IF c = client THEN fd ELSE fdOf[c]]
     /\ clients' = Append(clients, client)
  \/ /\ clients' = Append(clients, NULL)
     /\ UNCHANGED <<kernel, events, fdOf>>

\* rchkHandleAcceptEvent.  The kernel gives the lowest descriptor that is free.
HandleAcceptEvent ==
  /\ Dispatched(Listener, Read)
  /\ \/ UNCHANGED <<kernel, events, list>>       \* accept, fcntl or malloc fails
     \/ /\ clientCount < MaxClients
        /\ clientCount' = clientCount + 1
        /\ \E fd \in Fds \ open : LowestFree(fd) /\ Accepted(fd, clientCount + 1)

\* rchkHandleReadEvent: a request is not complete, or is executed and the write
\* handler registered, or the connection ends.
HandleReadEvent(fd) ==
  /\ Dispatched(fd, Read) /\ fd # Listener
  /\ \/ UNCHANGED <<kernel, events, list>>
     \/ /\ Registered(fd, Write, Client(fd))
        /\ UNCHANGED <<open, list>>
     \/ EndConnection(fd)

\* rchkHandleWriteEvent: a part is written, or everything and the read handler
\* registered, or the connection ends.
HandleWriteEvent(fd) ==
  /\ Dispatched(fd, Write)
  /\ \/ UNCHANGED <<kernel, events, list>>
     \/ /\ Registered(fd, Read, Client(fd))
        /\ UNCHANGED <<open, list>>
     \/ EndConnection(fd)

Next ==
  \/ Poll
  \/ HandleAcceptEvent
  \/ \E fd \in Fds : HandleReadEvent(fd) \/ HandleWriteEvent(fd)

Spec == Init /\ [][Next]_vars

-----------------------------------------------------------------------------
\* The kernel watches exactly the descriptors the table of events holds, for the
\* same single event, and they are open: with either event loop a registration never
\* meets a stale entry of a closed connection whose number was handed out again.
KernelAgrees ==
  /\ \A fd \in Fds : interest[fd] = {mask[fd]} \ {None}
  /\ \A fd \in Fds : mask[fd] # None <=> fd \in open

\* Every entry of a batch that still waits finds its own handler and a client that
\* is allocated and of this descriptor, whatever earlier handlers of the batch
\* closed and accepted.
DispatchToLive ==
  \A i \in DOMAIN batch :
    LET fd == batch[i].fd
    IN /\ mask[fd] = batch[i].event
       /\ fd # Listener => Client(fd) \in DOMAIN fdOf /\ fdOf[Client(fd)] = fd

\* clientCron finds every allocated client once in the list and nothing else: no
\* pointer to a client that was freed.
ListHoldsClients ==
  /\ \A i \in DOMAIN clients : clients[i] # NULL => clients[i] \in DOMAIN fdOf
  /\ \A c \in DOMAIN fdOf : Cardinality({i \in DOMAIN clients : clients[i] = c}) = 1

\* An open descriptor other than the listener belongs to one allocated client: no
\* way out of a handler loses a socket or a client.
NothingLeaks ==
  /\ {fdOf[c] : c \in DOMAIN fdOf} = open \ {Listener}
  /\ \A c, d \in DOMAIN fdOf : fdOf[c] = fdOf[d] => c = d
=============================================================================
