----------------------------- MODULE VmeRunner ------------------------------
(***************************************************************************)
(* The runner of a Fortanix VME enclave (fortanix-vme-runner/src/lib.rs):  *)
(* it makes and accepts TCP connections for an enclave in a VM, and copies *)
(* their data from and to vsock connections (proxy).                       *)
(*                                                                         *)
(* Every request of the enclave has a thread of its own (Handlers), and so *)
(* has every connection.  They share the tables `listeners' and            *)
(* `connections', and the mutex of each listener, which accept holds while *)
(* it waits for a remote party.                                            *)
(*                                                                         *)
(* The enclave and the remote parties are external: they connect, send and *)
(* end at any time or never.  A connection is known by its key, the two    *)
(* vsock addresses, which the system does not give to two open connections *)
(* at a time.                                                              *)
(***************************************************************************)
EXTENDS Integers, FiniteSets

CONSTANTS
    Handlers,   \* bound: requests handled at the same time
    Ports,      \* ports at which the enclave listens
    Addrs,      \* addresses in the parent VM that can be bound
    Keys,       \* keys of connections
    MaxData,    \* bound: blocks of data sent in each direction of a connection
    NoListener

ASSUME VmeBounds == IsFiniteSet(Handlers) /\ IsFiniteSet(Ports) /\ MaxData \in Nat

VARIABLES
    handler,        \* what each thread of a request does
    listeners,      \* Server::listeners: the Listener of each port
    listener,       \* the Listeners that live: address, and state of the mutex
    connections,    \* Server::connections
    proxy,          \* the thread of each connection and its sockets
    poisoned,       \* whether a thread has panicked with `connections' locked
    leaked          \* entries that no thread is going to remove

tables == <<listeners, listener, connections, poisoned>>
vars == <<handler, tables, proxy, leaked>>

Sides == {"remote", "enclave"}
Other(s) == IF s = "remote" THEN "enclave" ELSE "remote"

\* Enough for every port and every thread to have one.
Lids == 1 .. Cardinality(Ports) + Cardinality(Handlers)

(***************************************************************************)
(* The requests of fortanix-vme-abi.  Info has the port of a listener, or  *)
(* the key of a connection.                                                *)
(***************************************************************************)
Request ==
    [op : {"Connect"}] \union [op : {"Bind"}, port : Ports, addr : Addrs]
    \union [op : {"Accept", "Close", "Info"}, port : Ports]
    \union [op : {"Info"}, key : Keys]

Idle == [pc |-> "idle"]
At(pc, req) == [pc |-> pc, req |-> req]

NoSocket == [thread |-> "none", outcome |-> "none"]
Fresh == [thread |-> "run", golden |-> Sides, ready |-> {},
          sent |-> [s \in Sides |-> 0], relayed |-> [s \in Sides |-> 0],
          fin |-> {}, outcome |-> "open"]
\* A thread that failed: what was under way is lost.
Broken(at) == [thread |-> at, outcome |-> "failed"]

Init ==
    /\ handler = [h \in Handlers |-> Idle]
    /\ listeners = [p \in Ports |-> NoListener]
    /\ listener = [l \in Lids |-> NoListener]
    /\ connections = {}
    /\ poisoned = FALSE
    /\ proxy = [k \in Keys |-> NoSocket]
    /\ leaked = {}

(***************************************************************************)
(* A Listener, and so its TCP socket, lives while an Arc of it does: in    *)
(* the table, or in a thread that has looked it up.  What is left of the   *)
(* Listeners when the table and the threads are as given.                  *)
(***************************************************************************)
Alive(ls, table, threads) ==
    [l \in Lids |->
        IF \/ \E p \in Ports : table[p] = l
           \/ \E h \in Handlers : "lid" \in DOMAIN threads[h] /\ threads[h].lid = l
        THEN ls[l] ELSE NoListener]

\* The sockets of a connection are open until its thread has dropped them.
InUse(k) == proxy[k].thread # "none"

Goto(h, pc) == handler' = [handler EXCEPT ![h].pc = pc]
End(h) == handler' = [handler EXCEPT ![h] = Idle]

-----------------------------------------------------------------------------
\* start_command_server: a connection of the enclave gets a thread, which reads
\* one request.  If that fails, the connection is shut down and nothing done.
ReadRequest(h, req) ==
    /\ handler[h] = Idle
    /\ handler' = [handler EXCEPT ![h] = At("start", req)]
    /\ UNCHANGED <<tables, proxy, leaked>>

Requested(h, op) == handler[h].pc = "start" /\ handler[h].req.op = op

(***************************************************************************)
(* add_connection, the last thing that a thread h does.  The thread of a   *)
(* connection may not start: the entry stays in the table, and the sockets *)
(* are closed.  It panics if the table is poisoned, or in info() with the  *)
(* table locked, because the remote party has gone and has no address.     *)
(***************************************************************************)
\* The Listener that h has locked, if any, when h ends: a panic poisons it.
Unlocked(h, panics) ==
    IF "lid" \in DOMAIN handler[h]
    THEN [listener EXCEPT ![handler[h].lid].owner = "none",
                          ![handler[h].lid].poisoned = @ \/ panics]
    ELSE listener

AddConnection(h, k) ==
    /\ ~InUse(k)
    /\ End(h)
    /\ \/ /\ ~poisoned
          /\ connections' = connections \union {k}
          /\ \/ proxy' = [proxy EXCEPT ![k] = Fresh] /\ leaked' = leaked \ {k}
             \/ leaked' = leaked \union {k} /\ UNCHANGED proxy
          /\ listener' = Alive(Unlocked(h, FALSE), listeners, handler')
          /\ UNCHANGED <<listeners, poisoned>>
       \/ /\ poisoned' = TRUE
          /\ listener' = Alive(Unlocked(h, TRUE), listeners, handler')
          /\ UNCHANGED <<listeners, connections, proxy, leaked>>

(***************************************************************************)
(* handle_request_connect                                                  *)
(***************************************************************************)
\* The remote party is connected, or cannot be; the enclave is told the port
\* where the proxy listens.
Connect(h) ==
    /\ Requested(h, "Connect")
    /\ End(h) \/ Goto(h, "await")
    /\ UNCHANGED <<tables, proxy, leaked>>

\* The enclave connects to the proxy, which can take for ever; or accept fails.
EnclaveConnects(h, k) ==
    /\ handler[h].pc = "await"
    /\ \/ End(h) /\ UNCHANGED <<tables, proxy, leaked>>
       \/ AddConnection(h, k)

(***************************************************************************)
(* handle_request_bind.  A Listener that was bound for the port before is  *)
(* replaced.                                                               *)
(***************************************************************************)
Bind(h) ==
    /\ Requested(h, "Bind")
    /\ \/ UNCHANGED <<listeners, listener>>
       \/ LET l == CHOOSE l \in Lids : listener[l] = NoListener
              new == [addr |-> handler[h].req.addr, owner |-> "none", poisoned |-> FALSE]
          IN  /\ \A m \in Lids : listener[m] # NoListener => listener[m].addr # new.addr
              /\ listeners' = [listeners EXCEPT ![handler[h].req.port] = l]
              /\ listener' = Alive([listener EXCEPT ![l] = new], listeners', handler)
    /\ End(h)
    /\ UNCHANGED <<connections, poisoned, proxy, leaked>>

(***************************************************************************)
(* handle_request_accept and handle_request_info                           *)
(***************************************************************************)
\* The Listener is looked up, and cloned out of the table.
Lookup(h, op) ==
    /\ Requested(h, op)
    /\ "port" \in DOMAIN handler[h].req
    /\ LET l == listeners[handler[h].req.port]
       IN  IF l = NoListener THEN End(h)
           ELSE handler' = [handler EXCEPT ![h] = [pc |-> "lock", op |-> op, lid |-> l]]
    /\ UNCHANGED <<tables, proxy, leaked>>

\* lock().unwrap(): a poisoned mutex panics.  Info answers and unlocks at once.
Lock(h) ==
    /\ handler[h].pc = "lock"
    /\ listener[handler[h].lid].owner = "none"
    /\ IF listener[handler[h].lid].poisoned \/ handler[h].op = "Info"
       THEN End(h) /\ listener' = Alive(listener, listeners, handler')
       ELSE Goto(h, "accepting") /\ listener' = [listener EXCEPT ![handler[h].lid].owner = h]
    /\ UNCHANGED <<listeners, connections, poisoned, proxy, leaked>>

\* A remote party connects, the enclave is told and connected to; or accept or
\* the vsock fails, or the answer cannot be sent; or the enclave cannot be
\* connected to, and unwrap panics.
RemoteConnects(h, k) ==
    /\ handler[h].pc = "accepting"
    /\ \/ \E panics \in BOOLEAN :
             /\ End(h)
             /\ listener' = Alive(Unlocked(h, panics), listeners, handler')
             /\ UNCHANGED <<listeners, connections, poisoned, proxy, leaked>>
       \/ AddConnection(h, k)

\* Info of a connection reads the table and no lock of a listener.
InfoConnection(h) ==
    /\ Requested(h, "Info")
    /\ "key" \in DOMAIN handler[h].req
    /\ End(h)
    /\ UNCHANGED <<tables, proxy, leaked>>

\* Mutant: the Listener is locked before it is dropped.
CloseLocked(h) ==
    /\ Requested(h, "Close")
    /\ LET l == listeners[handler[h].req.port] IN l # NoListener => listener[l].owner = "none"
    /\ listeners' = [listeners EXCEPT ![handler[h].req.port] = NoListener]
    /\ End(h)
    /\ listener' = Alive(listener, listeners', handler)
    /\ UNCHANGED <<connections, poisoned, proxy, leaked>>
\* handle_request_close
Close(h) ==
    /\ Requested(h, "Close")
    /\ listeners' = [listeners EXCEPT ![handler[h].req.port] = NoListener]
    /\ End(h)
    /\ listener' = Alive(listener, listeners', handler)
    /\ UNCHANGED <<connections, poisoned, proxy, leaked>>

-----------------------------------------------------------------------------
(***************************************************************************)
(* Connection::proxy.  The thread of a connection waits in select or reads *)
(* (run), or is in write_all of the block it has read (write); it has left *)
(* the loop (ended), and drops the sockets (drop).                         *)
(***************************************************************************)
Live(k) == proxy[k].thread \in {"run", "write"}
Readable(k, s) == proxy[k].sent[s] > proxy[k].relayed[s] \/ s \in proxy[k].fin

\* select waits for a side that can be read.
Select(k) ==
    /\ proxy[k].thread = "run" /\ proxy[k].ready = {}
    /\ LET readable == {s \in proxy[k].golden : Readable(k, s)}
       IN  readable # {} /\ proxy' = [proxy EXCEPT ![k].ready = readable]
    /\ UNCHANGED <<handler, tables, leaked>>

\* The remote side is read first.
Turn(k) == IF "remote" \in proxy[k].ready THEN "remote" ELSE "enclave"
Reads(k) == proxy[k].thread = "run" /\ proxy[k].ready # {}
HasData(k) == proxy[k].sent[Turn(k)] > proxy[k].relayed[Turn(k)]

\* transfer_data: a block is read, and logged.
ReadBlock(k) ==
    /\ Reads(k) /\ HasData(k)
    /\ proxy' = [proxy EXCEPT ![k].thread = "write"]
    /\ UNCHANGED <<handler, tables, leaked>>

\* log_communication cuts a text at byte 80, and panics if that is in the middle
\* of a character: the block is lost, and the thread unwinds without its entry
\* being removed.
LogPanics(k) ==
    /\ Reads(k) /\ HasData(k)
    /\ proxy' = [proxy EXCEPT ![k] = Broken("drop")]
    /\ leaked' = leaked \union {k}
    /\ UNCHANGED <<handler, tables>>

\* write_all returns when the other side has taken the block.  Nothing else is
\* done for the connection in the meantime.
WriteBlock(k) ==
    /\ proxy[k].thread = "write"
    /\ proxy' = [proxy EXCEPT ![k].thread = "run", ![k].relayed[Turn(k)] = @ + 1,
                              ![k].ready = @ \ {Turn(k)}]
    /\ UNCHANGED <<handler, tables, leaked>>

\* Mutant: a side that ended ends the other direction too.
ShutdownBoth(k) ==
    /\ Reads(k) /\ ~HasData(k)
    /\ proxy' = [proxy EXCEPT ![k].golden = {}, ![k].ready = {}]
    /\ UNCHANGED <<handler, tables, leaked>>
\* Mutant: a side that ended is still waited for.
ShutdownKeeps(k) ==
    /\ Reads(k) /\ ~HasData(k)
    /\ proxy' = [proxy EXCEPT ![k].ready = @ \ {Turn(k)}]
    /\ UNCHANGED <<handler, tables, leaked>>
\* transfer_data of nothing: the end is passed on, and the side not read again.
PassEnd(k) ==
    /\ Reads(k) /\ ~HasData(k)
    /\ proxy' = [proxy EXCEPT ![k].golden = @ \ {Turn(k)}, ![k].ready = @ \ {Turn(k)}]
    /\ UNCHANGED <<handler, tables, leaked>>

\* Both sides have ended.  ready is empty: the loop looks at golden_set only when
\* both sides had their turn.
ProxyEnds(k) ==
    /\ proxy[k].thread = "run" /\ proxy[k].ready = {} /\ proxy[k].golden = {}
    /\ proxy' = [proxy EXCEPT ![k].thread = "ended", ![k].outcome = "ok"]
    /\ UNCHANGED <<handler, tables, leaked>>
\* A party breaks the connection: a read, write or shutdown fails.
ProxyFails(k) ==
    /\ Live(k)
    /\ proxy' = [proxy EXCEPT ![k] = Broken("ended")]
    /\ UNCHANGED <<handler, tables, leaked>>

\* Mutant: the sockets are dropped, and then the entry is removed.
RemoveLate(k) ==
    /\ proxy[k].thread \in {"ended", "none"}
    /\ IF proxy[k].thread = "ended"
       THEN proxy' = [proxy EXCEPT ![k] = NoSocket] /\ UNCHANGED connections
       ELSE connections' = connections \ {k} /\ UNCHANGED proxy
    /\ UNCHANGED <<handler, listeners, listener, poisoned, leaked>>
\* The thread removes the entry, or panics for the poisoned lock; and then drops
\* the sockets.
Remove(k) ==
    /\ proxy[k].thread = "ended"
    /\ connections' = IF poisoned THEN connections ELSE connections \ {k}
    /\ leaked' = IF poisoned THEN leaked \union {k} ELSE leaked
    /\ proxy' = [proxy EXCEPT ![k].thread = "drop"]
    /\ UNCHANGED <<handler, listeners, listener, poisoned>>
DropConnection(k) ==
    /\ proxy[k].thread = "drop"
    /\ proxy' = [proxy EXCEPT ![k] = NoSocket]
    /\ UNCHANGED <<handler, tables, leaked>>

\* What a party of the connection does: it sends, or ends its direction.
Party(k, s) ==
    /\ Live(k) /\ s \notin proxy[k].fin
    /\ \/ /\ proxy[k].sent[s] < MaxData
          /\ proxy' = [proxy EXCEPT ![k].sent[s] = @ + 1]
       \/ proxy' = [proxy EXCEPT ![k].fin = @ \union {s}]
    /\ UNCHANGED <<handler, tables, leaked>>

-----------------------------------------------------------------------------
\* Steps of a handler that wait for nobody, or for a mutex.
HandlerStep(h) ==
    \/ Connect(h) \/ Bind(h) \/ Lookup(h, "Accept") \/ Lookup(h, "Info") \/ Lock(h)
    \/ InfoConnection(h) \/ Close(h)
ProxyStep(k) ==
    \/ Select(k) \/ ReadBlock(k) \/ LogPanics(k) \/ PassEnd(k)
    \/ ProxyEnds(k) \/ Remove(k) \/ DropConnection(k)

Next ==
    \/ \E h \in Handlers :
        \/ HandlerStep(h)
        \/ \E req \in Request : ReadRequest(h, req)
        \/ \E k \in Keys : EnclaveConnects(h, k) \/ RemoteConnects(h, k)
    \/ \E k \in Keys :
        \/ ProxyStep(k) \/ WriteBlock(k) \/ ProxyFails(k)
        \/ \E s \in Sides : Party(k, s)

Spec == Init /\ [][Next]_vars

(***************************************************************************)
(* Threads are scheduled.  Beyond that, both parties of a connection take  *)
(* what they are sent: the proxy relies on it, for write_all has no        *)
(* timeout.  Nobody has to connect, to send or to end.                     *)
(***************************************************************************)
Scheduled ==
    /\ \A h \in Handlers : WF_vars(HandlerStep(h))
    /\ \A k \in Keys : WF_vars(ProxyStep(k))
PartiesRead == \A k \in Keys : WF_vars(WriteBlock(k))

FairSpec == Spec /\ Scheduled /\ PartiesRead

-----------------------------------------------------------------------------
\* The table has an entry exactly for the connections that have a thread: Info
\* answers for a connection as long as its thread copies data, and not for one
\* whose sockets are closed, also when the system gives the addresses of a closed
\* connection to a new one at once (lib.rs:344-355).  An entry is left behind
\* (leaked) in three cases only: the thread could not be started, it panicked
\* when it logged a block (lib.rs:204), or it found the table poisoned at its end.
ConnectionsExact ==
    \A k \in Keys :
        k \in connections <=> proxy[k].thread \in {"run", "write", "ended"} \/ k \in leaked

\* An end of a direction is passed on after all its data, and each direction by
\* itself: the thread stops reading a side only when that side has ended and
\* nothing of it is left (lib.rs:132-153), and this is still so of both sides when
\* the thread has left its loop without an error.
NothingCutOff ==
    \A k \in Keys : proxy[k].outcome \in {"open", "ok"} =>
        \A s \in Sides \ proxy[k].golden :
            s \in proxy[k].fin /\ proxy[k].relayed[s] = proxy[k].sent[s]

\* A thread of a request that does not need anybody else ends, also while an
\* accept holds the lock of the same listener for ever (lib.rs:433-453).
NotBlocked ==
    LET h == CHOOSE h \in Handlers : TRUE      \* one stands for all
    IN  (handler[h].pc = "start" /\ handler[h].req.op \in {"Bind", "Close"}) ~> handler[h] = Idle

\* When both parties have ended their direction, and take what they are sent, the
\* thread comes to its end and closes the sockets (lib.rs:132-153, 349-354).  By
\* then everything is delivered, unless the connection broke or logging panicked;
\* and the entry is gone, unless it is one of those left behind.
ConnectionEnds ==
    \A k \in Keys :
        (Live(k) /\ proxy[k].fin = Sides)
            ~> /\ proxy[k].thread = "drop"
               /\ proxy[k].outcome = "ok" => proxy[k].relayed = proxy[k].sent
               /\ k \in connections => k \in leaked
=============================================================================
