------------------------------ MODULE NetworkStack ------------------------------
(***************************************************************************)
(* net/network_stack.c in three parts that share no state: sockets and the   *)
(* connections they leave behind, TCP streams and their buffers, and the     *)
(* table of addresses (ARP) with its ageing.  Payloads, sequence numbers and *)
(* totals are left out; memory may run out.                                  *)
(***************************************************************************)
EXTENDS Integers, Sequences, FiniteSets, SequencesExt

CONSTANTS
  MaxSockets,      \* MAX_SOCKETS
  MaxConnections,  \* MAX_NETWORK_CONNECTIONS
  MaxConnects,     \* bound on successful calls of net_socket_connect
  MaxStreams,      \* MAX_TCP_STREAMS
  Buffer,          \* the memory buffers are allocated from
  Ip, Mac,         \* addresses
  MaxEntries,      \* MAX_ARP_ENTRIES
  Ttl              \* purges an entry starts with, 600 in the code

VARIABLES
  sockets,         \* states of the sockets; socket_id is the place
  connections,     \* the socket each connection was made by
  connects,        \* history: successful connects of each socket
  missed,          \* history: connects that found the table of connections full
  streams,         \* the streams in use: id and buffers
  allocated,       \* buffers allocated
  spilled,         \* net_tcp_close_stream moved memory behind the table of streams
  entries,         \* the ARP table
  accepted,        \* history: what net_arp_add_entry last accepted for an address
  age              \* history: purges since then, up to Ttl + 1

socketVars == <<sockets, connections, connects, missed>>
streamVars == <<streams, allocated, spilled>>
arpVars == <<entries, accepted, age>>
vars == <<sockets, connections, connects, missed, streams, allocated, spilled, entries, accepted, age>>

Socket == {"CLOSED", "LISTEN", "ESTABLISHED"}
TCPStream == [stream_id : 1..MaxStreams, tx : Buffer, rx : Buffer]
ARPEntry == [ip : Ip, mac : Mac, ttl : 0..Ttl]
NoMac == 0

TypeOK ==
  /\ sockets \in Seq(Socket) /\ Len(sockets) <= MaxSockets
  /\ connections \in Seq(DOMAIN sockets) /\ Len(connections) <= MaxConnections
  /\ connects \in [DOMAIN sockets -> 0..MaxConnects] /\ missed \in 0..MaxConnects
  /\ streams \in Seq(TCPStream) /\ Len(streams) <= MaxStreams
  /\ allocated \subseteq Buffer /\ spilled \in BOOLEAN
  /\ entries \in Seq(ARPEntry) /\ Len(entries) <= MaxEntries
  /\ accepted \in [Ip -> Mac \union {NoMac}] /\ age \in [Ip -> 0..(Ttl + 1)]

Init ==
  /\ sockets = << >> /\ connections = << >> /\ connects = << >> /\ missed = 0
  /\ streams = << >> /\ allocated = {} /\ spilled = FALSE
  /\ entries = << >> /\ accepted = [ip \in Ip |-> NoMac] /\ age = [ip \in Ip |-> Ttl + 1]

-----------------------------------------------------------------------------
(* Sockets *)

net_socket_create ==
  /\ Len(sockets) < MaxSockets
  /\ sockets' = Append(sockets, "CLOSED") /\ connects' = Append(connects, 0)
  /\ UNCHANGED <<connections, missed>>

net_socket_listen(s) ==
  /\ sockets[s] = "CLOSED"
  /\ sockets' = [sockets EXCEPT ![s] = "LISTEN"]
  /\ UNCHANGED <<connections, connects, missed>>

Connects == FoldSeq(LAMBDA n, sum : n + sum, 0, connects)

\* From LISTEN, too.  The socket is ESTABLISHED even if there is no place for
\* its connection.
net_socket_connect(s) ==
  /\ sockets[s] # "ESTABLISHED" /\ Connects < MaxConnects
  /\ sockets' = [sockets EXCEPT ![s] = "ESTABLISHED"]
  /\ connects' = [connects EXCEPT ![s] = @ + 1]
  /\ IF Len(connections) < MaxConnections
     THEN connections' = Append(connections, s) /\ UNCHANGED missed
     ELSE missed' = missed + 1 /\ UNCHANGED connections

\* The connection stays ESTABLISHED in its table.
net_socket_close(s) ==
  /\ sockets' = [sockets EXCEPT ![s] = "CLOSED"]
  /\ UNCHANGED <<connections, connects, missed>>

SocketsNext ==
  /\ \/ net_socket_create
     \/ \E s \in DOMAIN sockets : net_socket_listen(s) \/ net_socket_connect(s) \/ net_socket_close(s)
  /\ UNCHANGED <<streamVars, arpVars>>

-----------------------------------------------------------------------------
(* TCP streams *)

OpenStream(tx, rx) ==
  /\ streams' = Append(streams, [stream_id |-> Len(streams) + 1, tx |-> tx, rx |-> rx])
  /\ allocated' = allocated \union {tx, rx} /\ UNCHANGED spilled

\* The first buffer was allocated and the second was not: it is freed again.
FreeFirst(tx) == tx \notin allocated /\ UNCHANGED <<streams, allocated, spilled>>

net_tcp_open_stream ==
  /\ Len(streams) < MaxStreams
  /\ \/ \E tx, rx \in Buffer \ allocated : tx # rx /\ OpenStream(tx, rx)
     \/ \E tx \in Buffer : FreeFirst(tx)

StreamAt(id) == {i \in DOMAIN streams : streams[i].stream_id = id /\ \A j \in 1..(i - 1) : streams[j].stream_id # id}

Rest(i) == RemoveAt(streams, i)

\* memmove takes count - 1 streams from behind the closed one, wherever it is:
\* with more than MaxStreams in all it reads and writes behind the table.
net_tcp_close_stream(id) ==
  \E i \in StreamAt(id) :
    /\ allocated' = allocated \ {streams[i].tx, streams[i].rx}
    /\ streams' = Rest(i)
    /\ spilled' = (i + Len(streams) - 1 > MaxStreams)

StreamsNext ==
  /\ ~spilled              \* what the program does after that is undefined
  /\ net_tcp_open_stream \/ \E id \in 1..MaxStreams : net_tcp_close_stream(id)
  /\ UNCHANGED <<socketVars, arpVars>>

-----------------------------------------------------------------------------
(* Addresses *)

EntryOf(ip) == {i \in DOMAIN entries : entries[i].ip = ip}

\* A full table refuses a new address of an entry it has, too.
net_arp_add_entry(ip, mac) ==
  /\ Len(entries) < MaxEntries
  /\ entries' = IF EntryOf(ip) = {} THEN Append(entries, [ip |-> ip, mac |-> mac, ttl |-> Ttl])
                ELSE [i \in DOMAIN entries |-> IF i \in EntryOf(ip) THEN [ip |-> ip, mac |-> mac, ttl |-> Ttl] ELSE entries[i]]
  /\ accepted' = [accepted EXCEPT ![ip] = mac] /\ age' = [age EXCEPT ![ip] = 0]

Aged(entry) == [entry EXCEPT !.ttl = @ - 1]
Purged == LET kept == SelectSeq(entries, LAMBDA e : e.ttl > 0) IN [i \in DOMAIN kept |-> Aged(kept[i])]

net_arp_purge_expired ==
  /\ entries' = Purged
  /\ age' = [ip \in Ip |-> IF age[ip] <= Ttl THEN age[ip] + 1 ELSE age[ip]]
  /\ UNCHANGED accepted

ArpNext ==
  /\ (\E ip \in Ip, mac \in Mac : net_arp_add_entry(ip, mac)) \/ net_arp_purge_expired
  /\ UNCHANGED <<socketVars, streamVars>>

SocketsSpec == Init /\ [][SocketsNext]_vars
StreamsSpec == Init /\ [][StreamsNext]_vars
ArpSpec == Init /\ [][ArpNext]_vars

-----------------------------------------------------------------------------

\* Every connect is found in the table of connections, closed or not, except the
\* ones that came when it was full: the ESTABLISHED sockets never outnumber what
\* the table and the missed connects explain (net_socket_connect, net_socket_close).
ConnectionsRemembered ==
  /\ Len(connections) + missed = Connects
  /\ missed > 0 => Len(connections) = MaxConnections
  /\ \A s \in DOMAIN sockets : sockets[s] = "ESTABLISHED" => connects[s] > 0

\* Until memory behind the table is moved, every stream in use has two buffers of
\* its own, and every buffer allocated belongs to a stream in use: none is freed
\* under a stream, freed twice or lost, however streams whose ids repeat are
\* closed and whatever allocation fails (net_tcp_open_stream, net_tcp_close_stream).
BuffersOwned ==
  ~spilled =>
    /\ allocated = UNION {{streams[i].tx, streams[i].rx} : i \in DOMAIN streams}
    /\ Cardinality(allocated) = 2 * Len(streams)

\* The table knows an address exactly as long as Ttl + 1 purges after the last
\* call of net_arp_add_entry it accepted, and then gives what that call said.
ArpFollowsAdds ==
  \A ip \in Ip :
    /\ EntryOf(ip) # {} <=> age[ip] <= Ttl
    /\ Cardinality(EntryOf(ip)) <= 1
    /\ \A i \in EntryOf(ip) : entries[i].mac = accepted[ip] /\ entries[i].ttl = Ttl - age[ip]
=============================================================================
