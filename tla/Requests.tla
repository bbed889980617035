------------------------------ MODULE Requests ------------------------------
(***************************************************************************)
(* The way of a request through redapid (network.c, brickd.c, api.c): the  *)
(* Brick Daemon connects to the server socket, its packets arrive in       *)
(* pieces, brickd_handle_read() puts them together in the buffer of one    *)
(* packet, api_handle_request() runs the function and dispatches the       *)
(* response, and a lost connection is removed at the end of the round of   *)
(* the event loop in which it was noticed.                                 *)
(*                                                                         *)
(* Bytes are units <<n, i>>: unit i of request number n of the connection. *)
(* The event loop itself belongs to daemonlib and is modelled from how     *)
(* redapid uses it: one round polls, calls the handlers of all ready       *)
(* sources in some order and ends with the cleanup function main.c gives.  *)
(***************************************************************************)
EXTENDS Naturals, Sequences, SequencesExt

CONSTANTS
  Request,        \* [call, mine, valid, sized, expected, tells, needs, length]
  HeaderSize,     \* units of a packet header
  BufferSize,     \* units of the packet buffer, the longest packet
  MaxSent,        \* bound: requests of one connection
  MaxCallbacks,   \* bound: after so many callbacks no event of its own sends one
  MaxBurst        \* bound: callbacks sent inside one handler

ASSUME SizesAssumption ==
  /\ {HeaderSize, BufferSize, MaxSent, MaxCallbacks, MaxBurst} \subseteq Nat
  /\ 0 < HeaderSize /\ HeaderSize < BufferSize

\* packet_header_is_valid_request() accepts only lengths that fit.
ASSUME RequestAssumption ==
  \A r \in Request :
    /\ r.call \in {"function", "procedure", "async", "unknown"}
    /\ {r.mine, r.valid, r.sized, r.expected, r.tells} \subseteq BOOLEAN
    /\ r.needs \subseteq {"object", "session"}
    /\ r.length \in Nat /\ r.length >= HeaderSize
    /\ r.valid => r.length <= BufferSize

VARIABLES
  pc,             \* "poll", "round" (handlers are called) or "loop" (in brickd_handle_read)
  ready,          \* sources whose handlers this round still has to call
  connected,      \* _brickd_connected
  disconnected,   \* brickd->disconnected
  buffer,         \* the first request_used units of brickd->request
  checked,        \* brickd->request_header_checked
  wire,           \* units of the connection that are not received yet
  peerOpen,       \* the Brick Daemon holds its end of that connection
  backlog,        \* a Brick Daemon waits in the server socket to be accepted
  torn,           \* the Brick Daemon died within the last request it sent
  orphan,         \* an accepted socket that nobody serves or closes
  sent, served, ran, out   \* see RequestService

loopVars  == <<pc, ready>>
linkVars  == <<connected, disconnected>>
inputVars == <<buffer, checked>>
peerVars  == <<wire, peerOpen, torn, backlog, orphan>>
callVars  == <<sent, served, ran, out>>
vars == <<loopVars, linkVars, inputVars, peerVars, callVars>>

Init ==
  /\ pc = "poll" /\ ready = {}
  /\ connected = FALSE /\ disconnected = FALSE
  /\ buffer = <<>> /\ checked = FALSE
  /\ wire = <<>> /\ peerOpen = FALSE /\ torn = FALSE /\ backlog = FALSE /\ orphan = FALSE
  /\ sent = <<>> /\ served = 0 /\ ran = {} /\ out = <<>>

Units(n, k) == [i \in 1..k |-> <<n, i>>]

Serving == connected /\ ~ disconnected

-----------------------------------------------------------------------------
(* Packets for the Brick Daemon *)

\* For request n of the connection, or (n = 0) for none of them.
Packet(n, kind, code) == [to |-> n, kind |-> kind, code |-> code, lost |-> FALSE]

Notes(k) == [i \in 1..k |-> Packet(0, "callback", "success")]

Written(packets, lost) == [i \in DOMAIN packets |-> [packets[i] EXCEPT !.lost = i \in lost]]

\* network_dispatch_response() for each packet of a sequence, to a connection
\* that is not disconnected and took the packets "before".  The writer may fail
\* to take a packet and go on with the next one, or find that the connection
\* is lost and disconnect it, which then takes nothing more.
dispatch_response(before, packets) ==
  \E lost \in SUBSET (1..Len(packets)) :
    /\ out' = before \o Written(packets, lost)
    /\ disconnected' \in {FALSE, Len(packets) \in lost}

-----------------------------------------------------------------------------
(* The Brick Daemon. *)

\* It tries again only when its connection is closed.
PeerConnects ==
  /\ ~ backlog /\ ~ peerOpen /\ ~ orphan
  /\ backlog' = TRUE
  /\ UNCHANGED <<loopVars, linkVars, inputVars, wire, peerOpen, torn, orphan, callVars>>

\* It writes a request, or dies within it.
PeerSends(r, k) ==
  /\ peerOpen /\ Len(sent) < MaxSent
  /\ sent' = Append(sent, r)
  /\ wire' = wire \o Units(Len(sent'), k)
  /\ peerOpen' = (k = r.length) /\ torn' = (k < r.length)
  /\ UNCHANGED <<loopVars, linkVars, inputVars, backlog, orphan, served, ran, out>>

PeerCloses ==
  /\ peerOpen
  /\ peerOpen' = FALSE
  /\ UNCHANGED <<loopVars, linkVars, inputVars, wire, torn, backlog, orphan, callVars>>

\* It gives up a connection that is never served; redapid keeps the socket.
PeerAbandons ==
  /\ orphan
  /\ orphan' = FALSE
  /\ UNCHANGED <<loopVars, linkVars, inputVars, wire, peerOpen, torn, backlog, callVars>>

-----------------------------------------------------------------------------
(* The event loop. *)

ReadyNow == (IF backlog THEN {"server"} ELSE {})
            \cup (IF connected /\ (wire # <<>> \/ ~ peerOpen) THEN {"brickd"} ELSE {})

\* Other sources (timers, files, the state pipes of processes) may be ready too.
Poll ==
  /\ pc = "poll"
  /\ ready' \in {ReadyNow, ReadyNow \cup {"other"}}
  /\ ready' # {}
  /\ pc' = "round"
  /\ UNCHANGED <<linkVars, inputVars, peerVars, callVars>>

Called(source) == pc = "round" /\ source \in ready /\ ready' = ready \ {source}

\* Faulty: the flag is not reset with the connection.
CleanupKeepsFlag ==
  /\ pc = "round" /\ ready = {}
  /\ pc' = "poll"
  /\ UNCHANGED <<ready, linkVars, inputVars, peerVars, callVars>>

\* network_cleanup_brickd_and_socats(), at the end of every round.
Cleanup ==
  /\ pc = "round" /\ ready = {}
  /\ pc' = "poll"
  /\ connected' = Serving
  /\ IF connected /\ disconnected
     THEN peerOpen' = FALSE /\ wire' = <<>>   \* brickd_destroy() closes the socket
     ELSE UNCHANGED <<peerOpen, wire>>
  /\ UNCHANGED <<ready, disconnected, inputVars, torn, backlog, orphan, callVars>>

-----------------------------------------------------------------------------
(* network_handle_brickd_accept() *)

Refuse ==
  /\ Called("server") /\ connected
  /\ backlog' = FALSE
  /\ UNCHANGED <<pc, linkVars, inputVars, wire, peerOpen, torn, orphan, callVars>>

\* But for "disconnected", which is set to FALSE.
brickd_create ==
  /\ buffer' = <<>>
  /\ checked' = FALSE

\* Then each program whose scheduler waits for the Brick Daemon is told, and may
\* send callbacks at once.
Accept ==
  /\ Called("server") /\ ~ connected
  /\ backlog' = FALSE
  /\ brickd_create
  /\ connected' = TRUE
  /\ peerOpen' = TRUE /\ torn' = FALSE /\ wire' = <<>>
  /\ sent' = <<>> /\ served' = 0 /\ ran' = {}
  /\ \E k \in 0..MaxBurst : dispatch_response(<<>>, Notes(k))
  /\ UNCHANGED <<pc, orphan>>

\* brickd_create() fails (no memory for the writer, event_add_source()): the
\* function returns without closing the socket it accepted.
AcceptFails ==
  /\ Called("server") /\ ~ connected
  /\ backlog' = FALSE
  /\ disconnected' = FALSE
  /\ brickd_create
  /\ orphan' = TRUE
  /\ UNCHANGED <<pc, connected, wire, peerOpen, torn, callVars>>

\* socket_accept() is interrupted: the connection stays in the server socket.
AcceptInterrupted ==
  /\ Called("server")
  /\ UNCHANGED <<pc, linkVars, inputVars, peerVars, callVars>>

-----------------------------------------------------------------------------
(* brickd_handle_read() *)

Space == BufferSize - Len(buffer)

\* Nothing to read although the source was ready; or an interrupted call.
ReadNothing ==
  /\ Called("brickd")
  /\ UNCHANGED <<pc, linkVars, inputVars, peerVars, callVars>>

\* The end of the stream, which is also what a read into no space looks
\* like, or an error of the socket.
ReadEnds ==
  /\ Called("brickd")
  /\ disconnected' = TRUE
  /\ UNCHANGED <<pc, connected, inputVars, peerVars, callVars>>

ReadUnits ==
  /\ Called("brickd")
  /\ \E k \in 1..Len(wire) :
       /\ k <= Space
       /\ buffer' = buffer \o SubSeq(wire, 1, k)
       /\ wire' = SubSeq(wire, k + 1, Len(wire))
  /\ pc' = "loop"
  /\ UNCHANGED <<linkVars, checked, peerOpen, torn, backlog, orphan, callVars>>

\* The request whose header lies at the start of the buffer.
Current == buffer[1][1]
Header  == sent[Current]

\* A header must be complete and is checked once.
HeaderComplete == Len(buffer) >= HeaderSize
HeaderAccepted == checked \/ Header.valid
PacketComplete == HeaderComplete /\ HeaderAccepted /\ Len(buffer) >= Header.length

LoopEnds ==
  /\ pc = "loop"
  /\ disconnected \/ ~ HeaderComplete
  /\ pc' = "round"
  /\ UNCHANGED <<ready, linkVars, inputVars, peerVars, callVars>>

RejectHeader ==
  /\ pc = "loop" /\ ~ disconnected /\ HeaderComplete /\ ~ HeaderAccepted
  /\ disconnected' = TRUE
  /\ pc' = "round"
  /\ UNCHANGED <<ready, connected, inputVars, peerVars, callVars>>

AwaitRest ==
  /\ pc = "loop" /\ ~ disconnected /\ HeaderComplete /\ HeaderAccepted /\ ~ PacketComplete
  /\ checked' = TRUE
  /\ pc' = "round"
  /\ UNCHANGED <<ready, linkVars, buffer, peerVars, callVars>>

\* Faulty: the next header counts as checked.
NextPacketStaysChecked ==
  /\ buffer' = SubSeq(buffer, Header.length + 1, Len(buffer))
  /\ checked' = TRUE

\* The memmove() and what follows it.
NextPacket ==
  /\ buffer' = SubSeq(buffer, Header.length + 1, Len(buffer))
  /\ checked' = FALSE

DropForeign ==
  /\ pc = "loop" /\ ~ disconnected /\ PacketComplete /\ ~ Header.mine
  /\ NextPacket
  /\ served' = Current
  /\ UNCHANGED <<loopVars, linkVars, peerVars, sent, ran, out>>

-----------------------------------------------------------------------------
(* api_handle_request() and the functions it dispatches to *)

\* Faulty: the flag of the request is not looked at.
ResponseAlways(r, n, code) == <<Packet(n, "response", code)>>

api_send_response_if_expected(r, n, code) ==
  IF r.expected THEN <<Packet(n, "response", code)>> ELSE <<>>

api_get_packet_error_code ==
  [code \in {"unknown_object", "unknown_session"} |->
     IF code = "unknown_object" THEN "invalid_parameter" ELSE "unknown_error"]

\* inventory_get_object() for the object a call is about, then
\* inventory_get_session() for its session.
LookupErrors(r) == (IF "object" \in r.needs THEN {"unknown_object"} ELSE {})
                   \cup (IF "session" \in r.needs THEN {"unknown_session"} ELSE {})

\* The packets of a call whose lookup failed: the error handler of an
\* asynchronous file operation sends its callback before the response.
PacketsOfFailedLookup(r, n, error) ==
  IF r.call = "function" THEN <<Packet(n, "response", error)>>
  ELSE (IF r.call = "async" THEN <<Packet(n, "callback", error)>> ELSE <<>>)
       \o api_send_response_if_expected(r, n, api_get_packet_error_code[error])

\* The possible packets of a call that is executed.  An asynchronous file
\* operation sends its callback at once when it cannot wait for the file.
\* Functions of programs tell of the schedule, of its errors and of spawned
\* processes, and the abort of an asynchronous read tells its end, before they
\* return and the response is sent.
PacketsOfBody(r, n, result) ==
  LET response == IF r.call = "function" THEN <<Packet(n, "response", result)>>
                  ELSE api_send_response_if_expected(r, n, result)
      told     == {<<>>} \cup (IF r.call = "async" THEN {<<Packet(n, "callback", result)>>} ELSE {})
                         \cup (IF r.tells THEN {Notes(k) : k \in 0..MaxBurst} ELSE {})
  IN {callbacks \o response : callbacks \in told}

Execute(r, n) ==
  \/ \E error \in LookupErrors(r) :
       ran' = ran /\ dispatch_response(out, PacketsOfFailedLookup(r, n, error))
  \/ \E result \in {"success", "failed"} :
       /\ ran' = ran \cup {n}
       /\ \E packets \in PacketsOfBody(r, n, result) : dispatch_response(out, packets)

api_handle_request(r, n) ==
  \/ /\ r.call = "unknown"
     /\ ran' = ran
     /\ dispatch_response(out, api_send_response_if_expected(r, n, "not_supported"))
  \/ /\ r.call # "unknown" /\ ~ r.sized
     /\ ran' = ran
     /\ dispatch_response(out, api_send_response_if_expected(r, n, "invalid_parameter"))
  \/ /\ r.call # "unknown" /\ r.sized
     /\ Execute(r, n)

\* Faulty: one packet per call of the read handler.
HandleOneRequest ==
  /\ pc = "loop" /\ ~ disconnected /\ PacketComplete /\ Header.mine
  /\ api_handle_request(Header, Current)
  /\ NextPacket
  /\ served' = Current
  /\ pc' = "round"
  /\ UNCHANGED <<ready, connected, peerVars, sent>>

HandleRequest ==
  /\ pc = "loop" /\ ~ disconnected /\ PacketComplete /\ Header.mine
  /\ api_handle_request(Header, Current)
  /\ NextPacket
  /\ served' = Current
  /\ UNCHANGED <<loopVars, connected, peerVars, sent>>

\* Another handler has something to tell (a file, a process, a program): its
\* callback is dispatched if the Brick Daemon is connected.
OtherEvent ==
  /\ Called("other")
  /\ IF Serving /\ Len(SelectSeq(out, LAMBDA p : p.to = 0)) < MaxCallbacks
     THEN dispatch_response(out, Notes(1))
     ELSE UNCHANGED <<out, disconnected>>
  /\ UNCHANGED <<pc, connected, inputVars, peerVars, sent, served, ran>>

\* The writer cannot write what it had to keep back.
brickd_recipient_disconnect ==
  /\ Called("other") /\ connected
  /\ disconnected' = TRUE
  /\ UNCHANGED <<pc, connected, inputVars, peerVars, callVars>>

Handlers == \/ Refuse \/ Accept \/ AcceptFails \/ AcceptInterrupted
            \/ ReadNothing \/ ReadEnds \/ ReadUnits
            \/ OtherEvent \/ brickd_recipient_disconnect
Loop == LoopEnds \/ RejectHeader \/ AwaitRest \/ DropForeign \/ HandleRequest
Daemon == Poll \/ Handlers \/ Loop \/ Cleanup

Next ==
  \/ Daemon
  \/ PeerConnects \/ PeerCloses \/ PeerAbandons
  \/ \E r \in Request : \E k \in 1..r.length : PeerSends(r, k)

Spec == Init /\ [][Next]_vars

\* The event loop keeps running; no call is interrupted, or finds nothing to
\* read, forever; a Brick Daemon without a connection keeps trying to get one.
FairSpec ==
  /\ Spec
  /\ WF_vars(Daemon)
  /\ SF_vars(Refuse \/ Accept \/ AcceptFails)
  /\ SF_vars(ReadUnits \/ ReadEnds)
  /\ WF_vars(PeerConnects)

-----------------------------------------------------------------------------
(* Properties *)

TypeOK ==
  /\ pc \in {"poll", "round", "loop"} /\ ready \subseteq {"server", "brickd", "other"}
  /\ {connected, disconnected, checked, peerOpen, backlog, orphan, torn} \subseteq BOOLEAN
  /\ buffer \in Seq(Nat \X Nat) /\ wire \in Seq(Nat \X Nat)
  /\ sent \in Seq(Request) /\ Len(sent) <= MaxSent
  /\ served \in 0..Len(sent) /\ ran \subseteq 1..Len(sent)
  /\ \A i \in DOMAIN out : out[i].to \in 0..Len(sent)

\* While the connection is served, the buffer and what is still on the wire
\* are, unit for unit, the requests after the last served one
\* (brickd_handle_read() puts the pieces together and moves the rest of the
\* buffer to its start), only the header at the start of the buffer can have
\* been checked, and the buffer has space before every read, because a read
\* into no space would be taken for the end of the connection.
Framed ==
  LET rest == buffer \o wire
      Follows(u, v) == \/ v = <<u[1], u[2] + 1>> /\ u[2] < sent[u[1]].length
                       \/ v = <<u[1] + 1, 1>>    /\ u[2] = sent[u[1]].length
  IN /\ TypeOK
     /\ Serving =>
          /\ rest = <<>> => served = Len(sent)
          /\ rest # <<>> => /\ rest[1] = <<served + 1, 1>>
                            /\ \A i \in 1..Len(rest) - 1 : Follows(rest[i], rest[i + 1])
                            /\ torn \/ rest[Len(rest)] = <<Len(sent), Last(sent).length>>
          /\ checked => HeaderComplete /\ Header.valid
          /\ pc # "loop" => Space > 0

\* However the bytes arrive and whatever the loop does in between, requests
\* are served in order, once, whole, and answered as the API promises
\* (RequestService); a request the Brick Daemon died in is never served.
Service == INSTANCE RequestService WITH
             open <- Serving,
             sent <- IF torn THEN Front(sent) ELSE sent

ImplementsService == Service!Spec

\* A Brick Daemon that lost its connection, or never had one, and keeps
\* trying gets a new connection, although it is refused as long as the old
\* one is not cleaned up; only a failing brickd_create() can prevent it.
Reconnects == (~ peerOpen /\ ~ orphan) ~> ((connected /\ peerOpen) \/ orphan)

\* A request that was sent completely is served, or its connection is lost.
RequestsServed ==
  \A n \in 1..MaxSent :
    (Serving /\ ~ torn /\ Len(sent) >= n) ~> (served >= n \/ ~ Serving)

=============================================================================
