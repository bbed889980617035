--------------------------- MODULE RequestService ---------------------------
(***************************************************************************)
(* What the API promises a client behind one connection of the Brick       *)
(* Daemon: while the connection is open its requests are served one after  *)
(* the other in the order they were sent, each at most once; what comes    *)
(* back for a request is decided by the request, its last packet is the    *)
(* response, and none comes later than the packets of the next request.  A *)
(* packet can get lost, and all packets behind one the connection was lost *)
(* with.  Nothing is said about how the bytes of a request arrive.         *)
(***************************************************************************)
EXTENDS Naturals, Sequences

CONSTANTS
  Request,  \* the requests of the module Requests
  MaxBurst  \* bound: callbacks sent inside one handler

VARIABLES
  open,     \* the connection is served
  sent,     \* requests of this connection, in order
  served,   \* how many of them are served
  ran,      \* the ones whose function was executed
  out       \* packets dispatched to the connection, in order, and whether they got lost

service == <<open, sent, served, ran, out>>

Init == ~ open /\ sent = <<>> /\ served = 0 /\ ran = {} /\ out = <<>>

Packet(n, kind, code) == [to |-> n, kind |-> kind, code |-> code, lost |-> FALSE]

Errors == {"unknown_object", "unknown_session", "invalid_parameter", "not_supported",
           "unknown_error", "failed"}

Answered(r) == r.mine /\ (r.expected \/ (r.call = "function" /\ r.sized))

\* Callbacks that belong to no request: what a program or a file has to tell.
Notes(k) == [i \in 1..k |-> Packet(0, "callback", "success")]

\* A call that reports success was executed.  The callbacks it causes at once
\* come before its response.
Answers(r, n, done) ==
  LET codes     == Errors \cup IF done THEN {"success"} ELSE {}
      callbacks == {<<>>} \cup (IF r.mine /\ r.call = "async"
                                THEN {<<Packet(n, "callback", c)>> : c \in codes} ELSE {})
                         \cup (IF done /\ r.tells THEN {Notes(k) : k \in 0..MaxBurst} ELSE {})
      closing   == IF Answered(r) THEN {<<Packet(n, "response", c)>> : c \in codes} ELSE {<<>>}
  IN {a \o b : a \in callbacks, b \in closing}

Written(packets, lost) == [i \in DOMAIN packets |-> [packets[i] EXCEPT !.lost = i \in lost]]

\* Only a connection that lost the last of the packets can be closed by them.
Deliver(before, packets) ==
  \E lost \in SUBSET (1..Len(packets)) :
    /\ out' = before \o Written(packets, lost)
    /\ open' \in {TRUE, Len(packets) \notin lost}

Send == \E r \in Request : sent' = Append(sent, r) /\ UNCHANGED <<open, served, ran, out>>

Serve ==
  /\ open /\ served < Len(sent)
  /\ served' = served + 1 /\ UNCHANGED sent
  /\ LET r == sent[served + 1] IN
     /\ r.valid
     /\ \E done \in {FALSE, r.mine /\ r.sized /\ r.call # "unknown"} :
          /\ ran' = IF done THEN ran \cup {served + 1} ELSE ran
          /\ \E packets \in Answers(r, served + 1, done) : Deliver(out, packets)

\* A callback for an event that no request of the moment asked for.
Notify == open /\ UNCHANGED <<sent, served, ran>> /\ Deliver(out, Notes(1))

Close == open /\ open' = FALSE /\ UNCHANGED <<sent, served, ran, out>>

\* The connection is gone, another one takes its place; the first packets are
\* for programs that waited for it.
Renew ==
  /\ ~ open
  /\ sent' = <<>> /\ served' = 0 /\ ran' = {}
  /\ \E k \in 0..MaxBurst : Deliver(<<>>, Notes(k))

Next == Send \/ Serve \/ Notify \/ Close \/ Renew

Spec == Init /\ [][Next]_service
=============================================================================
