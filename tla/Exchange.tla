------------------------------ MODULE Exchange ------------------------------
(***************************************************************************)
(* What one channel promises the application on the client and the         *)
(* services on the server, without frames, keys, sockets or timers.        *)
(*                                                                         *)
(* Requests are numbered by the client as the application makes them, and  *)
(* replies by the server as its services finish.  A service sees every     *)
(* request at most once, in order and one at a time; the application sees  *)
(* every reply at most once and in order; on each end numbers may be       *)
(* missing only after that end has failed, and nothing reaches an end that *)
(* is closed.  PQCChannel implements this specification.                   *)
(***************************************************************************)
EXTENDS Naturals, Sequences

VARIABLES
    sent,     \* requests the application has made
    routed,   \* the requests handed to a service, in order
    waiting,  \* a service has a request and has not finished
    replied,  \* replies the server has numbered
    got,      \* the replies handed to the application, in order
    up,       \* the ends that have secured the channel
    failed,   \* the ends that have failed or are leaving
    closed    \* the ends whose socket is gone

vars == <<sent, routed, waiting, replied, got, up, failed, closed>>

Ends == {"client", "server"}

\* n comes after everything in log, and directly after it unless end has failed.
Follows(n, log, end) ==
    /\ \A i \in 1..Len(log) : log[i] < n
    /\ end \notin failed => n = Len(log) + 1

Init ==
    /\ sent = 0 /\ routed = <<>> /\ waiting = FALSE
    /\ replied = 0 /\ got = <<>>
    /\ up = {} /\ failed = {} /\ closed = {}

\* The client is the second to secure the channel.
Secure(end) ==
    /\ end \notin up \cup closed
    /\ end = "client" => "server" \in up
    /\ up' = up \cup {end}
    /\ UNCHANGED <<sent, routed, waiting, replied, got, failed, closed>>

Request ==
    /\ "client" \in up \ closed
    /\ sent' = sent + 1
    /\ UNCHANGED <<routed, waiting, replied, got, up, failed, closed>>

Route ==
    /\ "server" \in up \ closed
    /\ ~waiting
    /\ \E n \in 1..sent : Follows(n, routed, "server") /\ routed' = Append(routed, n)
    /\ waiting' = TRUE
    /\ UNCHANGED <<sent, replied, got, up, failed, closed>>

Reply ==
    /\ waiting
    /\ waiting' = FALSE
    /\ replied' = replied + 1
    /\ failed' \in {failed, failed \cup {"server"}}
    /\ UNCHANGED <<sent, routed, got, up, closed>>

\* The service rejects the request: the connection fails with it.
Refuse ==
    /\ waiting
    /\ waiting' = FALSE
    /\ failed' = failed \cup {"server"}
    /\ UNCHANGED <<sent, routed, replied, got, up, closed>>

Deliver ==
    /\ "client" \in up \ closed
    /\ \E n \in 1..replied : Follows(n, got, "client") /\ got' = Append(got, n)
    /\ UNCHANGED <<sent, routed, waiting, replied, up, failed, closed>>

Fail(end) ==
    /\ failed' = failed \cup {end}
    /\ UNCHANGED <<sent, routed, waiting, replied, got, up, closed>>

Close(end) ==
    /\ closed' = closed \cup {end}
    /\ UNCHANGED <<sent, routed, waiting, replied, got, up, failed>>

Next ==
    \/ Request \/ Route \/ Reply \/ Refuse \/ Deliver
    \/ \E end \in Ends : Secure(end) \/ Fail(end) \/ Close(end)

Spec == Init /\ [][Next]_vars
=============================================================================
