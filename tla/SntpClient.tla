----------------------------- MODULE SntpClient -----------------------------
(***************************************************************************)
(* The SNTP client (net/src/sntp.c), which asks until it has set the clock *)
(* once (SNTP_SINGLESYNC).  Its handlers all run in the thread of lwIP;    *)
(* between them lie timers, the callbacks of the DNS and a network that    *)
(* loses and delays answers.                                               *)
(***************************************************************************)
EXTENDS Naturals, FiniteSets

CONSTANTS
  NumServers,   \* sntp_num_servers
  Pbufs,        \* the buffers that lwIP can allocate
  Lookups,      \* the lookups that its DNS can have under way
  MaxPending    \* bound: what stray answers may add up to

\* It answers; it sends a kiss-of-death, or something that is no answer; it never
\* answers; its name cannot be resolved
Kind == {"good", "kod", "bad", "silent", "unknown"}

\* It loses nothing; lookups may fail, requests and answers may be lost; and answers
\* may also come after their timeouts
Network == {"good", "lossy", "late"}

ASSUME SntpAssumption ==
  /\ NumServers \in Nat /\ NumServers > 1 /\ MaxPending \in Nat
  /\ IsFiniteSet(Pbufs) /\ IsFiniteSet(Lookups) /\ Lookups # {}

Servers == 0 .. NumServers - 1

VARIABLES
  server,   \* sntp_current_server
  pcb,      \* sntp_pcb: "none", "open", or "removed", that is freed
  timers,   \* how many of sntp_request and of sntp_try_next_server are set, and the
            \* pbufs with an sntp_send_request_timeout
  dns,      \* the server whose name each lookup is for, or none
  arg,      \* of sntp_recv: the pbuf of the last request, or none
  held,     \* the pbufs that are allocated
  kind,     \* of each server
  net,      \* the kind of the network
  wire,     \* the servers whose answer is under way
  received  \* history: something was received

vars == <<server, pcb, timers, dns, arg, held, kind, net, wire, received>>

Init ==
  /\ server = 0 /\ pcb = "none" /\ arg = {} /\ held = {} /\ wire = {}
  /\ timers = [request |-> 0, next |-> 0, timeout |-> {}]
  /\ dns = [l \in Lookups |-> {}]
  /\ kind \in {k \in [Servers -> Kind] : \E s \in Servers : k[s] = "good"}
  /\ net \in Network
  /\ received = FALSE

Lossy == net # "good"

Looking(d) == {l \in Lookups : d[l] # {}}

\* How many things are still to happen: timers, timeouts and lookups
Pending(t, d) == t.request + t.next + Cardinality(t.timeout) + Cardinality(Looking(d))

------------------------------------------------------------------------------
(* Faulty variants of definitions below: each is a plausible slip that one *)
(* of the properties must detect.                                          *)

FaultFreedArg(p) == held \ arg        \* the last request's pbuf is freed, not its own
FaultFreed(p)    == held              \* no pbuf_free
FaultSameServer  == server            \* no next server
FaultUntimeout   == timers            \* no sys_untimeout
FaultRetry(t)    == t                 \* no timer after an error

------------------------------------------------------------------------------
(* The functions of the client.  Each takes what its caller leaves of the  *)
(* timers (t), the lookups (d), the pbufs (h) and the answers (w).         *)

Answers(s) == kind[s] \in {"good", "kod", "bad"}

\* A pcb that was removed may still be written to, but receives nothing
SendRequest(s, t, d, h, w) ==
  /\ dns' = d
  /\ \/ \E p \in Pbufs \ h :
          /\ held' = h \cup {p} /\ arg' = {p}
          /\ timers' = [t EXCEPT !.timeout = @ \cup {p}]
          /\ \/ Answers(s) /\ pcb # "removed" /\ wire' = w \cup {s}
             \/ (~Answers(s) \/ pcb = "removed" \/ Lossy) /\ wire' = w
     \/ /\ h = Pbufs
        /\ timers' = [t EXCEPT !.request = @ + 1]
        /\ held' = h /\ wire' = w /\ UNCHANGED arg

\* dns_gethostbyname knows the address, or asks for it, or refuses, also for want of an
\* entry
Request(s, t, d, h, w) ==
  /\ server' = s
  /\ \/ kind[s] # "unknown" /\ SendRequest(s, t, d, h, w)
     \/ /\ \E l \in Lookups \ Looking(d) : dns' = [d EXCEPT ![l] = {s}]
        /\ timers' = t /\ held' = h /\ wire' = w /\ UNCHANGED arg
     \/ /\ Lossy \/ kind[s] = "unknown" \/ Looking(d) = Lookups
        /\ timers' = [t EXCEPT !.next = @ + 1]
        /\ dns' = d /\ held' = h /\ wire' = w /\ UNCHANGED arg

NextServer == IF server + 1 >= NumServers THEN 0 ELSE server + 1

TryNextServer(t, h, w) == Request(NextServer, t, dns, h, w)

------------------------------------------------------------------------------
(* The handlers                                                            *)

SntpInit ==
  /\ pcb = "none"
  /\ pcb' = "open" /\ Request(server, timers, dns, held, wire)
  /\ UNCHANGED <<kind, net, received>>

RequestTimer ==
  /\ timers.request > 0
  /\ Request(server, [timers EXCEPT !.request = @ - 1], dns, held, wire)
  /\ UNCHANGED <<pcb, kind, net, received>>

NextTimer ==
  /\ timers.next > 0
  /\ TryNextServer([timers EXCEPT !.next = @ - 1], held, wire)
  /\ UNCHANGED <<pcb, kind, net, received>>

\* pbuf_free
Freed(p) == held \ {p}

RequestTimeout(p) ==
  /\ p \in timers.timeout /\ (net = "late" \/ wire = {})
  /\ TryNextServer([timers EXCEPT !.timeout = @ \ {p}], Freed(p), wire)
  /\ UNCHANGED <<pcb, kind, net, received>>

DnsFound(l) == \E s \in dns[l] :
  LET d == [dns EXCEPT ![l] = {}] IN
  /\ \/ kind[s] # "unknown" /\ SendRequest(s, timers, d, held, wire)
     \/ /\ Lossy \/ kind[s] = "unknown"
        /\ timers' = [timers EXCEPT !.next = @ + 1] /\ dns' = d
        /\ UNCHANGED <<held, wire, arg>>
  /\ UNCHANGED <<server, pcb, kind, net, received>>

\* The three sys_untimeout: each takes one timer back, if there is one
Untimeout ==
  [request |-> IF timers.request > 0 THEN timers.request - 1 ELSE 0,
   next    |-> IF timers.next > 0 THEN timers.next - 1 ELSE 0,
   timeout |-> timers.timeout \ arg]

Retry(t) == [t EXCEPT !.request = @ + 1]

\* sntp_recv, with an answer, a kiss-of-death, or a packet that is neither.  The pbuf
\* of the request is not freed.
Recv(s) ==
  /\ s \in wire /\ pcb = "open" /\ Pending(Untimeout, dns) < MaxPending
  /\ received' = TRUE
  /\ \/ kind[s] = "good" /\ pcb' = "removed" /\ timers' = Untimeout /\ wire' = {}
        /\ UNCHANGED <<server, dns, arg, held>>
     \/ kind[s] = "kod" /\ TryNextServer(Untimeout, held, wire \ {s}) /\ UNCHANGED pcb
     \/ kind[s] = "bad" /\ timers' = Retry(Untimeout) /\ wire' = wire \ {s}
        /\ UNCHANGED <<server, pcb, dns, arg, held>>
  /\ UNCHANGED <<kind, net>>

\* The network
Lose(s) ==
  /\ Lossy /\ s \in wire
  /\ wire' = wire \ {s}
  /\ UNCHANGED <<server, pcb, timers, dns, arg, held, kind, net, received>>

Handlers ==
  \/ SntpInit \/ RequestTimer \/ NextTimer
  \/ \E p \in Pbufs : RequestTimeout(p)
  \/ \E l \in Lookups : DnsFound(l)
  \/ \E s \in Servers : Recv(s)

Next == Handlers \/ \E s \in Servers : Lose(s)

Spec == Init /\ [][Next]_vars

\* lwIP runs what is due, and an answer that is not lost is received
FairSpec ==
  /\ Spec
  /\ WF_vars(SntpInit) /\ WF_vars(RequestTimer) /\ WF_vars(NextTimer)
  /\ \A p \in Pbufs : WF_vars(RequestTimeout(p))
  /\ \A l \in Lookups : WF_vars(DnsFound(l))
  /\ \A s \in Servers : WF_vars(Recv(s))

------------------------------------------------------------------------------
(* Properties                                                              *)

\* The current server is one of the list, and each timeout has a pbuf of its own that
\* is still allocated: none is freed twice (sntp.c:258-264).
TypeOK ==
  /\ server \in Servers /\ pcb \in {"none", "open", "removed"}
  /\ timers \in [request : Nat, next : Nat, timeout : SUBSET held]
  /\ dns \in [Lookups -> {{}} \cup {{s} : s \in Servers}] /\ arg \subseteq Pbufs /\ held \subseteq Pbufs
  /\ kind \in [Servers -> Kind] /\ net \in Network /\ wire \subseteq Servers /\ received \in BOOLEAN

\* Until the clock is set something will go on: a timer, a lookup or a timeout.
\* No path of the error handling drops the client (sntp.c:172-342).
NeverStops == pcb = "open" => Pending(timers, dns) > 0

\* As long as no answer comes late, there is one request and never a second, and none
\* after the clock was set (sntp.c:203-206).
OneAtATime == net # "late" => Pending(timers, dns) = IF pcb = "open" THEN 1 ELSE 0

\* However long all servers are silent, the client holds the pbuf of its present
\* request only (sntp.c:258-264).
SilenceIsFree == ~received => held = timers.timeout

\* With one server that answers, and others that do not, send a kiss-of-death or have
\* no address, the clock is set.  A server whose packets are no answers is never left.
ClockIsSet == net = "good" /\ (\A s \in Servers : kind[s] # "bad") => <>(pcb = "removed")

\* "packet received: stop retry timeout" (sntp.c:203): after the packet that sets the
\* clock nothing is to be sent any more on the pcb that it removes.
RetryStopped == pcb = "removed" => Pending(timers, dns) = 0

=============================================================================
