-------------------------- MODULE SntpClientProofs --------------------------
(***************************************************************************)
(* What the SNTP client keeps for every number of servers, buffers and     *)
(* lookups.  The argument is one of counting: each handler takes one thing *)
(* that was to happen and leaves exactly one other behind, except the      *)
(* answer that sets the clock.                                             *)
(***************************************************************************)
EXTENDS SntpClient, FiniteSetTheorems, TLAPS

------------------------------------------------------------------------------
(* Counting                                                                *)

TimersOver(h) == [request : Nat, next : Nat, timeout : SUBSET h]
LookupTable == [Lookups -> {{}} \cup {{s} : s \in Servers}]

\* The count of what is to happen is a number, and its parts are numbers.
LEMMA PendingIsNat ==
  ASSUME NEW h \in SUBSET Pbufs, NEW t \in TimersOver(h), NEW d \in LookupTable
  PROVE  /\ IsFiniteSet(t.timeout) /\ IsFiniteSet(Looking(d))
         /\ Cardinality(t.timeout) \in Nat /\ Cardinality(Looking(d)) \in Nat
         /\ Pending(t, d) \in Nat
<1>1. IsFiniteSet(t.timeout)
  BY SntpAssumption, FS_Subset DEF TimersOver
<1>2. IsFiniteSet(Looking(d))
  BY SntpAssumption, FS_Subset DEF Looking
<1> QED
  BY <1>1, <1>2, FS_CardinalityType DEF TimersOver, Pending

\* A new buffer's timeout is one thing more to happen.
LEMMA TimeoutCounts ==
  ASSUME NEW h \in SUBSET Pbufs, NEW t \in TimersOver(h), NEW d \in LookupTable,
         NEW p \in Pbufs \ h
  PROVE  Pending([t EXCEPT !.timeout = @ \cup {p}], d) = Pending(t, d) + 1
<1>1. p \notin t.timeout
  BY DEF TimersOver
<1>2. Cardinality(t.timeout \cup {p}) = Cardinality(t.timeout) + 1
  BY <1>1, PendingIsNat, FS_AddElement
<1>3. Cardinality(t.timeout) \in Nat /\ Cardinality(Looking(d)) \in Nat
  BY PendingIsNat
<1> QED
  BY <1>2, <1>3 DEF TimersOver, Pending

\* A timeout that ran is one thing less to happen.
LEMMA TimeoutDone ==
  ASSUME NEW h \in SUBSET Pbufs, NEW t \in TimersOver(h), NEW d \in LookupTable,
         NEW p \in t.timeout
  PROVE  Pending([t EXCEPT !.timeout = @ \ {p}], d) = Pending(t, d) - 1
<1>1. Cardinality(t.timeout \ {p}) = Cardinality(t.timeout) - 1
  BY PendingIsNat, FS_RemoveElement
<1>2. Cardinality(t.timeout) \in Nat /\ Cardinality(Looking(d)) \in Nat
  BY PendingIsNat
<1> QED
  BY <1>1, <1>2 DEF TimersOver, Pending

\* A lookup in a free entry is one thing more to happen.
LEMMA LookupCounts ==
  ASSUME NEW h \in SUBSET Pbufs, NEW t \in TimersOver(h), NEW d \in LookupTable,
         NEW l \in Lookups \ Looking(d), NEW s \in Servers
  PROVE  Pending(t, [d EXCEPT ![l] = {s}]) = Pending(t, d) + 1
<1> DEFINE e == [d EXCEPT ![l] = {s}]
<1>1. Looking(e) = Looking(d) \cup {l}
  BY DEF Looking, LookupTable
<1>2. Cardinality(Looking(d) \cup {l}) = Cardinality(Looking(d)) + 1
  BY PendingIsNat, FS_AddElement
<1>3. Cardinality(t.timeout) \in Nat /\ Cardinality(Looking(d)) \in Nat
  BY PendingIsNat
<1>4. Pending(t, e) = Pending(t, d) + 1
  <2> HIDE DEF e
  <2> QED
    BY <1>1, <1>2, <1>3 DEF TimersOver, Pending
<1> QED
  BY <1>4

\* A lookup that ended is one thing less to happen.
LEMMA LookupDone ==
  ASSUME NEW h \in SUBSET Pbufs, NEW t \in TimersOver(h), NEW d \in LookupTable,
         NEW l \in Looking(d)
  PROVE  Pending(t, [d EXCEPT ![l] = {}]) = Pending(t, d) - 1
<1> DEFINE e == [d EXCEPT ![l] = {}]
<1>1. Looking(e) = Looking(d) \ {l}
  BY DEF Looking, LookupTable
<1>2. Cardinality(Looking(d) \ {l}) = Cardinality(Looking(d)) - 1
  BY PendingIsNat, FS_RemoveElement
<1>3. Cardinality(t.timeout) \in Nat /\ Cardinality(Looking(d)) \in Nat
  BY PendingIsNat
<1>4. Pending(t, e) = Pending(t, d) - 1
  <2> HIDE DEF e
  <2> QED
    BY <1>1, <1>2, <1>3 DEF TimersOver, Pending
<1> QED
  BY <1>4

------------------------------------------------------------------------------
(* What a request does to what its caller leaves                           *)

\* What a caller leaves: timers, lookups, buffers and answers.
Left(t, d, h, w) ==
  /\ h \in SUBSET Pbufs /\ t \in TimersOver(h)
  /\ d \in LookupTable /\ w \in SUBSET Servers

\* The step makes one thing more happen than t and d had; an answer that is new is that
\* of the request whose timeout was set, and a new buffer is that of a new timeout.
OneMore(t, d, h, w) ==
  /\ held' \in SUBSET Pbufs /\ timers' \in TimersOver(held') /\ dns' \in LookupTable
  /\ wire' \in SUBSET Servers /\ arg' \in SUBSET Pbufs
  /\ Pending(timers', dns') = Pending(t, d) + 1
  /\ \/ wire' = w
     \/ /\ \E s \in Servers : wire' = w \cup {s}
        /\ arg' # {} /\ timers'.timeout = t.timeout \cup arg'
  /\ h = t.timeout => held' = timers'.timeout

\* A timer that is set again is one thing more to happen.
LEMMA TimerCounts ==
  ASSUME NEW t, NEW d, NEW h, NEW w, Left(t, d, h, w)
  PROVE  /\ Pending([t EXCEPT !.request = @ + 1], d) = Pending(t, d) + 1
         /\ Pending([t EXCEPT !.next = @ + 1], d) = Pending(t, d) + 1
         /\ [t EXCEPT !.request = @ + 1] \in TimersOver(h)
         /\ [t EXCEPT !.next = @ + 1] \in TimersOver(h)
         /\ [t EXCEPT !.request = @ + 1].timeout = t.timeout
         /\ [t EXCEPT !.next = @ + 1].timeout = t.timeout
<1>1. Cardinality(t.timeout) \in Nat /\ Cardinality(Looking(d)) \in Nat
  BY PendingIsNat DEF Left
<1> QED
  BY <1>1 DEF TimersOver, Pending, Left

\* sntp_send_request sends and sets the timeout, or sets the timer to try again
\* (sntp.c:271-289).
LEMMA SendIsOneMore ==
  ASSUME NEW t, NEW d, NEW h, NEW w, NEW s \in Servers, Left(t, d, h, w),
         arg \in SUBSET Pbufs, SendRequest(s, t, d, h, w)
  PROVE  OneMore(t, d, h, w)
<1>1. dns' = d /\ d \in LookupTable /\ h \in SUBSET Pbufs /\ t \in TimersOver(h)
      /\ w \in SUBSET Servers
  BY DEF SendRequest, Left
<1>2. CASE \E p \in Pbufs \ h :
             /\ held' = h \cup {p} /\ arg' = {p}
             /\ timers' = [t EXCEPT !.timeout = @ \cup {p}]
             /\ (wire' = w \cup {s} \/ wire' = w)
  <2>1. PICK p \in Pbufs \ h :
             /\ held' = h \cup {p} /\ arg' = {p}
             /\ timers' = [t EXCEPT !.timeout = @ \cup {p}]
             /\ (wire' = w \cup {s} \/ wire' = w)
    BY <1>2
  <2>2. Pending(timers', dns') = Pending(t, d) + 1
    BY <1>1, <2>1, TimeoutCounts
  <2>3. timers' \in TimersOver(held') /\ timers'.timeout = t.timeout \cup {p}
    BY <1>1, <2>1 DEF TimersOver
  <2> QED
    BY <1>1, <2>1, <2>2, <2>3 DEF OneMore
<1>3. CASE timers' = [t EXCEPT !.request = @ + 1] /\ held' = h /\ wire' = w /\ arg' = arg
  BY <1>1, <1>3, TimerCounts DEF OneMore
<1> QED
  BY <1>2, <1>3 DEF SendRequest

\* sntp_request sends, waits for the DNS, or sets the timer of the next server
\* (sntp.c:315-339).
LEMMA RequestIsOneMore ==
  ASSUME NEW t, NEW d, NEW h, NEW w, NEW s \in Servers, Left(t, d, h, w),
         arg \in SUBSET Pbufs, Request(s, t, d, h, w)
  PROVE  server' = s /\ OneMore(t, d, h, w)
<1>1. d \in LookupTable /\ h \in SUBSET Pbufs /\ t \in TimersOver(h) /\ w \in SUBSET Servers
  BY DEF Left
<1>2. CASE SendRequest(s, t, d, h, w)
  BY <1>2, SendIsOneMore DEF Request
<1>3. CASE \E l \in Lookups \ Looking(d) :
             /\ dns' = [d EXCEPT ![l] = {s}]
             /\ timers' = t /\ held' = h /\ wire' = w /\ arg' = arg
  <2>1. PICK l \in Lookups \ Looking(d) :
             /\ dns' = [d EXCEPT ![l] = {s}]
             /\ timers' = t /\ held' = h /\ wire' = w /\ arg' = arg
    BY <1>3
  <2>2. Pending(timers', dns') = Pending(t, d) + 1
    BY <1>1, <2>1, LookupCounts
  <2>3. dns' \in LookupTable
    BY <1>1, <2>1 DEF LookupTable
  <2> QED
    BY <1>1, <2>1, <2>2, <2>3 DEF OneMore, Request
<1>4. CASE /\ timers' = [t EXCEPT !.next = @ + 1]
           /\ dns' = d /\ held' = h /\ wire' = w /\ arg' = arg
  BY <1>1, <1>4, TimerCounts DEF OneMore, Request
<1> QED
  BY <1>2, <1>3, <1>4 DEF Request

------------------------------------------------------------------------------
(* What each handler leaves                                                *)

\* What the rest of a handler leaves alone.
Unmoved == kind' = kind /\ net' = net

\* The next server is one of the list.
LEMMA NextServerIsServer ==
  ASSUME server \in Servers
  PROVE  NextServer \in Servers
  BY SntpAssumption DEF NextServer, Servers

\* In a typed state everything can be handed to a request as it is.
LEMMA AllLeft ==
  ASSUME TypeOK
  PROVE  Left(timers, dns, held, wire) /\ arg \in SUBSET Pbufs /\ server \in Servers
  BY DEF TypeOK, Left, TimersOver, LookupTable

\* sntp_init sends the first request (sntp.c:345-352).
LEMMA InitStep ==
  ASSUME TypeOK, SntpInit
  PROVE  /\ pcb = "none" /\ pcb' = "open" /\ server' \in Servers /\ Unmoved /\ received' = received
         /\ OneMore(timers, dns, held, wire)
  BY AllLeft, RequestIsOneMore DEF SntpInit, Unmoved

\* The timer of sntp_request has run.
LEMMA RequestTimerStep ==
  ASSUME TypeOK, RequestTimer
  PROVE  /\ pcb' = pcb /\ server' \in Servers /\ Unmoved /\ received' = received
         /\ \E t \in TimersOver(held) :
              /\ Pending(t, dns) = Pending(timers, dns) - 1 /\ t.timeout = timers.timeout
              /\ OneMore(t, dns, held, wire)
<1> DEFINE t == [timers EXCEPT !.request = @ - 1]
<1>1. Left(timers, dns, held, wire) /\ arg \in SUBSET Pbufs /\ server \in Servers
  BY AllLeft
<1>2. timers \in TimersOver(held) /\ timers.request > 0
  BY <1>1 DEF Left, RequestTimer
<1>3. t \in TimersOver(held) /\ t.timeout = timers.timeout
  BY <1>2 DEF TimersOver
<1>4. Pending(t, dns) = Pending(timers, dns) - 1
  <2>1. Cardinality(timers.timeout) \in Nat /\ Cardinality(Looking(dns)) \in Nat
    BY <1>1, PendingIsNat DEF Left
  <2> QED
    BY <1>2, <2>1 DEF TimersOver, Pending
<1>5. Left(t, dns, held, wire)
  BY <1>1, <1>3 DEF Left
<1>6. OneMore(t, dns, held, wire) /\ server' = server
  <2>1. Request(server, t, dns, held, wire)
    BY DEF RequestTimer
  <2> HIDE DEF t
  <2> QED
    BY <1>1, <1>5, <2>1, RequestIsOneMore
<1> HIDE DEF t
<1> QED
  BY <1>1, <1>3, <1>4, <1>6 DEF RequestTimer, Unmoved

\* The timer of sntp_try_next_server has run.
LEMMA NextTimerStep ==
  ASSUME TypeOK, NextTimer
  PROVE  /\ pcb' = pcb /\ server' \in Servers /\ Unmoved /\ received' = received
         /\ \E t \in TimersOver(held) :
              /\ Pending(t, dns) = Pending(timers, dns) - 1 /\ t.timeout = timers.timeout
              /\ OneMore(t, dns, held, wire)
<1> DEFINE t == [timers EXCEPT !.next = @ - 1]
<1>1. Left(timers, dns, held, wire) /\ arg \in SUBSET Pbufs /\ NextServer \in Servers
  BY AllLeft, NextServerIsServer
<1>2. timers \in TimersOver(held) /\ timers.next > 0
  BY <1>1 DEF Left, NextTimer
<1>3. t \in TimersOver(held) /\ t.timeout = timers.timeout
  BY <1>2 DEF TimersOver
<1>4. Pending(t, dns) = Pending(timers, dns) - 1
  <2>1. Cardinality(timers.timeout) \in Nat /\ Cardinality(Looking(dns)) \in Nat
    BY <1>1, PendingIsNat DEF Left
  <2> QED
    BY <1>2, <2>1 DEF TimersOver, Pending
<1>5. Left(t, dns, held, wire)
  BY <1>1, <1>3 DEF Left
<1>6. OneMore(t, dns, held, wire) /\ server' = NextServer
  <2>1. Request(NextServer, t, dns, held, wire)
    BY DEF NextTimer, TryNextServer
  <2> HIDE DEF t
  <2> QED
    BY <1>1, <1>5, <2>1, RequestIsOneMore
<1> HIDE DEF t
<1> QED
  BY <1>1, <1>3, <1>4, <1>6 DEF NextTimer, Unmoved

\* The timeout of a request has run: its pbuf is freed.
LEMMA TimeoutStep ==
  ASSUME TypeOK, NEW p \in Pbufs, RequestTimeout(p)
  PROVE  /\ pcb' = pcb /\ server' \in Servers /\ Unmoved /\ received' = received
         /\ p \in timers.timeout /\ (net = "late" \/ wire = {})
         /\ \E t \in TimersOver(held \ {p}) :
              /\ Pending(t, dns) = Pending(timers, dns) - 1 /\ t.timeout = timers.timeout \ {p}
              /\ OneMore(t, dns, held \ {p}, wire)
<1> DEFINE t == [timers EXCEPT !.timeout = @ \ {p}]
<1>1. Left(timers, dns, held, wire) /\ arg \in SUBSET Pbufs /\ NextServer \in Servers
  BY AllLeft, NextServerIsServer
<1>2. timers \in TimersOver(held) /\ p \in timers.timeout
  BY <1>1 DEF Left, RequestTimeout
<1>3. t \in TimersOver(held \ {p}) /\ t.timeout = timers.timeout \ {p}
  BY <1>2 DEF TimersOver
<1>4. Pending(t, dns) = Pending(timers, dns) - 1
  BY <1>1, <1>2, TimeoutDone DEF Left
<1>5. Left(t, dns, held \ {p}, wire)
  BY <1>1, <1>3 DEF Left
<1>6. OneMore(t, dns, held \ {p}, wire) /\ server' = NextServer
  <2>1. Request(NextServer, t, dns, held \ {p}, wire)
    BY DEF RequestTimeout, TryNextServer, Freed
  <2> HIDE DEF t
  <2> QED
    BY <1>1, <1>5, <2>1, RequestIsOneMore
<1> HIDE DEF t
<1> QED
  BY <1>1, <1>3, <1>4, <1>6 DEF RequestTimeout, Unmoved

\* A lookup has ended (sntp.c:294-308).
LEMMA DnsStep ==
  ASSUME TypeOK, NEW l \in Lookups, DnsFound(l)
  PROVE  /\ pcb' = pcb /\ server' = server /\ Unmoved /\ received' = received
         /\ \E d \in LookupTable :
              /\ Pending(timers, d) = Pending(timers, dns) - 1
              /\ OneMore(timers, d, held, wire)
<1> DEFINE d == [dns EXCEPT ![l] = {}]
<1>1. Left(timers, dns, held, wire) /\ arg \in SUBSET Pbufs
  BY AllLeft
<1>2. PICK s \in dns[l] :
        \/ SendRequest(s, timers, d, held, wire)
        \/ /\ timers' = [timers EXCEPT !.next = @ + 1] /\ dns' = d
           /\ held' = held /\ wire' = wire /\ arg' = arg
  BY DEF DnsFound
<1>3. s \in Servers /\ l \in Looking(dns) /\ d \in LookupTable
  BY <1>1, <1>2 DEF Left, LookupTable, Looking
<1>4. Pending(timers, d) = Pending(timers, dns) - 1
  BY <1>1, <1>3, LookupDone DEF Left
<1>5. Left(timers, d, held, wire)
  BY <1>1, <1>3 DEF Left
<1>6. pcb' = pcb /\ server' = server /\ kind' = kind /\ net' = net /\ received' = received
  BY DEF DnsFound
<1> HIDE DEF d
<1>7. OneMore(timers, d, held, wire)
  <2>1. CASE SendRequest(s, timers, d, held, wire)
    BY <1>1, <1>3, <1>5, <2>1, SendIsOneMore
  <2>2. CASE /\ timers' = [timers EXCEPT !.next = @ + 1] /\ dns' = d
             /\ held' = held /\ wire' = wire /\ arg' = arg
    BY <1>1, <1>5, <2>2, TimerCounts DEF OneMore, Left
  <2> QED
    BY <1>2, <2>1, <2>2
<1> QED
  BY <1>3, <1>4, <1>6, <1>7 DEF Unmoved

LEMMA OneOfFour ==
  ASSUME NEW a \in Nat, NEW b \in Nat, NEW c \in Nat, NEW e \in Nat, a + b + c + e = 1, c # 0
  PROVE  a = 0 /\ b = 0 /\ e = 0
  OBVIOUS

LEMMA NoneOfFour ==
  ASSUME NEW a \in Nat, NEW b \in Nat, NEW c \in Nat, NEW e \in Nat, a + b + c + e = 0
  PROVE  c = 0
  OBVIOUS

\* The three sys_untimeout leave timers; with the one request of the answer they take
\* all there is (sntp.c:203-206).
LEMMA UntimeoutLeaves ==
  ASSUME TypeOK
  PROVE  /\ Untimeout \in TimersOver(held) /\ Pending(Untimeout, dns) \in Nat
         /\ /\ Pending(timers, dns) = 1 /\ timers.timeout = arg /\ arg # {}
            => Pending(Untimeout, dns) = 0
<1>1. Left(timers, dns, held, wire)
  BY AllLeft
<1>2. timers \in TimersOver(held) /\ held \in SUBSET Pbufs /\ dns \in LookupTable
  BY <1>1 DEF Left
<1>3. Untimeout \in TimersOver(held)
  BY <1>2 DEF TimersOver, Untimeout
<1>4. Pending(Untimeout, dns) \in Nat
  BY <1>2, <1>3, PendingIsNat
<1>5. ASSUME Pending(timers, dns) = 1, timers.timeout = arg, arg # {}
      PROVE  Pending(Untimeout, dns) = 0
  <2>1. /\ IsFiniteSet(timers.timeout)
        /\ Cardinality(timers.timeout) \in Nat /\ Cardinality(Looking(dns)) \in Nat
    BY <1>2, PendingIsNat
  <2>2. Cardinality(timers.timeout) # 0
    BY <1>5, <2>1, FS_EmptySet
  <2>3. timers.request \in Nat /\ timers.next \in Nat
    BY <1>2 DEF TimersOver
  <2>4. timers.request = 0 /\ timers.next = 0 /\ Cardinality(Looking(dns)) = 0
    <3>1. timers.request + timers.next + Cardinality(timers.timeout) + Cardinality(Looking(dns)) = 1
      BY <1>5 DEF Pending
    <3> QED
      BY <2>1, <2>2, <2>3, <3>1, OneOfFour
  <2>5. Untimeout.request = 0 /\ Untimeout.next = 0 /\ Untimeout.timeout = {}
    BY <1>5, <2>4 DEF Untimeout
  <2>6. Cardinality(Untimeout.timeout) = 0
    BY <2>5, FS_EmptySet
  <2> QED
    BY <2>4, <2>5, <2>6, SMT DEF Pending
<1> QED
  BY <1>3, <1>4, <1>5

\* A packet was received (sntp.c:192-252).
LEMMA RecvStep ==
  ASSUME TypeOK, NEW s \in Servers, Recv(s)
  PROVE  /\ s \in wire /\ pcb = "open" /\ received' = TRUE /\ server' \in Servers /\ Unmoved
         /\ \/ /\ pcb' = "removed" /\ timers' = Untimeout /\ wire' = {}
               /\ dns' = dns /\ arg' = arg /\ held' = held
            \/ pcb' = pcb /\ OneMore(Untimeout, dns, held, wire \ {s})
<1>1. /\ Left(timers, dns, held, wire) /\ arg \in SUBSET Pbufs
      /\ server \in Servers /\ NextServer \in Servers
  BY AllLeft, NextServerIsServer
<1>2. Left(Untimeout, dns, held, wire \ {s})
  BY <1>1, UntimeoutLeaves DEF Left
<1>3. CASE TryNextServer(Untimeout, held, wire \ {s}) /\ pcb' = pcb
  <2>1. Request(NextServer, Untimeout, dns, held, wire \ {s})
    BY <1>3 DEF TryNextServer
  <2>2. server' = NextServer /\ OneMore(Untimeout, dns, held, wire \ {s})
    BY <1>1, <1>2, <2>1, RequestIsOneMore
  <2> QED
    BY <1>1, <1>3, <2>2 DEF Recv, Unmoved
<1>4. CASE /\ timers' = Retry(Untimeout) /\ wire' = wire \ {s}
           /\ server' = server /\ pcb' = pcb /\ dns' = dns /\ arg' = arg /\ held' = held
  <2>1. /\ Pending(Retry(Untimeout), dns) = Pending(Untimeout, dns) + 1
        /\ Retry(Untimeout) \in TimersOver(held)
        /\ Retry(Untimeout).timeout = Untimeout.timeout
    BY <1>2, TimerCounts DEF Retry
  <2>2. held = Untimeout.timeout => held' = timers'.timeout
    BY <1>4, <2>1
  <2>3. OneMore(Untimeout, dns, held, wire \ {s})
    BY <1>1, <1>2, <1>4, <2>1, <2>2 DEF OneMore, Left
  <2> QED
    BY <1>1, <1>4, <2>3 DEF Recv, Unmoved
<1>5. CASE /\ pcb' = "removed" /\ timers' = Untimeout /\ wire' = {}
           /\ server' = server /\ dns' = dns /\ arg' = arg /\ held' = held
  BY <1>1, <1>5 DEF Recv, Unmoved
<1> QED
  BY <1>3, <1>4, <1>5 DEF Recv

\* Initially nothing is to happen.
LEMMA InitIsEmpty ==
  ASSUME Init
  PROVE  TypeOK /\ Pending(timers, dns) = 0
<1>1. 0 \in Servers
  BY SntpAssumption DEF Servers
<1>2. Looking(dns) = {}
  BY DEF Init, Looking
<1>3. Cardinality({}) = 0
  BY FS_EmptySet
<1>4. timers.request = 0 /\ timers.next = 0 /\ timers.timeout = {}
  BY DEF Init
<1>5. Pending(timers, dns) = 0
  BY <1>2, <1>3, <1>4 DEF Pending
<1> QED
  BY <1>1, <1>5 DEF Init, TypeOK

\* What the network loses moves the answers only.
LEMMA LoseStep ==
  ASSUME TypeOK, NEW s \in Servers, Lose(s)
  PROVE  wire' = wire \ {s} /\ TypeOK' /\ UNCHANGED <<pcb, timers, dns, arg, held, net, received>>
<1>1. UNCHANGED <<pcb, timers, dns, arg, held, net, received>> /\ wire' = wire \ {s}
  BY DEF Lose
<1>2. server' = server /\ kind' = kind
  BY DEF Lose
<1> QED
  BY <1>1, <1>2 DEF TypeOK

------------------------------------------------------------------------------
(* Types                                                                   *)

LEMMA TypeFromStep ==
  ASSUME TypeOK, server' \in Servers, Unmoved, received' \in BOOLEAN,
         pcb' \in {"none", "open", "removed"},
         held' \in SUBSET Pbufs, timers' \in TimersOver(held'), dns' \in LookupTable,
         wire' \in SUBSET Servers, arg' \in SUBSET Pbufs
  PROVE  TypeOK'
  BY DEF TypeOK, Unmoved, TimersOver, LookupTable

\* A handler keeps the types.
LEMMA HandlerTypes ==
  ASSUME TypeOK, Handlers
  PROVE  TypeOK'
<1>1. pcb \in {"none", "open", "removed"} /\ received \in BOOLEAN /\ server \in Servers
  BY DEF TypeOK
<1>2. CASE SntpInit
  BY <1>1, <1>2, InitStep, TypeFromStep DEF OneMore
<1>3. CASE RequestTimer
  BY <1>1, <1>3, RequestTimerStep, TypeFromStep DEF OneMore
<1>4. CASE NextTimer
  BY <1>1, <1>4, NextTimerStep, TypeFromStep DEF OneMore
<1>5. ASSUME NEW p \in Pbufs, RequestTimeout(p)
      PROVE  TypeOK'
  BY <1>1, <1>5, TimeoutStep, TypeFromStep DEF OneMore
<1>6. ASSUME NEW l \in Lookups, DnsFound(l)
      PROVE  TypeOK'
  BY <1>1, <1>6, DnsStep, TypeFromStep DEF OneMore
<1>7. ASSUME NEW s \in Servers, Recv(s)
      PROVE  TypeOK'
  <2>1. CASE pcb' = pcb /\ OneMore(Untimeout, dns, held, wire \ {s})
    BY <1>1, <1>7, <2>1, RecvStep, TypeFromStep DEF OneMore
  <2>2. CASE /\ pcb' = "removed" /\ timers' = Untimeout /\ wire' = {}
             /\ dns' = dns /\ arg' = arg /\ held' = held
    <3>1. Left(timers, dns, held, wire) /\ arg \in SUBSET Pbufs /\ Untimeout \in TimersOver(held)
      BY AllLeft, UntimeoutLeaves
    <3>2. timers' \in TimersOver(held')
      BY <2>2, <3>1
    <3> QED
      BY <1>7, <2>2, <3>1, <3>2, RecvStep, TypeFromStep DEF Left
  <2> QED
    BY <1>7, <2>1, <2>2, RecvStep
<1> QED
  BY <1>2, <1>3, <1>4, <1>5, <1>6, <1>7 DEF Handlers

LEMMA StutterTypes ==
  ASSUME TypeOK, UNCHANGED vars
  PROVE  TypeOK'
  BY DEF TypeOK, vars

\* The types hold, and each timeout has an allocated pbuf of its own.
THEOREM TypeCorrect == Spec => []TypeOK
<1>1. Init => TypeOK
  BY InitIsEmpty
<1>2. TypeOK /\ [Next]_vars => TypeOK'
  BY HandlerTypes, LoseStep, StutterTypes DEF Next
<1> QED
  BY <1>1, <1>2, PTL DEF Spec

------------------------------------------------------------------------------
(* Never nothing to do, and nothing kept                                   *)

\* Every handler that leaves a pcb open leaves something to happen.
LEMMA HandlerGoesOn ==
  ASSUME TypeOK, Handlers
  PROVE  NeverStops'
<1>1. /\ held \in SUBSET Pbufs /\ timers \in TimersOver(held) /\ dns \in LookupTable
      /\ Untimeout \in TimersOver(held)
  BY AllLeft, UntimeoutLeaves DEF Left
<1>2. ASSUME NEW h \in SUBSET Pbufs, NEW t \in TimersOver(h), NEW d \in LookupTable, NEW w,
             OneMore(t, d, h, w)
      PROVE  NeverStops'
  <2>1. Pending(t, d) \in Nat
    BY PendingIsNat
  <2>2. Pending(timers', dns') > 0
    BY <1>2, <2>1 DEF OneMore
  <2> QED
    BY <2>2 DEF NeverStops
<1>4. CASE SntpInit
  BY <1>1, <1>2, <1>4, InitStep
<1>5. CASE RequestTimer
  <2>1. PICK t \in TimersOver(held) : OneMore(t, dns, held, wire)
    BY <1>5, RequestTimerStep
  <2> QED
    BY <1>1, <1>2, <2>1
<1>6. CASE NextTimer
  <2>1. PICK t \in TimersOver(held) : OneMore(t, dns, held, wire)
    BY <1>6, NextTimerStep
  <2> QED
    BY <1>1, <1>2, <2>1
<1>7. ASSUME NEW p \in Pbufs, RequestTimeout(p)
      PROVE  NeverStops'
  <2>1. PICK t \in TimersOver(held \ {p}) : OneMore(t, dns, held \ {p}, wire)
    BY <1>7, TimeoutStep
  <2>2. held \ {p} \in SUBSET Pbufs
    BY <1>1
  <2> QED
    BY <1>1, <1>2, <2>1, <2>2
<1>8. ASSUME NEW l \in Lookups, DnsFound(l)
      PROVE  NeverStops'
  <2>1. PICK d \in LookupTable : OneMore(timers, d, held, wire)
    BY <1>8, DnsStep
  <2> QED
    BY <1>1, <1>2, <2>1
<1>9. ASSUME NEW s \in Servers, Recv(s)
      PROVE  NeverStops'
  <2>1. CASE OneMore(Untimeout, dns, held, wire \ {s})
    BY <1>1, <1>2, <2>1
  <2>2. CASE pcb' = "removed"
    BY <2>2 DEF NeverStops
  <2> QED
    BY <1>9, <2>1, <2>2, RecvStep
<1> QED
  BY <1>4, <1>5, <1>6, <1>7, <1>8, <1>9 DEF Handlers

\* Until the clock is set something goes on, for any servers, losses and late answers.
THEOREM SomethingGoesOn == Spec => []NeverStops
<1>1. Init => NeverStops
  BY DEF Init, NeverStops
<1>2. TypeOK /\ NeverStops /\ [Next]_vars => NeverStops'
  <2>1. ASSUME TypeOK, NeverStops, NEW s \in Servers, Lose(s)
        PROVE  NeverStops'
    BY <2>1, LoseStep DEF NeverStops
  <2>2. ASSUME NeverStops, UNCHANGED vars
        PROVE  NeverStops'
    BY <2>2 DEF NeverStops, vars
  <2> QED
    BY <2>1, <2>2, HandlerGoesOn DEF Next
<1> QED
  BY <1>1, <1>2, TypeCorrect, PTL DEF Spec

\* A handler that receives nothing keeps the pbufs and the timeouts together.
LEMMA HandlerHoldsTimeouts ==
  ASSUME TypeOK, Handlers, SilenceIsFree
  PROVE  SilenceIsFree'
<1>1. Left(timers, dns, held, wire)
  BY AllLeft
<1>2. ASSUME NEW s \in Servers, Recv(s)
      PROVE  SilenceIsFree'
  BY <1>2, RecvStep DEF SilenceIsFree
<1>3. CASE SntpInit
  BY <1>3, InitStep DEF SilenceIsFree, OneMore
<1>4. CASE RequestTimer
  BY <1>4, RequestTimerStep DEF SilenceIsFree, OneMore
<1>5. CASE NextTimer
  BY <1>5, NextTimerStep DEF SilenceIsFree, OneMore
<1>6. ASSUME NEW p \in Pbufs, RequestTimeout(p)
      PROVE  SilenceIsFree'
  BY <1>6, TimeoutStep DEF SilenceIsFree, OneMore
<1>7. ASSUME NEW l \in Lookups, DnsFound(l)
      PROVE  SilenceIsFree'
  BY <1>7, DnsStep DEF SilenceIsFree, OneMore
<1> QED
  BY <1>2, <1>3, <1>4, <1>5, <1>6, <1>7 DEF Handlers

\* While nothing is received, no pbuf outlives its timeout, however long that is.
THEOREM SilenceHoldsNothing == Spec => []SilenceIsFree
<1>1. Init => SilenceIsFree
  BY DEF Init, SilenceIsFree
<1>2. TypeOK /\ SilenceIsFree /\ [Next]_vars => SilenceIsFree'
  <2>1. ASSUME TypeOK, SilenceIsFree, NEW s \in Servers, Lose(s)
        PROVE  SilenceIsFree'
    BY <2>1, LoseStep DEF SilenceIsFree
  <2>2. ASSUME SilenceIsFree, UNCHANGED vars
        PROVE  SilenceIsFree'
    BY <2>2 DEF SilenceIsFree, vars
  <2> QED
    BY <2>1, <2>2, HandlerHoldsTimeouts DEF Next
<1> QED
  BY <1>1, <1>2, TypeCorrect, PTL DEF Spec

------------------------------------------------------------------------------
(* The inductive invariant of the single request                           *)

\* While no answer comes late, an answer is under way only together with the timeout
\* of the request that asked for it, and never two; none is once the clock is set.
OneInv == net # "late" =>
  /\ Pending(timers, dns) = IF pcb = "open" THEN 1 ELSE 0
  /\ pcb # "open" => wire = {}
  /\ wire # {} => timers.timeout = arg /\ arg # {} /\ \E s \in Servers : wire = {s}

\* A step that takes the one thing there was and leaves one more keeps the invariant,
\* when an answer that stays under way has its timeout still.
LEMMA OneFromStep ==
  ASSUME NEW h \in SUBSET Pbufs, NEW t \in TimersOver(h), NEW d \in LookupTable, NEW w,
         OneMore(t, d, h, w), Pending(t, d) = 0, pcb' = "open", w # {} => t.timeout # {}
  PROVE  OneInv'
<1>1. Pending(timers', dns') = 1
  BY DEF OneMore
<1>2. t.timeout = {}
  <2>1. IsFiniteSet(t.timeout)
    BY PendingIsNat
  <2>2. Cardinality(t.timeout) = 0
    <3>1. t.request + t.next + Cardinality(t.timeout) + Cardinality(Looking(d)) = 0
      BY DEF Pending
    <3>2. t.request \in Nat /\ t.next \in Nat
      BY DEF TimersOver
    <3>3. Cardinality(t.timeout) \in Nat /\ Cardinality(Looking(d)) \in Nat
      BY PendingIsNat
    <3> QED
      BY <3>1, <3>2, <3>3, NoneOfFour
  <2> QED
    BY <2>1, <2>2, FS_EmptySet
<1>3. wire' # {} => timers'.timeout = arg' /\ arg' # {} /\ \E s \in Servers : wire' = {s}
  BY <1>2 DEF OneMore
<1> QED
  BY <1>1, <1>3 DEF OneInv

\* No handler changes the network.
LEMMA HandlerNet ==
  ASSUME Handlers
  PROVE  net' = net
  BY DEF Handlers, SntpInit, RequestTimer, NextTimer, RequestTimeout, DnsFound, Recv

\* A handler keeps the invariant.
LEMMA HandlerKeepsOne ==
  ASSUME TypeOK, Handlers, OneInv, net # "late"
  PROVE  OneInv'
<1>1. held \in SUBSET Pbufs /\ timers \in TimersOver(held) /\ dns \in LookupTable
  BY AllLeft DEF Left
<1>2. /\ Pending(timers, dns) = IF pcb = "open" THEN 1 ELSE 0
      /\ pcb # "open" => wire = {}
      /\ wire # {} => timers.timeout = arg /\ arg # {} /\ \E s \in Servers : wire = {s}
  BY DEF OneInv
<1>3. pcb # "open" => Pending(timers, dns) = 0
  BY <1>2
<1>4. ASSUME NEW n \in Nat, n = Pending(timers, dns) - 1
      PROVE  pcb = "open" /\ n = 0
  BY <1>2, <1>4
<1>5. CASE SntpInit
  BY <1>1, <1>2, <1>5, InitStep, OneFromStep
<1>6. CASE RequestTimer \/ NextTimer
  <2>1. PICK t \in TimersOver(held) :
          /\ Pending(t, dns) = Pending(timers, dns) - 1 /\ t.timeout = timers.timeout
          /\ OneMore(t, dns, held, wire)
    BY <1>6, RequestTimerStep, NextTimerStep
  <2>2. pcb' = pcb
    BY <1>6, RequestTimerStep, NextTimerStep
  <2>3. Pending(t, dns) \in Nat
    BY <1>1, PendingIsNat
  <2> QED
    BY <1>1, <1>2, <1>4, <2>1, <2>2, <2>3, OneFromStep
<1>7. ASSUME NEW p \in Pbufs, RequestTimeout(p)
      PROVE  OneInv'
  <2>1. PICK t \in TimersOver(held \ {p}) :
          /\ Pending(t, dns) = Pending(timers, dns) - 1
          /\ OneMore(t, dns, held \ {p}, wire)
    BY <1>7, TimeoutStep
  <2>2. pcb' = pcb /\ wire = {}
    BY <1>7, TimeoutStep
  <2>3. Pending(t, dns) \in Nat /\ held \ {p} \in SUBSET Pbufs
    BY <1>1, PendingIsNat
  <2> QED
    BY <1>1, <1>2, <1>4, <2>1, <2>2, <2>3, OneFromStep
<1>8. ASSUME NEW l \in Lookups, DnsFound(l)
      PROVE  OneInv'
  <2>1. PICK d \in LookupTable :
          Pending(timers, d) = Pending(timers, dns) - 1 /\ OneMore(timers, d, held, wire)
    BY <1>8, DnsStep
  <2>2. pcb' = pcb
    BY <1>8, DnsStep
  <2>3. Pending(timers, d) \in Nat
    BY <1>1, PendingIsNat
  <2> QED
    BY <1>1, <1>2, <1>4, <2>1, <2>2, <2>3, OneFromStep
<1>9. ASSUME NEW s \in Servers, Recv(s)
      PROVE  OneInv'
  <2>1. s \in wire /\ pcb = "open" /\ wire \ {s} = {}
    BY <1>2, <1>9, RecvStep
  <2>2. Untimeout \in TimersOver(held) /\ Pending(Untimeout, dns) = 0
    BY <1>2, <2>1, UntimeoutLeaves
  <2>3. CASE pcb' = pcb /\ OneMore(Untimeout, dns, held, wire \ {s})
    BY <1>1, <2>1, <2>2, <2>3, OneFromStep
  <2>4. CASE pcb' = "removed" /\ timers' = Untimeout /\ wire' = {} /\ dns' = dns
    BY <2>2, <2>4 DEF OneInv
  <2> QED
    BY <1>9, <2>3, <2>4, RecvStep
<1> QED
  BY <1>5, <1>6, <1>7, <1>8, <1>9 DEF Handlers

\* The invariant holds; OneAtATime is its first part.
LEMMA OneInvCorrect == Spec => []OneInv
<1>1. Init => OneInv
  BY InitIsEmpty DEF Init, OneInv
<1>2. TypeOK /\ OneInv /\ [Next]_vars => OneInv'
  <2>1. ASSUME TypeOK, OneInv, NEW s \in Servers, Lose(s)
        PROVE  OneInv'
    BY <2>1, LoseStep DEF OneInv
  <2>2. ASSUME OneInv, UNCHANGED vars
        PROVE  OneInv'
    BY <2>2 DEF OneInv, vars
  <2>3. ASSUME TypeOK, OneInv, Handlers
        PROVE  OneInv'
    <3>1. CASE net # "late"
      BY <2>3, <3>1, HandlerKeepsOne
    <3>2. CASE net = "late"
      BY <2>3, <3>2, HandlerNet DEF OneInv
    <3> QED
      BY <3>1, <3>2
  <2> QED
    BY <2>1, <2>2, <2>3 DEF Next
<1> QED
  BY <1>1, <1>2, TypeCorrect, PTL DEF Spec

\* As long as no answer comes late there is one request and never a second, and none
\* once the clock is set.
THEOREM OneRequest == Spec => []OneAtATime
<1>1. OneInv => OneAtATime
  BY DEF OneInv, OneAtATime
<1> QED
  BY <1>1, OneInvCorrect, PTL

\* The promise of sntp.c:203, that the packet that sets the clock stops what is to be
\* sent, is broken by late answers only.
THEOREM OnlyLateAnswersAreSentAfter == Spec => [](net # "late" => RetryStopped)
<1>1. OneInv => (net # "late" => RetryStopped)
  BY DEF OneInv, RetryStopped
<1> QED
  BY <1>1, OneInvCorrect, PTL

=============================================================================
