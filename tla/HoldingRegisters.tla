-------------------------- MODULE HoldingRegisters --------------------------
(***************************************************************************)
(* The parameters of the panel (prmsystem/) and the Modbus TCP server that *)
(* writes them (portfreemodbus/src/porttcp.cpp, net/src/modbusServerTSK).  *)
(*                                                                         *)
(* A write of several registers starts at the first parameter that has the *)
(* requested address and goes on in the order of the parameter list, one   *)
(* parameter after the other, while the window task changes the same       *)
(* values (SettingMenu).  A read changes nothing and is left out, as is    *)
(* the answer.  Values are words of the parameter's type, signed or not:   *)
(* what does not fit is cut to the width, as in two's complement.          *)
(***************************************************************************)
EXTENDS Integers, Sequences

CONSTANTS
  Params,   \* the names of the parameters
  List,     \* valuearray: the parameters in the order of their declaration
  Address,  \* register address of a parameter; many share one
  Regs,     \* registers of a parameter: 2 if it has 4 bytes, otherwise 1
  Width,    \* bits of a parameter's type
  Signed,   \* the parameters of a signed type
  Lo, Hi,   \* limits of a parameter
  Def,      \* default value of a parameter
  Requests  \* requests of the clients: [addr |-> , regs |-> ]

\* The words of a parameter's type, and the one that a number is cut to
WordMin(p) == IF p \in Signed THEN -(2^(Width[p] - 1)) ELSE 0
WordMax(p) == WordMin(p) + 2^Width[p] - 1
Words(p)   == WordMin(p) .. WordMax(p)
Word(p, n) == WordMin(p) + ((n - WordMin(p)) % 2^Width[p])

ASSUME ParamAssumption ==
  /\ List \in Seq(Params) /\ Params # {} /\ Signed \subseteq Params
  /\ Regs \in [Params -> {1, 2}]
  /\ \A p \in Params :
       /\ Width[p] \in Nat \ {0} /\ 2^Width[p] \in Nat /\ 2^(Width[p] - 1) \in Nat
       /\ Lo[p] \in Words(p) /\ Hi[p] \in Words(p) /\ Def[p] \in Lo[p] .. Hi[p]
  /\ \A r \in Requests : r.regs \in 1 .. 123

VARIABLES
  value,   \* Val<T>::val of each parameter
  peer,    \* the client at the other end of newconn: none, here, closed, gone
  conn,    \* newconn is not null
  stage,   \* what the server task does
  cursor,  \* currentIndex, from 1
  todo,    \* usNRegs
  stored,  \* history: registers of the request that are stored in parameters
  asked,   \* history: registers of the request
  answer,  \* what eMBRegHoldingCB returned
  remote   \* gremote: a client controls the regulator

serverVars == <<peer, conn, stage, cursor, todo, stored, asked, answer, remote>>

Stages  == {"poll", "receive", "write"}
Answers == {"none", "ENOERR", "ENOREG", "EINVAL"}

ServerTypeOK ==
  /\ peer \in {"none", "here", "closed", "gone"} /\ conn \in BOOLEAN
  /\ stage \in Stages /\ cursor \in 1 .. Len(List) + 1
  /\ todo \in 0 .. asked /\ asked \in 0 .. 123 /\ stored \in Nat
  /\ answer \in Answers /\ remote \in BOOLEAN

ServerInit ==
  /\ value = [p \in Params |-> Def[p]]
  /\ peer = "none" /\ conn = FALSE /\ stage = "poll"
  /\ cursor = 1 /\ todo = 0 /\ stored = 0 /\ asked = 0 /\ answer = "none"
  /\ remote = FALSE

------------------------------------------------------------------------------
(* Faulty variants of definitions below: each is a plausible slip that one *)
(* of the properties has to notice.                                        *)

FaultTooFew(p)        == FALSE
FaultLowered(p, v, a) == IF a > Hi[p] - Lo[p] THEN Lo[p] ELSE Word(p, v - a)
FaultReleased         == remote

------------------------------------------------------------------------------
(* A parameter: prmsystem/include/prmSystem.h                              *)

\* deserialize refuses a value outside of the limits
InLimits(p, v) == Lo[p] <= v /\ v <= Hi[p]

\* max - val and val - min: the types narrower than int are promoted to it, the
\* unsigned one of 4 bytes wraps.
Room(p, d) == IF Regs[p] = 2 /\ p \notin Signed THEN d % 2^Width[p] ELSE d

\* stepsize: the amount is a word of the parameter's type, which is negative if
\* the product does not fit a signed one; neither comparison then saturates.
\* (The products of a signed type of 4 bytes always fit.)
Amount(p, size, n) == Word(p, size * n)
Lowered(p, v, a)   == IF a > Room(p, v - Lo[p]) THEN Lo[p] ELSE Word(p, v - a)
Raised(p, v, a)    == IF a > Room(p, Hi[p] - v) THEN Hi[p] ELSE Word(p, v + a)

------------------------------------------------------------------------------
(* The server task: eMBPoll with xMBPortEventGet                           *)

\* The locals of eMBRegHoldingCB outside of a call
NoRequest == cursor' = 1 /\ todo' = 0 /\ stored' = 0 /\ asked' = 0 /\ answer' = "none"

request == <<cursor, todo, stored, asked, answer>>

\* xMBPortTCPPoll waits for a client if there is none; the event is posted
Poll ==
  /\ stage = "poll" /\ (conn \/ peer # "none")
  /\ conn' = TRUE /\ stage' = "receive"
  /\ UNCHANGED <<value, peer, request, remote>>

\* getbyaddress: the first parameter with this address, or the end of the list
FirstAt(a) ==
  LET hits == {i \in DOMAIN List : Address[List[i]] = a}
  IN  IF hits = {} THEN Len(List) + 1
      ELSE CHOOSE i \in hits : \A j \in hits : i <= j

\* xMBTCPPortGetRequest takes a frame for the panel that writes registers;
\* eMBPoll executes it and calls eMBRegHoldingCB.
ReceiveWrite ==
  /\ stage = "receive" /\ peer = "here"
  /\ \E r \in Requests :
       cursor' = FirstAt(r.addr) /\ todo' = r.regs /\ asked' = r.regs
  /\ stage' = "write"
  /\ UNCHANGED <<value, peer, conn, stored, answer, remote>>

\* A frame for the regulator: it is passed on, and the client has control until
\* the connection ends (RegulatorLink models the exchange).
ReceiveRaw ==
  /\ stage = "receive" /\ peer = "here"
  /\ remote' = TRUE /\ stage' = "poll"
  /\ UNCHANGED <<value, peer, conn, request>>

\* gremote after reg_tcpModbusClosedConnection
Released == FALSE

\* netconn_recv reports that the client closed the connection
ReceiveError ==
  /\ stage = "receive" /\ peer = "closed"
  /\ conn' = FALSE /\ peer' = "none" /\ remote' = Released /\ stage' = "poll"
  /\ UNCHANGED <<value, request>>

\* A parameter of 4 bytes needs two registers
TooFew(p) == Regs[p] = 2 /\ todo < 2

\* usNRegs is a word of 16 bits
UShort(n) == n % 65536

\* One pass of the loop of a write
WriteNext ==
  /\ stage = "write" /\ answer = "none" /\ todo > 0 /\ cursor \in DOMAIN List
  /\ ~TooFew(List[cursor])
  /\ LET p == List[cursor]
     IN /\ \E v \in Words(p) :
             InLimits(p, v) /\ value' = [value EXCEPT ![p] = v]
        /\ todo' = UShort(todo - Regs[p])
        /\ stored' = stored + Regs[p]
  /\ cursor' = cursor + 1
  /\ UNCHANGED <<peer, conn, stage, asked, answer, remote>>

\* The request is done, leaves the list, ends within a parameter, or brings a
\* value that deserialize refuses: what was stored before stays.
WriteEnds ==
  /\ stage = "write" /\ answer = "none"
  /\ \/ todo = 0 /\ answer' = "ENOERR"
     \/ todo > 0 /\ cursor \notin DOMAIN List /\ answer' = "ENOREG"
     \/ todo > 0 /\ cursor \in DOMAIN List /\ answer' = "EINVAL"
          /\ (TooFew(List[cursor])
                \/ \E v \in Words(List[cursor]) : ~InLimits(List[cursor], v))
  /\ UNCHANGED <<value, peer, conn, stage, cursor, todo, stored, asked, remote>>

\* The answer or the exception is sent
Reply ==
  /\ stage = "write" /\ answer # "none"
  /\ stage' = "poll" /\ NoRequest
  /\ UNCHANGED <<value, peer, conn, remote>>

Server == Poll \/ ReceiveWrite \/ ReceiveRaw \/ ReceiveError \/ WriteNext \/ WriteEnds \/ Reply

------------------------------------------------------------------------------
(* The client                                                              *)

\* A client connects, closes its connection, or disappears without a word: then
\* netconn_recv, which has no timeout, waits for ever.
ClientConnects ==
  /\ peer = "none" /\ peer' = "here"
  /\ UNCHANGED <<value, conn, stage, request, remote>>

ClientLeaves ==
  /\ peer = "here" /\ peer' \in {"closed", "gone"}
  /\ UNCHANGED <<value, conn, stage, request, remote>>

Client == ClientConnects \/ ClientLeaves

=============================================================================
