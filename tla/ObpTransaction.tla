--------------------------- MODULE ObpTransaction ---------------------------
(***************************************************************************)
(* Exchanges with a device over the Ocean Binary Protocol: queryDevice and *)
(* sendCommandToDevice of OBPTransaction, the transfer of a spectrum       *)
(* (OBPReadRawSpectrumExchange on Transfer), and the receive of the three  *)
(* transfer helpers beneath them.                                          *)
(*                                                                         *)
(* A reply is a header, its payload and a trailer.  It is cut into cells:  *)
(* 44 bytes of header, 20 bytes of payload each, 20 bytes of checksum and  *)
(* footer.  The first read of an exchange asks for 64 bytes, two cells,    *)
(* and takes the first part of an extended payload with the header; the    *)
(* second read asks for the rest.  A spectrum is read in one piece.        *)
(*                                                                         *)
(* The caller is one thread.  The device answers in the order of requests. *)
(* What can go wrong is counted in faults: a write that throws or is cut   *)
(* short, a reply that is cut short or lost, a read that throws or, over   *)
(* TCP, returns early.                                                     *)
(***************************************************************************)
EXTENDS Naturals, Sequences

CONSTANTS QueryTypes,    \* message types of queries
          CommandTypes,  \* message types of commands, which ask for an ACK
          Spectrum,      \* the message type that asks for a spectrum
          Length,        \* message type -> cells of payload in its reply
          Symmetric,     \* TRUE: a spectrum asked for is read before anything else
          MaxCalls,      \* bound: requests made
          MaxFaults      \* bound: what goes wrong

Types == QueryTypes \cup CommandTypes \cup {Spectrum}

ASSUME TypesApart ==
  /\ QueryTypes \cap CommandTypes = {}
  /\ Spectrum \notin QueryTypes \cup CommandTypes
\* An acknowledgement has no payload: sendCommandToDevice reads 64 bytes only.
ASSUME LengthAssumption ==
  /\ Length \in [Types -> Nat]
  /\ \A t \in Types : Length[t] <= Length[Spectrum]
  /\ \A t \in CommandTypes : Length[t] = 0
  /\ Length[Spectrum] > 0
ASSUME ObpBoundsAssumption == MaxCalls \in Nat /\ MaxFaults \in Nat

VARIABLES
  transport,  \* the bus the device is on
  host,       \* the exchange in progress, and the result of the last one
  pending,    \* a spectrum was asked for and has not been read
  buffer,     \* the buffer of the spectrum exchange
  inbox,      \* requests the device has not answered yet
  wire,       \* cells the host has not read yet
  verdict,    \* what the device answered to each request
  faults      \* what has gone wrong

device == <<inbox, verdict>>
vars == <<transport, host, pending, buffer, device, wire, faults>>

Reply   == [of : Nat, type : Types, flag : {"data", "ack", "nack"}, length : Nat]
Cell    == [part : {"header", "payload", "trailer"}, reply : Reply]
NoReply == [of |-> 0, type |-> Spectrum, flag |-> "nack", length |-> 0]
Blank   == [part |-> "blank", reply |-> NoReply]
Result  == [is : {"none", "data", "true", "false", "null", "throw"}, of : Nat, whole : BOOLEAN]
Without == [is |-> "none", of |-> 0, whole |-> TRUE]
Readout == Length[Spectrum] + 2

ObpTypeOK ==
  /\ transport \in {"usb", "rs232", "tcp"}
  /\ host \in [at : {"idle", "header", "rest", "spectrum"}, type : Types,
               got : Seq(Cell \cup {Blank}), last : Nat, result : Result]
  /\ Len(host.got) <= 2
  /\ pending \in BOOLEAN
  /\ buffer \in Seq(Cell \cup {Blank}) /\ Len(buffer) = Readout
  /\ inbox \in Seq([n : Nat, type : Types])
  /\ wire \in Seq(Cell)
  /\ verdict \in Seq({"pending", "data", "ack", "nack"})
  /\ faults \in 0 .. MaxFaults

ObpInit ==
  /\ transport \in {"usb", "rs232", "tcp"}
  /\ host = [at |-> "idle", type |-> Spectrum, got |-> << >>, last |-> 0, result |-> Without]
  /\ pending = FALSE
  /\ buffer = [i \in 1 .. Readout |-> Blank]
  /\ inbox = << >>
  /\ wire = << >>
  /\ verdict = << >>
  /\ faults = 0

Calls == Len(verdict)
Fault == faults < MaxFaults /\ faults' = faults + 1

-----------------------------------------------------------------------------
(* The device.                                                             *)

Cells(r) ==
  [i \in 1 .. r.length + 2 |->
     [part  |-> IF i = 1 THEN "header" ELSE IF i = r.length + 2 THEN "trailer" ELSE "payload",
      reply |-> r]]

\* A command is acknowledged, the others are answered with data; each may be
\* refused instead.
Replies(request) ==
  {[of |-> request.n, type |-> request.type, flag |-> "nack", length |-> 0],
   [of |-> request.n, type |-> request.type,
    flag |-> IF request.type \in CommandTypes THEN "ack" ELSE "data",
    length |-> Length[request.type]]}

\* A reply may be cut at the end of a cell, or lost altogether.
DeviceAnswers ==
  /\ inbox # << >>
  /\ \E r \in Replies(Head(inbox)) :
       /\ verdict' = [verdict EXCEPT ![r.of] = r.flag]
       /\ \/ wire' = wire \o Cells(r) /\ UNCHANGED faults
          \/ Fault /\ \E j \in 0 .. r.length + 1 : wire' = wire \o SubSeq(Cells(r), 1, j)
  /\ inbox' = Tail(inbox)
  /\ UNCHANGED <<transport, host, pending, buffer>>

-----------------------------------------------------------------------------
(* Sending.                                                                *)

Start(at, t) == [host EXCEPT !.at = at, !.type = t, !.result = Without]

\* The exchange is over.
Return(is)      == [host EXCEPT !.at = "idle", !.got = << >>, !.result = [Without EXCEPT !.is = is]]
Answers(is, r, whole) ==
  [host EXCEPT !.at = "idle", !.got = << >>, !.last = r.of,
               !.result = [is |-> is, of |-> r.of, whole |-> whole]]

MayCall == host.at = "idle" /\ Calls < MaxCalls /\ (Symmetric => ~pending)

\* A query and a command go on to read; the request for a spectrum is a
\* transfer of its own, and the caller reads later. That the write was cut short
\* is noticed and ignored: the device drops such a request.
Send(t) ==
  /\ MayCall
  /\ \/ inbox' = Append(inbox, [n |-> Calls + 1, type |-> t]) /\ UNCHANGED faults
     \/ Fault /\ UNCHANGED inbox
  /\ verdict' = Append(verdict, "pending")
  /\ pending' = (pending \/ t = Spectrum)
  /\ host' = IF t = Spectrum THEN Start("idle", t) ELSE Start("header", t)
  /\ UNCHANGED <<transport, buffer, wire>>

\* The write throws, whether or not the request got through.
SendFails(t) ==
  /\ MayCall
  /\ Fault
  /\ inbox' \in {inbox, Append(inbox, [n |-> Calls + 1, type |-> t])}
  /\ verdict' = Append(verdict, "pending")
  /\ host' = [Return("throw") EXCEPT !.type = t]
  /\ UNCHANGED <<transport, pending, buffer, wire>>

ReadSpectrum ==
  /\ host.at = "idle"
  /\ pending
  /\ pending' = FALSE
  /\ host' = Start("spectrum", Spectrum)
  /\ UNCHANGED <<transport, buffer, device, wire, faults>>

-----------------------------------------------------------------------------
(* Receiving.                                                              *)

\* Cells the read in progress asks for.
Wanted == CASE host.at = "header"   -> 2
            [] host.at = "rest"     -> host.got[1].reply.length
            [] host.at = "spectrum" -> Readout

\* The cells on the wire that belong to the reply the first of them is of: a
\* USB transfer ends with the packet that ends a reply.
OfFirst == {j \in 1 .. Len(wire) : \A i \in 1 .. j : wire[i].reply.of = wire[1].reply.of}
MinOf(a, b) == IF a < b THEN a ELSE b

\* Mutant: a USB read waits for all it asked for as well.
Taken_Loops == IF Len(wire) < Wanted THEN {} ELSE {Wanted}

UsbTaken == {j \in OfFirst : j <= Wanted /\ (j = Wanted \/ j + 1 \notin OfFirst)}

\* The loops of the RS232 and TCP helpers go on until they have all, and know
\* no end of a reply.
StreamTaken == IF Len(wire) < Wanted THEN {} ELSE {Wanted}

\* How many cells a read that goes well takes.
Taken == IF transport = "usb" THEN UsbTaken ELSE StreamTaken

\* A buffer of n cells after cells were read into it.
Into(old, cells) == cells \o SubSeq(old, Len(cells) + 1, Len(old))
Blanks(n) == [i \in 1 .. n |-> Blank]

\* Mutant: the footer is not looked at.
Parses_NoFooter(cells) == cells[1].part = "header"

\* parseByteStream: the header is there, and the footer where the header says.
Parses(cells) ==
  /\ cells[1].part = "header"
  /\ cells[cells[1].reply.length + 2].part = "trailer"
IsWhole(cells) == \A i \in 1 .. cells[1].reply.length + 2 : cells[i].reply = cells[1].reply

ParseQuery(cells) ==
  IF Parses(cells) THEN Answers("data", cells[1].reply, IsWhole(cells)) ELSE Return("throw")

\* Mutant: the rest of an extended payload is not read.
AfterQueryHeader_NoRest(cells) ==
  LET r == cells[1].reply
  IN IF cells[1].part # "header" THEN Return("null")
     ELSE IF r.flag = "nack" \/ r.type # host.type THEN Return("throw")
     ELSE Answers("data", r, TRUE)

\* queryDevice once it has 64 bytes: NULL when there is no header; a refusal
\* or another type throws and leaves the payload unread.
AfterQueryHeader(cells) ==
  LET r == cells[1].reply
  IN IF cells[1].part # "header" THEN Return("null")
     ELSE IF r.flag = "nack" \/ r.type # host.type THEN Return("throw")
     ELSE IF r.length > 0 THEN [host EXCEPT !.at = "rest", !.got = cells]
     ELSE ParseQuery(cells)

\* Mutant: a refusal is not told from an acknowledgement.
AfterCommandHeader_NackIgnored(cells) ==
  LET r == cells[1].reply
  IN IF cells[1].part # "header" \/ r.type # host.type THEN Return("false")
     ELSE Answers("true", r, TRUE)

\* sendCommandToDevice once it has 64 bytes.
AfterCommandHeader(cells) ==
  LET r == cells[1].reply
  IN IF cells[1].part # "header" \/ r.flag = "nack" \/ r.type # host.type THEN Return("false")
     ELSE IF r.flag = "ack" THEN Answers("true", r, TRUE)
     ELSE Return("throw")

\* The transfer of a spectrum: any type is taken (isLegalMessageType always
\* holds) as long as there is enough data.
AfterSpectrum(cells) ==
  IF Parses(cells) /\ cells[1].reply.length >= Length[Spectrum]
  THEN Answers("data", cells[1].reply, IsWhole(cells))
  ELSE Return("throw")

\* The exchange goes on with the cells read.
Received(cells) ==
  \/ /\ host.at = "header"
     /\ host' = IF host.type \in CommandTypes THEN AfterCommandHeader(Into(Blanks(2), cells))
                                              ELSE AfterQueryHeader(Into(Blanks(2), cells))
     /\ UNCHANGED buffer
  \/ /\ host.at = "rest"
     /\ host' = ParseQuery(host.got \o Into(Blanks(Wanted), cells))
     /\ UNCHANGED buffer
  \/ /\ host.at = "spectrum"
     /\ buffer' = Into(buffer, cells)
     /\ host' = AfterSpectrum(buffer')

\* Mutant: what was read stays on the wire.
Receive_Kept ==
  /\ host.at # "idle"
  /\ \E j \in Taken : Received(SubSeq(wire, 1, j))
  /\ UNCHANGED <<transport, pending, device, wire, faults>>

Receive ==
  /\ host.at # "idle"
  /\ \E j \in Taken :
       /\ Received(SubSeq(wire, 1, j))
       /\ wire' = SubSeq(wire, j + 1, Len(wire))
  /\ UNCHANGED <<transport, pending, device, faults>>

\* The read throws.  The helper for RS232 loses what it has read by then, the
\* others do not.
ReceiveFails ==
  /\ host.at # "idle"
  /\ Fault
  /\ \E j \in 0 .. MinOf(Wanted, Len(wire)) :
       /\ j > 0 => transport = "rs232"
       /\ wire' = SubSeq(wire, j + 1, Len(wire))
  /\ host' = Return("throw")
  /\ UNCHANGED <<transport, pending, buffer, device>>

\* Over TCP an error after the first bytes, and a read that returns nothing,
\* end the loop; the short count is noticed and ignored.
ReceiveShort ==
  /\ host.at # "idle"
  /\ transport = "tcp"
  /\ Fault
  /\ \E j \in 0 .. MinOf(Wanted - 1, Len(wire)) :
       /\ Received(SubSeq(wire, 1, j))
       /\ wire' = SubSeq(wire, j + 1, Len(wire))
  /\ UNCHANGED <<transport, pending, device>>

-----------------------------------------------------------------------------
Exchange == Receive \/ ReceiveFails \/ ReceiveShort
ObpNext ==
  \/ DeviceAnswers
  \/ \E t \in Types : Send(t) \/ SendFails(t)
  \/ ReadSpectrum \/ Exchange

ObpSpec == ObpInit /\ [][ObpNext]_vars

\* The device answers and a read that can be served returns.
FairObpSpec == ObpSpec /\ WF_vars(DeviceAnswers) /\ WF_vars(Receive)

-----------------------------------------------------------------------------
(* Properties.                                                             *)

\* While nothing has gone wrong, every exchange leaves the bus empty: no read
\* takes less or more than its reply, refusals included.
InSync ==
  faults = 0 /\ host.at = "idle" /\ ~pending => wire = << >> /\ inbox = << >>

\* While nothing has gone wrong, a call succeeds exactly when the device
\* accepted its own request.
ResultIsVerdict ==
  faults = 0 /\ host.at = "idle" /\ host.result # Without =>
    (host.result.is \in {"data", "true"} /\ host.result.of = Calls <=> verdict[Calls] # "nack")

\* The payload a query returns is that of one reply (one fault: two replies
\* cut on a stream can make up a third).
QueryIsWhole ==
  host.at = "idle" /\ host.result.is = "data" /\ host.type # Spectrum
    => host.result.whole

\* A command succeeds by an acknowledgement, a query by data.
SuccessWasGiven ==
  host.at = "idle" /\ host.result.is \in {"data", "true"} =>
    verdict[host.result.of] = (IF host.result.is = "true" THEN "ack" ELSE "data")

\* Whatever goes wrong, success is never reported for an answer the device did
\* not give, and no payload is put together from two (OBPTransaction.cpp).
AnswersGenuine == QueryIsWhole /\ SuccessWasGiven

\* Every call returns, unless the read waits for cells that nobody will send:
\* something went wrong, or the device refused a spectrum and its short reply
\* is all there is for the loops of RS232TransferHelper.cpp 51 and
\* TCPIPv4SocketTransferHelper.cpp 57 to read.
Refused(n) == n \in 1 .. Calls /\ verdict[n] = "nack"
Starved ==
  /\ inbox = << >> /\ Taken = {}
  /\ faults > 0 \/ (transport # "usb" /\ host.at = "spectrum" /\ Refused(Calls))
CallsReturn == host.at # "idle" ~> host.at = "idle" \/ Starved

\* "This acquires a spectrum and returns the answer in raw" (SeaBreezeAPI.h 952):
\* the spectrum the caller was given last is not given to it again.
SpectrumReturnedOnce ==
  [][host.at = "spectrum" /\ host'.at = "idle" /\ host'.result.is = "data"
       => host'.result.of # host.last]_vars

\* The exchanges implement the promise of ObpRpc.
Rpc == INSTANCE ObpRpc WITH
         asked   <- Calls,
         busy    <- host.at # "idle",
         last    <- host.last,
         trouble <- faults > 0
ImplementsRpc == Rpc!RpcSpec

=============================================================================
