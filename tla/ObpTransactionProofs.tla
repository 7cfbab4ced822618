------------------------ MODULE ObpTransactionProofs ------------------------
(***************************************************************************)
(* Proofs about ObpTransaction, for any message types, any lengths and any *)
(* number of calls and faults: it is well typed, and, as long as nothing   *)
(* has gone wrong and a spectrum asked for is read before anything else,   *)
(* the exchanges stay in step with the device.                             *)
(*                                                                         *)
(* The invariant has two halves.  Tracked holds whatever goes wrong: every *)
(* cell anywhere is of a reply to a request that was made.  InStep holds   *)
(* while nothing has gone wrong: what is on its way is exactly what the    *)
(* exchange in progress has not read of the reply to the last request.     *)
(*                                                                         *)
(* GivenInv ties every cell to what the device said, whatever goes wrong;  *)
(* WholeInv says what one fault can have done to the bus, so that no query *)
(* takes parts of two replies for one.                                     *)
(***************************************************************************)
EXTENDS ObpTransaction, SequenceTheorems, TLAPS

-----------------------------------------------------------------------------
(* Reading from a sequence of cells.                                       *)

\* What is read from the front, and what is left.
LEMMA Cut ==
  ASSUME NEW S, NEW s \in Seq(S), NEW j \in 0 .. Len(s)
  PROVE  /\ SubSeq(s, 1, j) \in Seq(S)
         /\ Len(SubSeq(s, 1, j)) = j
         /\ \A i \in 1 .. j : SubSeq(s, 1, j)[i] = s[i]
         /\ SubSeq(s, j + 1, Len(s)) \in Seq(S)
         /\ Len(SubSeq(s, j + 1, Len(s))) = Len(s) - j
         /\ \A i \in 1 .. Len(s) - j : SubSeq(s, j + 1, Len(s))[i] = s[j + i]
<1>1. Len(s) \in Nat /\ \A i \in 1 .. Len(s) : s[i] \in S
  BY ElementOfSeq, LenProperties
<1>2. \A i \in 1 .. j : s[i] \in S
  BY <1>1
<1>3. /\ SubSeq(s, 1, j) \in Seq(S)
      /\ Len(SubSeq(s, 1, j)) = IF 1 <= j THEN j - 1 + 1 ELSE 0
      /\ \A i \in 1 .. j - 1 + 1 : SubSeq(s, 1, j)[i] = s[1 + i - 1]
  BY <1>1, <1>2, SubSeqProperties
<1>4. \A i \in j + 1 .. Len(s) : s[i] \in S
  BY <1>1
<1>5. /\ SubSeq(s, j + 1, Len(s)) \in Seq(S)
      /\ Len(SubSeq(s, j + 1, Len(s))) = IF j + 1 <= Len(s) THEN Len(s) - (j + 1) + 1 ELSE 0
      /\ \A i \in 1 .. Len(s) - (j + 1) + 1 : SubSeq(s, j + 1, Len(s))[i] = s[j + 1 + i - 1]
  BY <1>1, <1>4, SubSeqProperties
<1>6. j - 1 + 1 = j /\ \A i \in 1 .. j : 1 + i - 1 = i
  OBVIOUS
<1>7. Len(s) - (j + 1) + 1 = Len(s) - j /\ \A i \in 1 .. Len(s) - j : j + 1 + i - 1 = j + i
  BY <1>1
<1>8. (IF 1 <= j THEN j ELSE 0) = j /\ (IF j + 1 <= Len(s) THEN Len(s) - j ELSE 0) = Len(s) - j
  BY <1>1
<1> QED
  BY <1>3, <1>5, <1>6, <1>7, <1>8

\* A buffer is overwritten from its beginning and keeps its length.
LEMMA IntoProperties ==
  ASSUME NEW S, NEW old \in Seq(S), NEW cells \in Seq(S), Len(cells) <= Len(old)
  PROVE  /\ Into(old, cells) \in Seq(S)
         /\ Len(Into(old, cells)) = Len(old)
         /\ \A i \in 1 .. Len(old) :
              Into(old, cells)[i] = IF i <= Len(cells) THEN cells[i] ELSE old[i]
<1> DEFINE rest == SubSeq(old, Len(cells) + 1, Len(old))
<1>1. Len(cells) \in Nat /\ Len(old) \in Nat /\ Len(cells) \in 0 .. Len(old)
  BY LenProperties
<1>2. /\ rest \in Seq(S) /\ Len(rest) = Len(old) - Len(cells)
      /\ \A i \in 1 .. Len(old) - Len(cells) : rest[i] = old[Len(cells) + i]
  BY <1>1, Cut
<1> HIDE DEF rest
<1>3. /\ cells \o rest \in Seq(S) /\ Len(cells \o rest) = Len(cells) + Len(rest)
      /\ \A i \in 1 .. Len(cells) + Len(rest) : (cells \o rest)[i] =
           IF i <= Len(cells) THEN cells[i] ELSE rest[i - Len(cells)]
  BY <1>2, ConcatProperties
<1>4. Into(old, cells) = cells \o rest
  BY DEF Into, rest
<1>5. Len(cells) + Len(rest) = Len(old)
  BY <1>1, <1>2
<1>6. \A i \in 1 .. Len(old) : i > Len(cells) => rest[i - Len(cells)] = old[i]
  <2>1. TAKE i \in 1 .. Len(old)
  <2>2. HAVE i > Len(cells)
  <2>3. i - Len(cells) \in 1 .. Len(old) - Len(cells) /\ Len(cells) + (i - Len(cells)) = i
    BY <1>1, <2>2
  <2> QED
    BY <1>2, <2>3
<1>7. \A i \in 1 .. Len(old) : ~(i <= Len(cells)) => i > Len(cells)
  BY <1>1
<1> QED
  BY <1>3, <1>4, <1>5, <1>6, <1>7

LEMMA BlanksType ==
  ASSUME NEW n \in Nat
  PROVE  /\ Blanks(n) \in Seq({Blank}) /\ Len(Blanks(n)) = n
         /\ \A i \in 1 .. n : Blanks(n)[i] = Blank
BY DEF Blanks

-----------------------------------------------------------------------------
(* Cells and the parts of an exchange.                                     *)

Hosts    == [at : {"idle", "header", "rest", "spectrum"}, type : Types,
             got : Seq(Cell \cup {Blank}), last : Nat, result : Result]
Known(n) == {c \in Cell : c.reply.of \in 1 .. n}
Seen     == Known(Calls) \cup {Blank}

Tracked ==
  /\ inbox \in Seq([n : 1 .. Calls, type : Types])
  /\ wire \in Seq(Known(Calls))
  /\ host.got \in Seq(Seen)
  /\ buffer \in Seq(Seen)
  /\ host.at = "rest" => Len(host.got) = 2
ObpInv == ObpTypeOK /\ Tracked

LEMMA LengthType == /\ \A t \in Types : Length[t] \in Nat
                    /\ Spectrum \in Types /\ Length[Spectrum] \in Nat
                    /\ Readout \in Nat /\ Readout = Length[Spectrum] + 2 /\ Readout > 2
BY LengthAssumption DEF Types, Readout

LEMMA BlankType == /\ NoReply \in Reply /\ Blank.reply = NoReply /\ Blank.part = "blank"
                   /\ NoReply.length = 0 /\ NoReply.of = 0
BY LengthType DEF NoReply, Reply, Blank

\* Every cell, and what a buffer has before any, says what reply it is of.
LEMMA CellReply ==
  ASSUME NEW c \in Cell \cup {Blank}
  PROVE  c.reply \in Reply /\ c.reply.of \in Nat /\ c.reply.length \in Nat
<1>1. c.reply \in Reply
  BY BlankType DEF Cell
<1> QED
  BY <1>1 DEF Reply

LEMMA KnownTypes == \A n \in Nat : Known(n) \in SUBSET Cell /\ Known(n) \in SUBSET Known(n + 1)
<1>1. \A n \in Nat : 1 .. n \in SUBSET (1 .. n + 1)
  OBVIOUS
<1> QED
  BY <1>1 DEF Known

LEMMA CellsProperties ==
  ASSUME NEW r \in Reply
  PROVE  /\ r.length \in Nat
         /\ Cells(r) \in Seq(Cell) /\ Len(Cells(r)) = r.length + 2
         /\ \A i \in 1 .. r.length + 2 : Cells(r)[i].reply = r
         /\ Cells(r)[1].part = "header" /\ Cells(r)[r.length + 2].part = "trailer"
         /\ \A n \in Nat : r.of \in 1 .. n => Cells(r) \in Seq(Known(n))
<1>1. r.length \in Nat
  BY DEF Reply
<1>2. r.length + 2 \in Nat /\ 1 \in 1 .. r.length + 2 /\ r.length + 2 \in 1 .. r.length + 2
      /\ r.length + 2 # 1
  BY <1>1
<1> DEFINE e(i) == [part |-> IF i = 1 THEN "header"
                             ELSE IF i = r.length + 2 THEN "trailer" ELSE "payload",
                    reply |-> r]
<1>3. \A i \in 1 .. r.length + 2 : e(i) \in Cell /\ e(i).reply = r
  BY DEF Cell
<1>4. Cells(r) = [i \in 1 .. r.length + 2 |-> e(i)]
  BY DEF Cells
<1>5. e(1).part = "header" /\ e(r.length + 2).part = "trailer"
  BY <1>2
<1> HIDE DEF e
<1>6. \A i \in 1 .. r.length + 2 : Cells(r)[i] = e(i)
  BY <1>4
<1>7. Cells(r) \in Seq(Cell) /\ Len(Cells(r)) = r.length + 2
  BY <1>2, <1>3, <1>4
<1>8. ASSUME NEW n \in Nat, r.of \in 1 .. n
      PROVE  Cells(r) \in Seq(Known(n))
  <2>1. \A i \in 1 .. r.length + 2 : e(i) \in Known(n)
    BY <1>3, <1>8 DEF Known
  <2> QED
    BY <1>2, <1>4, <2>1
<1> QED
  BY <1>1, <1>2, <1>3, <1>5, <1>6, <1>7, <1>8

\* The ways an exchange is begun and ended.
LEMMA StepsOfHost ==
  ASSUME host \in Hosts
  PROVE  /\ host.at \in {"idle", "header", "rest", "spectrum"} /\ host.type \in Types
         /\ host.last \in Nat
         /\ \A a \in {"idle", "header", "spectrum"}, t \in Types :
              /\ Start(a, t) \in Hosts /\ Start(a, t).at = a /\ Start(a, t).type = t
              /\ Start(a, t).result = Without
              /\ Start(a, t).got = host.got /\ Start(a, t).last = host.last
         /\ \A is \in {"throw", "null", "false"} :
              /\ Return(is) \in Hosts /\ Return(is).at = "idle" /\ Return(is).type = host.type
              /\ Return(is).got = << >> /\ Return(is).last = host.last
              /\ Return(is).result # Without /\ Return(is).result.is = is
         /\ \A is \in {"data", "true"}, r \in Reply, b \in BOOLEAN :
              /\ Answers(is, r, b) \in Hosts /\ Answers(is, r, b).at = "idle"
              /\ Answers(is, r, b).type = host.type
              /\ Answers(is, r, b).got = << >> /\ Answers(is, r, b).last = r.of
              /\ Answers(is, r, b).result.is = is /\ Answers(is, r, b).result.of = r.of
<1>1. << >> \in Seq(Cell \cup {Blank}) /\ Without \in Result
  BY EmptySeq DEF Without, Result
<1>2. host.at \in {"idle", "header", "rest", "spectrum"} /\ host.type \in Types /\ host.last \in Nat
  BY DEF Hosts
<1>3. ASSUME NEW a \in {"idle", "header", "spectrum"}, NEW t \in Types
      PROVE  /\ Start(a, t) \in Hosts /\ Start(a, t).at = a /\ Start(a, t).type = t
             /\ Start(a, t).result = Without
             /\ Start(a, t).got = host.got /\ Start(a, t).last = host.last
  BY <1>1 DEF Start, Hosts
<1>4. ASSUME NEW is \in {"throw", "null", "false"}
      PROVE  /\ Return(is) \in Hosts /\ Return(is).at = "idle" /\ Return(is).type = host.type
             /\ Return(is).got = << >> /\ Return(is).last = host.last
             /\ Return(is).result # Without /\ Return(is).result.is = is
  <2>1. [Without EXCEPT !.is = is] \in Result /\ [Without EXCEPT !.is = is].is = is /\ Without.is = "none"
    BY DEF Without, Result
  <2>2. Return(is).result = [Without EXCEPT !.is = is]
    BY DEF Return, Hosts
  <2> QED
    BY <1>1, <2>1, <2>2 DEF Return, Hosts
<1>5. ASSUME NEW is \in {"data", "true"}, NEW r \in Reply, NEW b \in BOOLEAN
      PROVE  /\ Answers(is, r, b) \in Hosts /\ Answers(is, r, b).at = "idle"
             /\ Answers(is, r, b).type = host.type
             /\ Answers(is, r, b).got = << >> /\ Answers(is, r, b).last = r.of
             /\ Answers(is, r, b).result.is = is /\ Answers(is, r, b).result.of = r.of
  <2> DEFINE res == [is |-> is, of |-> r.of, whole |-> b]
  <2>1. res \in Result /\ r.of \in Nat /\ res.is = is /\ res.of = r.of
    BY DEF Result, Reply
  <2>2. Answers(is, r, b).result = res
    BY DEF Answers, Hosts
  <2> HIDE DEF res
  <2>3. Answers(is, r, b) = [host EXCEPT !.at = "idle", !.got = << >>, !.last = r.of, !.result = res]
    BY DEF Answers, res
  <2> QED
    BY <1>1, <2>1, <2>2, <2>3 DEF Hosts
<1> QED
  BY <1>2, <1>3, <1>4, <1>5

-----------------------------------------------------------------------------
(* One read.                                                               *)

LEMMA WantedType ==
  ASSUME ObpInv, host.at # "idle"
  PROVE  /\ Wanted \in Nat
         /\ host.at = "header" => Wanted = 2
         /\ host.at = "rest" => /\ Wanted = host.got[1].reply.length
                                /\ host.got[1] \in Cell \cup {Blank}
         /\ host.at = "spectrum" => Wanted = Readout
<1>1. host.at \in {"idle", "header", "rest", "spectrum"} /\ host.got \in Seq(Cell \cup {Blank})
  BY DEF ObpInv, ObpTypeOK
<1>2. CASE host.at = "rest"
  <2>1. host.got[1] \in Cell \cup {Blank}
    BY <1>1, <1>2, ElementOfSeq DEF ObpInv, Tracked
  <2>2. Wanted = host.got[1].reply.length
    BY <1>2 DEF Wanted
  <2> QED
    BY <1>2, <2>1, <2>2, CellReply
<1> QED
  BY <1>1, <1>2, LengthType DEF Wanted

\* A read takes what is on the wire, and no more than was asked for.
LEMMA TakenBounded ==
  ASSUME ObpInv, host.at # "idle", NEW j \in Taken
  PROVE  j \in 0 .. Len(wire) /\ j <= Wanted
<1>1. Len(wire) \in Nat /\ Wanted \in Nat
  BY WantedType, LenProperties DEF ObpInv, Tracked
<1>2. OfFirst \in SUBSET (1 .. Len(wire))
  BY DEF OfFirst
<1> QED
  BY <1>1, <1>2 DEF Taken, UsbTaken, StreamTaken

\* What is read is of known replies.
LEMMA ReadKnown ==
  ASSUME ObpInv, NEW j \in 0 .. Len(wire)
  PROVE  /\ SubSeq(wire, 1, j) \in Seq(Known(Calls)) /\ Len(SubSeq(wire, 1, j)) = j
         /\ SubSeq(wire, j + 1, Len(wire)) \in Seq(Known(Calls))
         /\ SubSeq(wire, j + 1, Len(wire)) \in Seq(Cell)
<1>1. SubSeq(wire, j + 1, Len(wire)) \in Seq(Known(Calls))
  BY Cut DEF ObpInv, Tracked
<1>2. Known(Calls) \in SUBSET Cell
  BY DEF Known
<1> QED
  BY <1>1, <1>2, Cut, SeqMonotonic DEF ObpInv, Tracked

\* How an exchange can go on with a read: to the rest of a payload, or to its
\* end, with or without an answer.
GoesOn(cells) ==
  /\ host.at = "header" /\ host' = [host EXCEPT !.at = "rest", !.got = cells]
  /\ cells \in Seq(Seen) /\ Len(cells) = 2
EndsEmpty == \E is \in {"throw", "null", "false"} : host' = Return(is)
EndsWith(r) == \E is \in {"data", "true"}, b \in BOOLEAN : host' = Answers(is, r, b)

\* A buffer whose first cell is a header has the reply of a request.
LEMMA HeaderKnown ==
  ASSUME NEW c \in Seen, c.part = "header"
  PROVE  c.reply \in Reply /\ c.reply.of \in 1 .. Calls
<1>1. c \in Known(Calls)
  BY BlankType DEF Seen
<1> QED
  BY <1>1 DEF Known, Cell

LEMMA SeenTypes == /\ Seen \in SUBSET (Cell \cup {Blank}) /\ Known(Calls) \in SUBSET Seen
                   /\ {Blank} \in SUBSET Seen
BY DEF Seen, Known

LEMMA ReceivedSteps ==
  ASSUME ObpInv, host.at # "idle", NEW cells \in Seq(Known(Calls)), Len(cells) <= Wanted,
         Received(cells)
  PROVE  /\ \/ \E both \in Seq(Seen) : GoesOn(both)
            \/ EndsEmpty
            \/ \E r \in Reply : r.of \in 1 .. Calls /\ EndsWith(r)
         /\ buffer' \in Seq(Seen) /\ Len(buffer') = Readout
<1>0. /\ host.got \in Seq(Seen) /\ buffer \in Seq(Seen) /\ Len(buffer) = Readout
      /\ Wanted \in Nat /\ cells \in Seq(Seen)
      /\ \A n \in Nat : Blanks(n) \in Seq(Seen) /\ Len(Blanks(n)) = n
  <2>1. cells \in Seq(Seen)
    BY SeenTypes, SeqMonotonic
  <2>2. \A n \in Nat : Blanks(n) \in Seq(Seen) /\ Len(Blanks(n)) = n
    BY BlanksType, SeenTypes, SeqMonotonic
  <2> QED
    BY <2>1, <2>2, WantedType DEF ObpInv, ObpTypeOK, Tracked
<1>1. CASE host.at = "header"
  <2> DEFINE two == Into(Blanks(2), cells)
  <2>1. two \in Seq(Seen) /\ Len(two) = 2
    <3>1. /\ Blanks(2) \in Seq(Seen) /\ Len(Blanks(2)) = 2
          /\ cells \in Seq(Seen) /\ Len(cells) <= Len(Blanks(2))
      BY <1>0, <1>1, WantedType
    <3> QED
      BY <3>1, IntoProperties
  <2>2. /\ host' = IF host.type \in CommandTypes THEN AfterCommandHeader(two) ELSE AfterQueryHeader(two)
        /\ UNCHANGED buffer
    BY <1>1 DEF Received
  <2> HIDE DEF two
  <2>3. two[1] \in Seen
    <3>1. 1 \in 1 .. Len(two)
      BY <2>1
    <3> QED
      BY <2>1, <3>1, ElementOfSeq
  <2>4. CASE two[1].part # "header"
    BY <1>0, <2>2, <2>4 DEF AfterCommandHeader, AfterQueryHeader, EndsEmpty
  <2>5. CASE two[1].part = "header"
    <3>1. two[1].reply \in Reply /\ two[1].reply.of \in 1 .. Calls
      BY <2>3, <2>5, HeaderKnown
    <3>2. IsWhole(two) \in BOOLEAN
      BY DEF IsWhole
    <3>3. CASE host.type \in CommandTypes
      <4>1. host' = AfterCommandHeader(two)
        BY <2>2, <3>3
      <4> QED
        BY <1>0, <2>2, <2>5, <3>1, <4>1 DEF AfterCommandHeader, EndsEmpty, EndsWith
    <3>4. CASE host.type \notin CommandTypes
      <4>1. host' = AfterQueryHeader(two)
        BY <2>2, <3>4
      <4>2. CASE two[1].reply.flag = "nack" \/ two[1].reply.type # host.type
        BY <1>0, <2>2, <2>5, <4>1, <4>2 DEF AfterQueryHeader, EndsEmpty
      <4>3. CASE ~(two[1].reply.flag = "nack" \/ two[1].reply.type # host.type)
                 /\ two[1].reply.length > 0
        <5>1. host' = [host EXCEPT !.at = "rest", !.got = two]
          BY <2>5, <4>1, <4>3 DEF AfterQueryHeader
        <5> QED
          BY <1>0, <1>1, <2>1, <2>2, <5>1 DEF GoesOn
      <4>4. CASE ~(two[1].reply.flag = "nack" \/ two[1].reply.type # host.type)
                 /\ ~(two[1].reply.length > 0)
        <5>1. host' = ParseQuery(two)
          BY <2>5, <4>1, <4>4 DEF AfterQueryHeader
        <5> QED
          BY <1>0, <2>2, <3>1, <3>2, <5>1 DEF ParseQuery, EndsEmpty, EndsWith
      <4> QED
        BY <4>2, <4>3, <4>4
    <3> QED
      BY <3>3, <3>4
  <2> QED
    BY <2>4, <2>5
<1>2. CASE host.at = "rest"
  <2> DEFINE all == host.got \o Into(Blanks(Wanted), cells)
  <2>1. all \in Seq(Seen) /\ Len(all) >= 2
    <3>1. Into(Blanks(Wanted), cells) \in Seq(Seen) /\ Len(Into(Blanks(Wanted), cells)) = Wanted
      BY <1>0, IntoProperties
    <3>2. host.got \in Seq(Seen) /\ Len(host.got) = 2
      BY <1>0, <1>2 DEF ObpInv, Tracked
    <3>3. all \in Seq(Seen) /\ Len(all) = Len(host.got) + Len(Into(Blanks(Wanted), cells))
      BY <3>1, <3>2, ConcatProperties
    <3> QED
      BY <1>0, <3>1, <3>2, <3>3
  <2>2. host' = ParseQuery(all) /\ UNCHANGED buffer
    BY <1>2 DEF Received
  <2> HIDE DEF all
  <2>3. all[1] \in Seen
    <3>1. Len(all) \in Nat
      BY <2>1, LenProperties
    <3> QED
      BY <2>1, <3>1, ElementOfSeq
  <2>4. Parses(all) => all[1].reply \in Reply /\ all[1].reply.of \in 1 .. Calls
    BY <2>3, HeaderKnown DEF Parses
  <2> QED
    BY <1>0, <2>2, <2>4 DEF ParseQuery, EndsEmpty, EndsWith, IsWhole
<1>3. CASE host.at = "spectrum"
  <2>1. buffer' = Into(buffer, cells) /\ host' = AfterSpectrum(buffer')
    BY <1>3 DEF Received
  <2>2. buffer' \in Seq(Seen) /\ Len(buffer') = Readout
    BY <1>0, <1>3, <2>1, WantedType, IntoProperties
  <2>3. buffer'[1] \in Seen
    BY <2>2, LengthType, ElementOfSeq
  <2> DEFINE new == buffer'
  <2>4. host' = AfterSpectrum(new) /\ new[1] \in Seen
    BY <2>1, <2>3
  <2> HIDE DEF new
  <2>5. Parses(new) => new[1].reply \in Reply /\ new[1].reply.of \in 1 .. Calls
    BY <2>4, HeaderKnown DEF Parses
  <2>6. EndsEmpty \/ \E r \in Reply : r.of \in 1 .. Calls /\ EndsWith(r)
    BY <2>4, <2>5 DEF AfterSpectrum, EndsEmpty, EndsWith, IsWhole
  <2> QED
    BY <2>2, <2>6
<1> QED
  BY <1>1, <1>2, <1>3 DEF Received

-----------------------------------------------------------------------------
(* The type invariant, and that every cell is of a request that was made.  *)

LEMMA InitTracked == ObpInit => ObpInv
<1>1. SUFFICES ASSUME ObpInit
               PROVE  ObpInv
  OBVIOUS
<1>2. /\ << >> \in Seq(Cell) /\ << >> \in Seq(Known(Calls)) /\ << >> \in Seq(Cell \cup {Blank})
      /\ << >> \in Seq(Seen) /\ Len(<< >>) = 0
      /\ << >> \in Seq([n : Nat, type : Types]) /\ << >> \in Seq([n : 1 .. Calls, type : Types])
      /\ << >> \in Seq({"pending", "data", "ack", "nack"})
  BY EmptySeq
<1>3. buffer \in Seq(Cell \cup {Blank}) /\ buffer \in Seq(Seen) /\ Len(buffer) = Readout
  <2>1. buffer = Blanks(Readout)
    BY <1>1 DEF ObpInit, Blanks
  <2>2. Blanks(Readout) \in Seq({Blank}) /\ Len(Blanks(Readout)) = Readout
    BY LengthType, BlanksType
  <2>3. {Blank} \in SUBSET (Cell \cup {Blank}) /\ {Blank} \in SUBSET Seen
    BY SeenTypes
  <2> HIDE DEF Blank
  <2>4. Blanks(Readout) \in Seq(Cell \cup {Blank}) /\ Blanks(Readout) \in Seq(Seen)
    BY <2>2, <2>3, SeqMonotonic
  <2> QED
    BY <2>1, <2>2, <2>4
<1>4. Without \in Result
  BY DEF Without, Result
<1>5. ObpTypeOK
  <2>1. /\ host \in Hosts /\ Len(host.got) <= 2
    BY <1>1, <1>2, <1>4, LengthType DEF ObpInit, Hosts
  <2>2. faults \in 0 .. MaxFaults
    BY <1>1, ObpBoundsAssumption DEF ObpInit
  <2>3. /\ transport \in {"usb", "rs232", "tcp"} /\ pending \in BOOLEAN
        /\ inbox \in Seq([n : Nat, type : Types]) /\ wire \in Seq(Cell)
        /\ verdict \in Seq({"pending", "data", "ack", "nack"})
    BY <1>1, <1>2 DEF ObpInit
  <2> QED
    BY <1>3, <2>1, <2>2, <2>3 DEF ObpTypeOK, Hosts
<1>6. Tracked
  BY <1>1, <1>2, <1>3 DEF ObpInit, Tracked
<1> QED
  BY <1>5, <1>6 DEF ObpInv

\* What a step has to keep.  The parts of the invariant about the host, about
\* the bus and about what the device said, for one more request or for none.
HostTracked(h, n) ==
  /\ h \in Hosts /\ Len(h.got) <= 2 /\ h.got \in Seq(Known(n) \cup {Blank})
  /\ h.at = "rest" => Len(h.got) = 2
BusTracked(i, w, n) ==
  /\ i \in Seq([n : 1 .. n, type : Types]) /\ w \in Seq(Known(n))
BufferTracked(b, n) ==
  /\ b \in Seq(Known(n) \cup {Blank}) /\ Len(b) = Readout
SaidTracked(v) == v \in Seq({"pending", "data", "ack", "nack"})

LEMMA InvInParts ==
  ASSUME ObpInv
  PROVE  /\ HostTracked(host, Calls) /\ BusTracked(inbox, wire, Calls)
         /\ BufferTracked(buffer, Calls) /\ SaidTracked(verdict) /\ Calls \in Nat
         /\ pending \in BOOLEAN /\ transport \in {"usb", "rs232", "tcp"}
         /\ faults \in 0 .. MaxFaults
BY LenProperties
   DEF ObpInv, ObpTypeOK, Tracked, HostTracked, BusTracked, BufferTracked, SaidTracked,
       Hosts, Calls, Seen

LEMMA PartsMakeInv ==
  ASSUME HostTracked(host, Calls)', BusTracked(inbox, wire, Calls)', BufferTracked(buffer, Calls)',
         SaidTracked(verdict)', pending' \in BOOLEAN, transport' \in {"usb", "rs232", "tcp"},
         faults' \in 0 .. MaxFaults
  PROVE  ObpInv'
<1> DEFINE n == Calls'
<1>0. n \in Nat
  BY LenProperties DEF SaidTracked, Calls
<1>1. /\ Known(n) \in SUBSET Cell /\ Known(n) \cup {Blank} \in SUBSET (Cell \cup {Blank})
      /\ [n : 1 .. n, type : Types] \in SUBSET [n : Nat, type : Types]
  BY <1>0 DEF Known
<1>2. /\ inbox' \in Seq([n : 1 .. n, type : Types]) /\ wire' \in Seq(Known(n))
      /\ buffer' \in Seq(Known(n) \cup {Blank}) /\ Len(buffer') = Readout
  BY DEF BusTracked, BufferTracked
<1> HIDE DEF n
<1>3. inbox' \in Seq([n : Nat, type : Types]) /\ wire' \in Seq(Cell) /\ buffer' \in Seq(Cell \cup {Blank})
  <2>1. ASSUME NEW S, NEW T, S \in SUBSET T, NEW s \in Seq(S)
        PROVE  s \in Seq(T)
    BY <2>1, SeqMonotonic
  <2>2. inbox' \in Seq([n : Nat, type : Types])
    <3> DEFINE some == [n : 1 .. n, type : Types]
               all  == [n : Nat, type : Types]
    <3>1. inbox' \in Seq(some) /\ some \in SUBSET all
      BY <1>1, <1>2
    <3> HIDE DEF some, all
    <3>2. inbox' \in Seq(all)
      BY <2>1, <3>1
    <3> QED
      BY <3>2 DEF all
  <2>3. wire' \in Seq(Cell)
    BY <1>1, <1>2, <2>1, Zenon
  <2>4. buffer' \in Seq(Cell \cup {Blank})
    <3>1. buffer' \in Seq(Known(n) \cup {Blank}) /\ Known(n) \cup {Blank} \in SUBSET (Cell \cup {Blank})
      BY <1>1, <1>2
    <3> HIDE DEF Blank
    <3>2. QED
      BY <2>1, <3>1, Zenon
  <2> QED
    BY <2>2, <2>3, <2>4
<1>4. ObpTypeOK'
  BY <1>2, <1>3 DEF ObpTypeOK, HostTracked, SaidTracked, Hosts
<1>5. Tracked'
  BY <1>2 DEF Tracked, HostTracked, Seen, n
<1> QED
  BY <1>4, <1>5 DEF ObpInv

\* A request more, and all that was known still is.
LEMMA OneMore ==
  ASSUME NEW n \in Nat, NEW i, NEW w, NEW h, NEW b,
         HostTracked(h, n), BusTracked(i, w, n), BufferTracked(b, n)
  PROVE  /\ HostTracked(h, n + 1) /\ BusTracked(i, w, n + 1) /\ BufferTracked(b, n + 1)
         /\ \A t \in Types : BusTracked(Append(i, [n |-> n + 1, type |-> t]), w, n + 1)
<1>1. /\ Known(n) \in SUBSET Known(n + 1)
      /\ Known(n) \cup {Blank} \in SUBSET (Known(n + 1) \cup {Blank})
  BY KnownTypes
<1>2. [n : 1 .. n, type : Types] \in SUBSET [n : 1 .. n + 1, type : Types]
  OBVIOUS
<1>3. HostTracked(h, n + 1)
  BY <1>1, SeqMonotonic DEF HostTracked
<1>4. i \in Seq([n : 1 .. n + 1, type : Types]) /\ w \in Seq(Known(n + 1))
  BY <1>1, <1>2, SeqMonotonic DEF BusTracked
<1>5. BufferTracked(b, n + 1)
  BY <1>1, SeqMonotonic DEF BufferTracked
<1>6. ASSUME NEW t \in Types
      PROVE  Append(i, [n |-> n + 1, type |-> t]) \in Seq([n : 1 .. n + 1, type : Types])
  <2>1. [n |-> n + 1, type |-> t] \in [n : 1 .. n + 1, type : Types]
    OBVIOUS
  <2> DEFINE S == [n : 1 .. n + 1, type : Types]
  <2>2. [n |-> n + 1, type |-> t] \in S /\ i \in Seq(S)
    BY <1>4, <2>1
  <2> HIDE DEF S
  <2>3. Append(i, [n |-> n + 1, type |-> t]) \in Seq(S)
    BY <2>2
  <2> QED
    BY <2>3 DEF S
<1> QED
  BY <1>3, <1>4, <1>5, <1>6 DEF BusTracked

LEMMA RepliesType ==
  ASSUME NEW n \in Nat, NEW t \in Types, NEW r \in Replies([n |-> n, type |-> t])
  PROVE  /\ r \in Reply /\ r.of = n /\ r.type = t /\ r.flag \in {"data", "ack", "nack"}
         /\ r.flag = "nack" => r.length = 0
         /\ r.flag # "nack" =>
              r.length = Length[t] /\ r.flag = IF t \in CommandTypes THEN "ack" ELSE "data"
BY LengthType DEF Replies, Reply

LEMMA AnswerTracked ==
  ASSUME ObpInv, DeviceAnswers
  PROVE  ObpInv' /\ Calls' = Calls
<1>1. /\ Calls \in Nat /\ inbox # << >> /\ inbox \in Seq([n : 1 .. Calls, type : Types])
      /\ wire \in Seq(Known(Calls)) /\ verdict \in Seq({"pending", "data", "ack", "nack"})
  BY InvInParts DEF DeviceAnswers, BusTracked, SaidTracked
<1> DEFINE request == Head(inbox)
<1>2. request.n \in 1 .. Calls /\ request.type \in Types
      /\ request = [n |-> request.n, type |-> request.type]
      /\ Tail(inbox) \in Seq([n : 1 .. Calls, type : Types])
  <2> DEFINE S == [n : 1 .. Calls, type : Types]
  <2>1. request \in S /\ Tail(inbox) \in Seq(S)
    BY <1>1, HeadTailProperties
  <2> QED
    BY <2>1
<1> HIDE DEF request
<1>3. PICK r \in Replies(request) :
        /\ verdict' = [verdict EXCEPT ![r.of] = r.flag]
        /\ \/ wire' = wire \o Cells(r) /\ UNCHANGED faults
           \/ Fault /\ \E j \in 0 .. r.length + 1 : wire' = wire \o SubSeq(Cells(r), 1, j)
  BY DEF DeviceAnswers, request
<1>4. r \in Reply /\ r.of \in 1 .. Calls /\ r.flag \in {"data", "ack", "nack"}
  <2>1. r \in Replies([n |-> request.n, type |-> request.type]) /\ request.n \in Nat
    BY <1>1, <1>2, <1>3
  <2> QED
    BY <1>2, <2>1, RepliesType
<1>5. SaidTracked(verdict)' /\ Calls' = Calls
  <2>1. r.of \in 1 .. Len(verdict) /\ r.flag \in {"pending", "data", "ack", "nack"}
    BY <1>4 DEF Calls
  <2> QED
    BY <1>1, <1>3, <2>1, ExceptSeq DEF SaidTracked, Calls
<1>6. /\ r.length \in Nat /\ Cells(r) \in Seq(Known(Calls)) /\ Len(Cells(r)) = r.length + 2
  BY <1>1, <1>4, CellsProperties
<1>7. wire' \in Seq(Known(Calls))
  <2>1. CASE wire' = wire \o Cells(r)
    BY <1>1, <1>6, <2>1, ConcatProperties
  <2>2. ASSUME NEW j \in 0 .. r.length + 1, wire' = wire \o SubSeq(Cells(r), 1, j)
        PROVE  wire' \in Seq(Known(Calls))
    <3>1. j \in 0 .. Len(Cells(r))
      BY <1>6
    <3>2. SubSeq(Cells(r), 1, j) \in Seq(Known(Calls))
      BY <1>6, <3>1, Cut
    <3> QED
      BY <1>1, <2>2, <3>2, ConcatProperties
  <2> QED
    BY <1>3, <2>1, <2>2
<1>8. faults' \in 0 .. MaxFaults
  BY <1>3, InvInParts, ObpBoundsAssumption DEF Fault
<1>9. BusTracked(inbox, wire, Calls)'
  BY <1>2, <1>5, <1>7 DEF BusTracked, DeviceAnswers, request
<1>10. HostTracked(host, Calls)' /\ BufferTracked(buffer, Calls)'
  BY <1>5, InvInParts DEF DeviceAnswers, HostTracked, BufferTracked
<1>11. pending' \in BOOLEAN /\ transport' \in {"usb", "rs232", "tcp"}
  BY InvInParts DEF DeviceAnswers
<1> QED
  BY <1>5, <1>8, <1>9, <1>10, <1>11, PartsMakeInv

LEMMA SendTracked ==
  ASSUME ObpInv, NEW t \in Types, Send(t) \/ SendFails(t)
  PROVE  ObpInv' /\ Calls' = Calls + 1
<1>0. /\ Calls \in Nat /\ host.at = "idle" /\ host \in Hosts
      /\ HostTracked(host, Calls) /\ BusTracked(inbox, wire, Calls) /\ BufferTracked(buffer, Calls)
      /\ verdict \in Seq({"pending", "data", "ack", "nack"})
  BY InvInParts DEF Send, SendFails, MayCall, HostTracked, SaidTracked
<1>1. verdict' = Append(verdict, "pending") /\ UNCHANGED <<transport, wire, buffer>>
  BY DEF Send, SendFails
<1>2. SaidTracked(verdict)' /\ Calls' = Calls + 1
  <2>1. "pending" \in {"pending", "data", "ack", "nack"}
    OBVIOUS
  <2> QED
    BY <1>0, <1>1, <2>1, AppendProperties DEF SaidTracked, Calls
<1>3. BusTracked(inbox, wire, Calls)' /\ BufferTracked(buffer, Calls)'
  <2>1. inbox' = inbox \/ inbox' = Append(inbox, [n |-> Calls + 1, type |-> t])
    BY DEF Send, SendFails
  <2>2. \/ BusTracked(inbox, wire, Calls + 1) /\ inbox' = inbox
        \/ /\ BusTracked(Append(inbox, [n |-> Calls + 1, type |-> t]), wire, Calls + 1)
           /\ inbox' = Append(inbox, [n |-> Calls + 1, type |-> t])
    BY <1>0, <2>1, OneMore
  <2>3. BusTracked(inbox', wire', Calls')
    BY <1>1, <1>2, <2>2
  <2>4. BufferTracked(buffer, Calls + 1)
    BY <1>0, OneMore
  <2> QED
    BY <1>1, <1>2, <2>3, <2>4
<1>4. HostTracked(host, Calls)'
  <2>1. HostTracked(host, Calls + 1)
    BY <1>0, OneMore
  <2>2. CASE Send(t)
    <3>1. host' = IF t = Spectrum THEN Start("idle", t) ELSE Start("header", t)
      BY <2>2 DEF Send
    <3>2. /\ host' \in Hosts /\ host'.at # "rest" /\ host'.got = host.got
      BY <1>0, <3>1, StepsOfHost
    <3>3. HostTracked(host', Calls')
      BY <1>2, <2>1, <3>2 DEF HostTracked
    <3> QED
      BY <3>3
  <2>3. CASE SendFails(t)
    <3>1. host' = [Return("throw") EXCEPT !.type = t]
      BY <2>3 DEF SendFails
    <3>2. Return("throw") \in Hosts /\ Return("throw").at = "idle" /\ Return("throw").got = << >>
      BY <1>0, StepsOfHost
    <3>3. host' \in Hosts /\ host'.at = "idle" /\ host'.got = << >>
      BY <3>1, <3>2 DEF Hosts
    <3>4. << >> \in Seq(Known(Calls') \cup {Blank}) /\ Len(<< >>) = 0
      BY EmptySeq
    <3>5. HostTracked(host', Calls')
      BY <3>3, <3>4 DEF HostTracked
    <3> QED
      BY <3>5
  <2> QED
    BY <2>2, <2>3
<1>5. faults' \in 0 .. MaxFaults /\ pending' \in BOOLEAN /\ transport' \in {"usb", "rs232", "tcp"}
  <2>1. pending \in BOOLEAN /\ faults \in 0 .. MaxFaults
    BY InvInParts
  <2>2. CASE Send(t)
    BY <2>1, <2>2, InvInParts, ObpBoundsAssumption DEF Send, Fault
  <2>3. CASE SendFails(t)
    BY <2>1, <2>3, InvInParts, ObpBoundsAssumption DEF SendFails, Fault
  <2> QED
    BY <2>2, <2>3
<1> QED
  BY <1>2, <1>3, <1>4, <1>5, PartsMakeInv

LEMMA ReadSpectrumTracked ==
  ASSUME ObpInv, ReadSpectrum
  PROVE  ObpInv' /\ Calls' = Calls
<1>1. Calls' = Calls /\ UNCHANGED <<inbox, wire, verdict, buffer, faults, transport>>
  BY DEF ReadSpectrum, device, Calls
<1>2. host' = Start("spectrum", Spectrum) /\ host \in Hosts
  BY InvInParts DEF ReadSpectrum, HostTracked
<1>3. host' \in Hosts /\ host'.at = "spectrum" /\ host'.got = host.got
  BY <1>2, LengthType, StepsOfHost
<1>4. HostTracked(host', Calls')
  BY <1>1, <1>3, InvInParts DEF HostTracked
<1>5. pending' \in BOOLEAN
  BY DEF ReadSpectrum
<1>6. BusTracked(inbox', wire', Calls') /\ BufferTracked(buffer', Calls') /\ SaidTracked(verdict')
  BY <1>1, InvInParts
<1> QED
  BY <1>1, <1>4, <1>5, <1>6, InvInParts, PartsMakeInv

\* A read, whether it goes well, comes back short or throws.
LEMMA ExchangeReads ==
  ASSUME ObpInv, Exchange
  PROVE  /\ host.at # "idle"
         /\ UNCHANGED <<transport, pending, inbox, verdict>> /\ Calls' = Calls
         /\ \/ UNCHANGED faults
            \/ Fault
         /\ wire' \in Seq(Known(Calls))
         /\ \/ \E both \in Seq(Seen) : GoesOn(both)
            \/ EndsEmpty
            \/ \E r \in Reply : r.of \in 1 .. Calls /\ EndsWith(r)
         /\ buffer' \in Seq(Seen) /\ Len(buffer') = Readout
<1>0. /\ wire \in Seq(Known(Calls)) /\ Len(wire) \in Nat
      /\ buffer \in Seq(Seen) /\ Len(buffer) = Readout
  BY LenProperties DEF ObpInv, ObpTypeOK, Tracked
<1>1. CASE Receive
  <2>1. PICK j \in Taken : Received(SubSeq(wire, 1, j)) /\ wire' = SubSeq(wire, j + 1, Len(wire))
    BY <1>1 DEF Receive
  <2>2. host.at # "idle" /\ UNCHANGED <<transport, pending, inbox, verdict, faults>>
    BY <1>1 DEF Receive, device
  <2>3. j \in 0 .. Len(wire) /\ j <= Wanted
    BY <2>1, <2>2, TakenBounded
  <2>4. wire' \in Seq(Known(Calls)) /\ SubSeq(wire, 1, j) \in Seq(Known(Calls))
        /\ Len(SubSeq(wire, 1, j)) <= Wanted
    BY <2>1, <2>3, ReadKnown
  <2> QED
    BY <2>1, <2>2, <2>4, ReceivedSteps DEF Calls
<1>2. CASE ReceiveFails
  <2>1. PICK j \in 0 .. MinOf(Wanted, Len(wire)) : wire' = SubSeq(wire, j + 1, Len(wire))
    BY <1>2 DEF ReceiveFails
  <2>2. /\ host.at # "idle" /\ Fault /\ host' = Return("throw")
        /\ UNCHANGED <<transport, pending, inbox, verdict, buffer>>
    BY <1>2 DEF ReceiveFails, device
  <2>3. j \in 0 .. Len(wire)
    BY <1>0, <2>1, <2>2, WantedType DEF MinOf
  <2>4. wire' \in Seq(Known(Calls))
    BY <2>1, <2>3, ReadKnown
  <2> QED
    BY <1>0, <2>2, <2>4 DEF EndsEmpty, Calls
<1>3. CASE ReceiveShort
  <2>1. PICK j \in 0 .. MinOf(Wanted - 1, Len(wire)) :
          Received(SubSeq(wire, 1, j)) /\ wire' = SubSeq(wire, j + 1, Len(wire))
    BY <1>3 DEF ReceiveShort
  <2>2. host.at # "idle" /\ Fault /\ UNCHANGED <<transport, pending, inbox, verdict>>
    BY <1>3 DEF ReceiveShort, device
  <2>3. j \in 0 .. Len(wire) /\ j <= Wanted
    BY <1>0, <2>1, <2>2, WantedType DEF MinOf
  <2>4. wire' \in Seq(Known(Calls)) /\ SubSeq(wire, 1, j) \in Seq(Known(Calls))
        /\ Len(SubSeq(wire, 1, j)) <= Wanted
    BY <2>1, <2>3, ReadKnown
  <2> QED
    BY <2>1, <2>2, <2>4, ReceivedSteps DEF Calls
<1> QED
  BY <1>1, <1>2, <1>3 DEF Exchange

LEMMA ExchangeTracked ==
  ASSUME ObpInv, Exchange
  PROVE  ObpInv'
<1>0. host \in Hosts /\ Calls \in Nat
  BY InvInParts DEF HostTracked
<1>1. HostTracked(host', Calls)
  <2>1. ASSUME NEW both \in Seq(Seen), GoesOn(both)
        PROVE  HostTracked(host', Calls)
    <3>1. both \in Seq(Cell \cup {Blank})
      BY SeenTypes, SeqMonotonic
    <3>2. host' \in Hosts /\ host'.got = both /\ Len(both) = 2
      BY <1>0, <2>1, <3>1 DEF GoesOn, Hosts
    <3> QED
      BY <3>2 DEF HostTracked, Seen
  <2>2. ASSUME host' \in Hosts, host'.at = "idle", host'.got = << >>
        PROVE  HostTracked(host', Calls)
    <3>1. << >> \in Seq(Known(Calls) \cup {Blank}) /\ Len(<< >>) = 0
      BY EmptySeq
    <3> QED
      BY <2>2, <3>1 DEF HostTracked
  <2>3. CASE EndsEmpty
    BY <1>0, <2>2, <2>3, StepsOfHost DEF EndsEmpty
  <2>4. ASSUME NEW r \in Reply, EndsWith(r)
        PROVE  HostTracked(host', Calls)
    BY <1>0, <2>2, <2>4, StepsOfHost DEF EndsWith
  <2> QED
    BY <2>1, <2>3, <2>4, ExchangeReads
<1>2. /\ BusTracked(inbox', wire', Calls) /\ BufferTracked(buffer', Calls) /\ Calls' = Calls
      /\ SaidTracked(verdict')
  BY ExchangeReads, InvInParts DEF BusTracked, BufferTracked, Seen
<1>3. faults' \in 0 .. MaxFaults
  BY ExchangeReads, InvInParts, ObpBoundsAssumption DEF Fault
<1>4. pending' \in BOOLEAN /\ transport' \in {"usb", "rs232", "tcp"}
  BY ExchangeReads, InvInParts
<1>5. HostTracked(host', Calls') /\ BusTracked(inbox', wire', Calls') /\ BufferTracked(buffer', Calls')
  BY <1>1, <1>2
<1> QED
  BY <1>2, <1>3, <1>4, <1>5, PartsMakeInv

LEMMA NextTracked ==
  ASSUME ObpInv, [ObpNext]_vars
  PROVE  ObpInv'
<1>1. CASE DeviceAnswers
  BY <1>1, AnswerTracked
<1>2. ASSUME NEW t \in Types, Send(t) \/ SendFails(t)
      PROVE  ObpInv'
  BY <1>2, SendTracked
<1>3. CASE ReadSpectrum
  BY <1>3, ReadSpectrumTracked
<1>4. CASE Exchange
  BY <1>4, ExchangeTracked
<1>5. CASE UNCHANGED vars
  BY <1>5 DEF vars, device, ObpInv, ObpTypeOK, Tracked, Calls, Seen
<1> QED
  BY <1>1, <1>2, <1>3, <1>4, <1>5 DEF ObpNext

LEMMA StaysTracked == ObpSpec => []ObpInv
BY InitTracked, NextTracked, PTL DEF ObpSpec

\* The exchange, its buffers and what is on the bus have their types,
\* whatever the lengths of replies and whatever goes wrong.
THEOREM ObpTypeCorrect == ObpSpec => []ObpTypeOK
<1>1. ObpInv => ObpTypeOK
  BY DEF ObpInv
<1> QED
  BY StaysTracked, <1>1, PTL

-----------------------------------------------------------------------------
(* Exchanges in step with the device.                                      *)

Last(t) == Replies([n |-> Calls, type |-> t])

\* The last request is with the device, or all of its reply is on the bus.
Expected(t) ==
  /\ Calls > 0
  /\ \/ inbox = <<[n |-> Calls, type |-> t]>> /\ wire = << >>
     \/ inbox = << >> /\ \E r \in Last(t) : wire = Cells(r) /\ verdict[Calls] = r.flag

\* The host has read the header of the reply, and all else of it is on the bus.
HalfRead ==
  /\ Calls > 0 /\ inbox = << >>
  /\ \E r \in Last(host.type) :
       /\ r.flag # "nack" /\ verdict[Calls] = r.flag
       /\ host.got = SubSeq(Cells(r), 1, 2)
       /\ wire = SubSeq(Cells(r), 3, Len(Cells(r)))

OnItsWay ==
  faults = 0 =>
    /\ pending => host.at = "idle" /\ host.result = Without
    /\ pending \/ host.at = "spectrum" => Expected(Spectrum)
    /\ host.at = "header" => host.type # Spectrum /\ Expected(host.type)
    /\ host.at = "rest" => HalfRead

InStep == InSync /\ ResultIsVerdict /\ OnItsWay

\* With the cells of one reply on the wire a read takes them all, or as many
\* as it asked for; where it does not end with the reply it takes no less.
LEMMA OneReplyTaken ==
  ASSUME ObpInv, host.at # "idle", NEW r, \A i \in 1 .. Len(wire) : wire[i].reply = r,
         NEW j \in Taken, Wanted > 0
  PROVE  /\ Len(wire) > 0 /\ j = MinOf(Wanted, Len(wire))
         /\ transport # "usb" => Len(wire) >= Wanted
<1>1. Len(wire) \in Nat /\ Wanted \in Nat
  BY WantedType, LenProperties DEF ObpInv, Tracked
<1>2. OfFirst = 1 .. Len(wire)
  <2>1. \A k \in 1 .. Len(wire) : \A i \in 1 .. k : wire[i].reply.of = wire[1].reply.of
    <3>1. TAKE k \in 1 .. Len(wire)
    <3>2. TAKE i \in 1 .. k
    <3>3. i \in 1 .. Len(wire) /\ 1 \in 1 .. Len(wire)
      BY <1>1
    <3>4. wire[i].reply = r /\ wire[1].reply = r
      BY <3>3
    <3> QED
      BY <3>4
  <2> QED
    BY <2>1 DEF OfFirst
<1>3. CASE transport = "usb"
  <2>1. j \in 1 .. Len(wire) /\ j <= Wanted /\ (j = Wanted \/ j + 1 \notin 1 .. Len(wire))
    BY <1>2, <1>3 DEF Taken, UsbTaken, StreamTaken
  <2> QED
    BY <1>1, <1>3, <2>1 DEF MinOf
<1>4. CASE transport # "usb"
  <2>1. ~(Len(wire) < Wanted) /\ j = Wanted
    BY <1>4 DEF Taken, UsbTaken, StreamTaken
  <2> QED
    BY <1>1, <2>1 DEF MinOf
<1> QED
  BY <1>3, <1>4

\* A buffer that is filled is what it was filled with.
LEMMA IntoAll ==
  ASSUME NEW S, NEW old \in Seq(S), NEW cells \in Seq(S), Len(cells) = Len(old)
  PROVE  Into(old, cells) = cells
<1>1. Len(old) \in Nat /\ Len(cells) <= Len(old)
  BY LenProperties
<1>2. /\ Into(old, cells) \in Seq(S) /\ Len(Into(old, cells)) = Len(old)
      /\ \A i \in 1 .. Len(old) : Into(old, cells)[i] = IF i <= Len(cells) THEN cells[i] ELSE old[i]
  BY <1>1, IntoProperties
<1>3. \A i \in 1 .. Len(old) : Into(old, cells)[i] = cells[i]
  BY <1>1, <1>2
<1> HIDE DEF Into
<1> QED
  BY <1>2, <1>3, SeqEqual

\* The parts of a reply: the first two cells, and what is left after them.
LEMMA TwoAndRest ==
  ASSUME NEW r \in Reply
  PROVE  /\ SubSeq(Cells(r), 1, 2) \in Seq(Cell) /\ Len(SubSeq(Cells(r), 1, 2)) = 2
         /\ SubSeq(Cells(r), 1, 2)[1] = Cells(r)[1] /\ SubSeq(Cells(r), 1, 2)[2] = Cells(r)[2]
         /\ SubSeq(Cells(r), 3, Len(Cells(r))) \in Seq(Cell)
         /\ Len(SubSeq(Cells(r), 3, Len(Cells(r)))) = r.length
         /\ \A i \in 1 .. r.length : SubSeq(Cells(r), 3, Len(Cells(r)))[i].reply = r
         /\ r.length = 0 => SubSeq(Cells(r), 3, Len(Cells(r))) = << >>
         /\ SubSeq(Cells(r), 1, 2) \o SubSeq(Cells(r), 3, Len(Cells(r))) = Cells(r)
<1> DEFINE c == Cells(r)
<1>1. /\ r.length \in Nat /\ c \in Seq(Cell) /\ Len(c) = r.length + 2
      /\ \A i \in 1 .. r.length + 2 : c[i].reply = r
  BY CellsProperties
<1> HIDE DEF c
<1>2. /\ SubSeq(c, 1, 2) \in Seq(Cell) /\ Len(SubSeq(c, 1, 2)) = 2
      /\ \A i \in 1 .. 2 : SubSeq(c, 1, 2)[i] = c[i]
      /\ SubSeq(c, 3, Len(c)) \in Seq(Cell) /\ Len(SubSeq(c, 3, Len(c))) = Len(c) - 2
      /\ \A i \in 1 .. Len(c) - 2 : SubSeq(c, 3, Len(c))[i] = c[2 + i]
  <2>1. 2 \in 0 .. Len(c) /\ 2 + 1 = 3
    BY <1>1
  <2> QED
    BY <1>1, <2>1, Cut
<1>3. Len(c) - 2 = r.length /\ \A i \in 1 .. r.length : 2 + i \in 1 .. r.length + 2
  BY <1>1
<1>4. \A i \in 1 .. r.length : SubSeq(c, 3, Len(c))[i].reply = r
  BY <1>1, <1>2, <1>3
<1>5. r.length = 0 => SubSeq(c, 3, Len(c)) = << >>
  <2>1. HAVE r.length = 0
  <2>2. Len(c) = 2
    BY <1>1, <2>1
  <2> QED
    BY <2>2, SubSeqEmpty
<1>6. SubSeq(c, 1, 2) \o SubSeq(c, 3, Len(c)) = c
  <2>1. /\ SubSeq(c, 1, 2) \o SubSeq(c, 3, Len(c)) \in Seq(Cell)
        /\ Len(SubSeq(c, 1, 2) \o SubSeq(c, 3, Len(c))) = 2 + (Len(c) - 2)
        /\ \A i \in 1 .. 2 + (Len(c) - 2) : (SubSeq(c, 1, 2) \o SubSeq(c, 3, Len(c)))[i] =
             IF i <= 2 THEN SubSeq(c, 1, 2)[i] ELSE SubSeq(c, 3, Len(c))[i - 2]
    BY <1>2, ConcatProperties
  <2>2. ASSUME NEW i \in 1 .. Len(c)
        PROVE  (SubSeq(c, 1, 2) \o SubSeq(c, 3, Len(c)))[i] = c[i]
    <3>1. CASE i <= 2
      BY <1>1, <1>2, <2>1, <3>1
    <3>2. CASE ~(i <= 2)
      <4>1. i - 2 \in 1 .. Len(c) - 2 /\ 2 + (i - 2) = i
        BY <1>1, <3>2
      <4> QED
        BY <1>1, <1>2, <2>1, <3>2, <4>1
    <3> QED
      BY <3>1, <3>2
  <2>3. 2 + (Len(c) - 2) = Len(c)
    BY <1>1
  <2> QED
    BY <1>1, <2>1, <2>2, <2>3, SeqEqual
<1>7. 1 \in 1 .. 2 /\ 2 \in 1 .. 2
  OBVIOUS
<1> QED
  BY <1>2, <1>3, <1>4, <1>5, <1>6, <1>7 DEF c

-----------------------------------------------------------------------------
(* A read while nothing has gone wrong.                                    *)

\* The exchange has ended as the device decided, and nothing is left.
Decided(r) ==
  /\ wire' = << >>
  /\ IF r.flag = "nack" THEN EndsEmpty ELSE EndsWith(r)

LEMMA HeaderRead ==
  ASSUME ObpInv, host.at = "header", host.type # Spectrum, NEW r \in Reply,
         r \in Last(host.type), wire = Cells(r), Receive
  PROVE  \/ Decided(r)
         \/ /\ host' = [host EXCEPT !.at = "rest", !.got = SubSeq(Cells(r), 1, 2)]
            /\ wire' = SubSeq(Cells(r), 3, Len(Cells(r))) /\ r.flag # "nack"
<1> DEFINE two == SubSeq(Cells(r), 1, 2)
<1>0. Calls \in Nat /\ host.type \in Types /\ Wanted = 2
  BY InvInParts, WantedType DEF HostTracked, Hosts
<1>1. /\ r.type = host.type /\ r.flag \in {"data", "ack", "nack"}
      /\ r.flag = "nack" => r.length = 0
      /\ r.flag # "nack" => /\ r.length = Length[host.type]
                            /\ r.flag = IF host.type \in CommandTypes THEN "ack" ELSE "data"
  BY <1>0, RepliesType DEF Last
<1>2. /\ r.length \in Nat /\ Len(wire) = r.length + 2 /\ \A i \in 1 .. Len(wire) : wire[i].reply = r
      /\ Cells(r)[1].part = "header" /\ Cells(r)[1].reply = r /\ Cells(r)[2].reply = r
      /\ Cells(r)[r.length + 2].part = "trailer"
  <2>1. /\ r.length \in Nat /\ Len(Cells(r)) = r.length + 2
        /\ \A i \in 1 .. r.length + 2 : Cells(r)[i].reply = r
        /\ Cells(r)[1].part = "header" /\ Cells(r)[r.length + 2].part = "trailer"
    BY CellsProperties
  <2>2. 1 \in 1 .. r.length + 2 /\ 2 \in 1 .. r.length + 2
    BY <2>1
  <2> QED
    BY <2>1, <2>2
<1>3. Received(two) /\ wire' = SubSeq(Cells(r), 3, Len(Cells(r)))
  <2>1. PICK j \in Taken : Received(SubSeq(wire, 1, j)) /\ wire' = SubSeq(wire, j + 1, Len(wire))
    BY DEF Receive
  <2>2. host.at # "idle" /\ Wanted > 0
    BY <1>0
  <2>3. j = MinOf(Wanted, Len(wire))
    BY <1>2, <2>1, <2>2, OneReplyTaken
  <2>4. j = 2 /\ j + 1 = 3
    BY <1>0, <1>2, <2>3 DEF MinOf
  <2> QED
    BY <2>1, <2>4
<1>4. /\ two \in Seq(Cell) /\ Len(two) = 2 /\ two[1] = Cells(r)[1] /\ two[2] = Cells(r)[2]
      /\ r.length = 0 => wire' = << >>
  BY <1>3, TwoAndRest
<1> HIDE DEF two
<1>5. Into(Blanks(2), two) = two
  <2>1. Cell \in SUBSET (Cell \cup {Blank}) /\ {Blank} \in SUBSET (Cell \cup {Blank})
    OBVIOUS
  <2> DEFINE S == Cell \cup {Blank}
  <2>2. Blanks(2) \in Seq({Blank}) /\ Len(Blanks(2)) = 2
    BY BlanksType
  <2> HIDE DEF Blank
  <2>3. two \in Seq(S) /\ Blanks(2) \in Seq(S)
    BY <1>4, <2>1, <2>2, SeqMonotonic
  <2> HIDE DEF S
  <2> QED
    BY <1>4, <2>2, <2>3, IntoAll
<1>6. host' = IF host.type \in CommandTypes THEN AfterCommandHeader(two) ELSE AfterQueryHeader(two)
  BY <1>3, <1>5 DEF Received
<1>7. two[1].part = "header" /\ two[1].reply = r
  BY <1>2, <1>4
<1>8. CASE host.type \in CommandTypes
  <2>1. r.length = 0 /\ (r.flag = "nack" \/ r.flag = "ack")
    BY <1>1, <1>8, LengthAssumption
  <2>2. host' = IF r.flag = "nack" THEN Return("false") ELSE Answers("true", r, TRUE)
    BY <1>1, <1>6, <1>7, <1>8, <2>1 DEF AfterCommandHeader
  <2> QED
    BY <1>4, <2>1, <2>2 DEF Decided, EndsEmpty, EndsWith
<1>9. CASE host.type \notin CommandTypes
  <2>1. host' = AfterQueryHeader(two)
    BY <1>6, <1>9
  <2>2. CASE r.flag = "nack"
    <3>1. host' = Return("throw")
      BY <1>7, <2>1, <2>2 DEF AfterQueryHeader
    <3> QED
      BY <1>1, <1>4, <2>2, <3>1 DEF Decided, EndsEmpty
  <2>3. CASE r.flag # "nack" /\ r.length > 0
    <3>1. host' = [host EXCEPT !.at = "rest", !.got = two]
      BY <1>1, <1>7, <2>1, <2>3 DEF AfterQueryHeader
    <3> QED
      BY <1>3, <2>3, <3>1 DEF two
  <2>4. CASE r.flag # "nack" /\ r.length = 0
    <3>1. host' = ParseQuery(two)
      BY <1>1, <1>7, <2>1, <2>4 DEF AfterQueryHeader
    <3>2. two[two[1].reply.length + 2].part = "trailer"
      BY <1>2, <1>4, <1>7, <2>4
    <3>3. host' = Answers("data", r, IsWhole(two))
      BY <1>7, <3>1, <3>2 DEF ParseQuery, Parses
    <3> QED
      BY <1>4, <2>4, <3>3 DEF Decided, EndsWith, IsWhole
  <2> QED
    BY <1>2, <2>2, <2>3, <2>4
<1> QED
  BY <1>8, <1>9

LEMMA RestRead ==
  ASSUME ObpInv, host.at = "rest", NEW r \in Reply, r \in Last(host.type), r.flag # "nack",
         host.got = SubSeq(Cells(r), 1, 2), wire = SubSeq(Cells(r), 3, Len(Cells(r))), Receive
  PROVE  Decided(r)
<1>1. /\ host.got \in Seq(Cell) /\ wire \in Seq(Cell) /\ Len(wire) = r.length /\ r.length \in Nat
      /\ \A i \in 1 .. Len(wire) : wire[i].reply = r
      /\ host.got \o wire = Cells(r) /\ host.got[1].reply = r
  <2>1. /\ r.length \in Nat /\ \A i \in 1 .. r.length + 2 : Cells(r)[i].reply = r
    BY CellsProperties
  <2>2. 1 \in 1 .. r.length + 2
    BY <2>1
  <2> QED
    BY <2>1, <2>2, TwoAndRest
<1>2. Wanted = Len(wire) /\ host.at # "idle"
  BY <1>1, WantedType
<1>3. Received(wire) /\ wire' = << >>
  <2>1. PICK j \in Taken : Received(SubSeq(wire, 1, j)) /\ wire' = SubSeq(wire, j + 1, Len(wire))
    BY DEF Receive
  <2>2. j = Len(wire)
    <3>1. CASE Wanted > 0
      <4>1. host.at # "idle" /\ (\A i \in 1 .. Len(wire) : wire[i].reply = r)
        BY <1>1, <1>2
      <4>2. j = MinOf(Wanted, Len(wire))
        BY <2>1, <3>1, <4>1, OneReplyTaken
      <4> QED
        BY <1>1, <1>2, <4>2 DEF MinOf
    <3>2. CASE ~(Wanted > 0)
      BY <1>1, <1>2, <2>1, <3>2, TakenBounded
    <3> QED
      BY <3>1, <3>2
  <2>3. SubSeq(wire, 1, Len(wire)) = wire
    BY <1>1, SubSeqFull
  <2>4. SubSeq(wire, Len(wire) + 1, Len(wire)) = << >>
    <3>1. Len(wire) + 1 \in Int /\ Len(wire) \in Int /\ Len(wire) < Len(wire) + 1
      BY <1>1
    <3> QED
      BY <3>1, SubSeqEmpty
  <2> QED
    BY <2>1, <2>2, <2>3, <2>4
<1>4. Into(Blanks(Wanted), wire) = wire
  <2> DEFINE S == Cell \cup {Blank}
  <2>1. Cell \in SUBSET S /\ {Blank} \in SUBSET S
    OBVIOUS
  <2>2. Blanks(Wanted) \in Seq({Blank}) /\ Len(Blanks(Wanted)) = Wanted
    BY <1>1, <1>2, BlanksType
  <2> HIDE DEF S
  <2> HIDE DEF Blank
  <2>3. wire \in Seq(S) /\ Blanks(Wanted) \in Seq(S)
    BY <1>1, <2>1, <2>2, SeqMonotonic
  <2> QED
    BY <1>2, <2>2, <2>3, IntoAll
<1>5. host' = ParseQuery(Cells(r))
  BY <1>1, <1>3, <1>4 DEF Received
<1>6. Parses(Cells(r)) /\ Cells(r)[1].reply = r
  <2>1. /\ r.length \in Nat /\ \A i \in 1 .. r.length + 2 : Cells(r)[i].reply = r
        /\ Cells(r)[1].part = "header" /\ Cells(r)[r.length + 2].part = "trailer"
    BY CellsProperties
  <2>2. Cells(r)[1].reply = r
    <3>1. 1 \in 1 .. r.length + 2
      BY <2>1
    <3> QED
      BY <2>1, <3>1
  <2> QED
    BY <2>1, <2>2 DEF Parses
<1>7. host' = Answers("data", r, IsWhole(Cells(r)))
  BY <1>5, <1>6 DEF ParseQuery
<1> QED
  BY <1>3, <1>7 DEF Decided, EndsWith, IsWhole

LEMMA SpectrumRead ==
  ASSUME ObpInv, host.at = "spectrum", NEW r \in Reply, r \in Last(Spectrum),
         wire = Cells(r), Receive
  PROVE  Decided(r)
<1>0. Calls \in Nat /\ Wanted = Readout /\ Readout \in Nat /\ Readout = Length[Spectrum] + 2
      /\ Spectrum \in Types /\ Spectrum \notin CommandTypes /\ Length[Spectrum] \in Nat
      /\ Length[Spectrum] > 0 /\ Wanted > 0 /\ host.at # "idle"
  BY InvInParts, WantedType, LengthType, LengthAssumption, TypesApart
<1>1. /\ r.flag = "nack" => r.length = 0
      /\ r.flag # "nack" => r.length = Length[Spectrum]
  BY <1>0, RepliesType DEF Last
<1>2. /\ r.length \in Nat /\ wire \in Seq(Cell) /\ Len(wire) = r.length + 2
      /\ \A i \in 1 .. r.length + 2 : wire[i].reply = r
      /\ wire[1].part = "header" /\ wire[r.length + 2].part = "trailer"
  BY CellsProperties
<1>3. Received(wire) /\ wire' = << >>
  <2>1. PICK j \in Taken : Received(SubSeq(wire, 1, j)) /\ wire' = SubSeq(wire, j + 1, Len(wire))
    BY DEF Receive
  <2>2. j = MinOf(Wanted, Len(wire))
    BY <1>0, <1>2, <2>1, OneReplyTaken
  <2>3. j = Len(wire)
    BY <1>0, <1>1, <1>2, <2>2 DEF MinOf
  <2>4. SubSeq(wire, 1, Len(wire)) = wire
    BY <1>2, SubSeqFull
  <2>5. SubSeq(wire, Len(wire) + 1, Len(wire)) = << >>
    <3>1. Len(wire) + 1 \in Int /\ Len(wire) \in Int /\ Len(wire) < Len(wire) + 1
      BY <1>2
    <3> QED
      BY <3>1, SubSeqEmpty
  <2> QED
    BY <2>1, <2>3, <2>4, <2>5
<1> DEFINE S   == Cell \cup {Blank}
           new == Into(buffer, wire)
<1>4. buffer \in Seq(S) /\ wire \in Seq(S) /\ Len(buffer) = Readout
  BY <1>2, SeqMonotonic DEF ObpInv, ObpTypeOK
<1>5. host' = AfterSpectrum(new)
  BY <1>0, <1>3 DEF Received
<1>6. new[1] = wire[1]
  <2>1. Len(wire) <= Len(buffer) /\ 1 \in 1 .. Len(buffer) /\ 1 <= Len(wire)
    BY <1>0, <1>1, <1>2, <1>4
  <2> QED
    BY <1>4, <2>1, IntoProperties
<1>7. new[1].reply = r /\ new[1].part = "header"
  <2>1. 1 \in 1 .. r.length + 2
    BY <1>2
  <2> QED
    BY <1>2, <1>6, <2>1
<1>8. CASE r.flag = "nack"
  <2>1. ~(new[1].reply.length >= Length[Spectrum])
    BY <1>0, <1>1, <1>7, <1>8
  <2> HIDE DEF new
  <2>2. host' = Return("throw")
    BY <1>5, <2>1 DEF AfterSpectrum
  <2> QED
    BY <1>3, <1>8, <2>2 DEF Decided, EndsEmpty
<1>9. CASE r.flag # "nack"
  <2>1. Len(wire) = Len(buffer)
    BY <1>0, <1>1, <1>2, <1>4, <1>9
  <2>2. new = wire
    BY <1>4, <2>1, IntoAll
  <2> HIDE DEF new
  <2>3. Parses(new)
    BY <1>2, <1>7, <2>2 DEF Parses
  <2>4. host' = Answers("data", r, IsWhole(new))
    BY <1>0, <1>1, <1>5, <1>7, <1>9, <2>3 DEF AfterSpectrum
  <2> QED
    BY <1>3, <1>9, <2>4 DEF Decided, EndsWith, IsWhole
<1> QED
  BY <1>8, <1>9

\* A read takes the exchange to the second half of its reply, or to its end
\* as the device decided.
LEMMA ReceiveInStep ==
  ASSUME ObpInv, InStep, faults = 0, Receive
  PROVE  /\ inbox' = << >> /\ UNCHANGED <<pending, verdict, faults>> /\ ~pending /\ Calls > 0
         /\ \/ HalfRead' /\ host'.at = "rest"
            \/ /\ wire' = << >> /\ verdict[Calls] = "nack" /\ EndsEmpty
            \/ /\ wire' = << >> /\ verdict[Calls] # "nack"
               /\ \E r \in Reply : r.of = Calls /\ EndsWith(r)
<1>0. /\ host.at \in {"header", "rest", "spectrum"} /\ ~pending /\ host \in Hosts
      /\ Calls \in Nat /\ host.type \in Types /\ Spectrum \in Types
      /\ UNCHANGED <<inbox, pending, verdict, faults>>
  BY InvInParts, LengthType DEF Receive, device, HostTracked, Hosts, InStep, OnItsWay
<1>1. PICK j \in Taken : Received(SubSeq(wire, 1, j))
  BY DEF Receive
<1>2. wire # << >> \/ host.at = "rest"
  <2>1. SUFFICES ASSUME wire = << >>, host.at # "rest"
                 PROVE  FALSE
    OBVIOUS
  <2>2. Wanted > 0 /\ host.at # "idle"
    BY <1>0, <2>1, WantedType, LengthType
  <2>3. Len(wire) = 0
    BY <2>1
  <2>4. \A i \in 1 .. Len(wire) : wire[i].reply = NoReply
    BY <2>3
  <2>5. Len(wire) > 0
    BY <1>1, <2>2, <2>4, OneReplyTaken
  <2> QED
    BY <2>3, <2>5
<1>3. ASSUME NEW r \in Reply, r.of = Calls, verdict[Calls] = r.flag, Decided(r)
      PROVE  \/ /\ wire' = << >> /\ verdict[Calls] = "nack" /\ EndsEmpty
             \/ /\ wire' = << >> /\ verdict[Calls] # "nack"
                /\ \E q \in Reply : q.of = Calls /\ EndsWith(q)
  BY <1>3 DEF Decided
<1>4. CASE host.at = "header"
  <2>1. host.type # Spectrum /\ Calls > 0 /\ inbox = << >>
        /\ \E r \in Last(host.type) : wire = Cells(r) /\ verdict[Calls] = r.flag
    BY <1>2, <1>4 DEF InStep, OnItsWay, Expected
  <2>2. PICK r \in Last(host.type) : wire = Cells(r) /\ verdict[Calls] = r.flag
    BY <2>1
  <2>3. r \in Reply /\ r.of = Calls
    BY <1>0, RepliesType DEF Last
  <2>4. CASE Decided(r)
    BY <1>0, <1>3, <2>1, <2>2, <2>3, <2>4
  <2>5. CASE /\ host' = [host EXCEPT !.at = "rest", !.got = SubSeq(Cells(r), 1, 2)]
             /\ wire' = SubSeq(Cells(r), 3, Len(Cells(r))) /\ r.flag # "nack"
    <3>1. host'.at = "rest" /\ host'.type = host.type /\ host'.got = SubSeq(Cells(r), 1, 2)
      BY <1>0, <2>5 DEF Hosts
    <3>2. r \in Last(host.type)' /\ Calls' = Calls
      BY <1>0, <3>1 DEF Last, Calls
    <3>3. HalfRead'
      BY <1>0, <2>1, <2>2, <2>5, <3>1, <3>2 DEF HalfRead
    <3> QED
      BY <1>0, <2>1, <3>1, <3>3
  <2> QED
    BY <1>4, <2>1, <2>2, <2>3, <2>4, <2>5, HeaderRead
<1>5. CASE host.at = "rest"
  <2>1. HalfRead
    BY <1>5 DEF InStep, OnItsWay
  <2>2. PICK r \in Last(host.type) :
          /\ r.flag # "nack" /\ verdict[Calls] = r.flag
          /\ host.got = SubSeq(Cells(r), 1, 2)
          /\ wire = SubSeq(Cells(r), 3, Len(Cells(r)))
    BY <2>1 DEF HalfRead
  <2>3. r \in Reply /\ r.of = Calls
    BY <1>0, RepliesType DEF Last
  <2>4. Decided(r)
    BY <1>5, <2>2, <2>3, RestRead
  <2> QED
    BY <1>0, <1>3, <2>1, <2>2, <2>3, <2>4 DEF HalfRead
<1>6. CASE host.at = "spectrum"
  <2>1. Calls > 0 /\ inbox = << >>
        /\ \E r \in Last(Spectrum) : wire = Cells(r) /\ verdict[Calls] = r.flag
    BY <1>2, <1>6 DEF InStep, OnItsWay, Expected
  <2>2. PICK r \in Last(Spectrum) : wire = Cells(r) /\ verdict[Calls] = r.flag
    BY <2>1
  <2>3. r \in Reply /\ r.of = Calls
    BY <1>0, RepliesType DEF Last
  <2>4. Decided(r)
    BY <1>6, <2>2, <2>3, SpectrumRead
  <2> QED
    BY <1>0, <1>3, <2>1, <2>2, <2>3, <2>4
<1> QED
  BY <1>0, <1>4, <1>5, <1>6

LEMMA InitInStep == ObpInit => InStep
<1>1. SUFFICES ASSUME ObpInit
               PROVE  InStep
  OBVIOUS
<1>2. host.result = Without /\ host.at = "idle" /\ pending = FALSE /\ wire = << >> /\ inbox = << >>
  BY <1>1 DEF ObpInit
<1> QED
  BY <1>2 DEF InStep, InSync, ResultIsVerdict, OnItsWay

\* What goes wrong ends what is said of a bus where nothing has.
LEMMA FaultInStep ==
  ASSUME ObpInv, Fault
  PROVE  InStep'
<1>1. faults' # 0
  BY InvInParts DEF Fault
<1> QED
  BY <1>1 DEF InStep, InSync, ResultIsVerdict, OnItsWay

LEMMA AnswerInStep ==
  ASSUME ObpInv, InStep, DeviceAnswers
  PROVE  InStep'
<1>0. Calls \in Nat /\ Calls' = Calls /\ faults \in Nat /\ host \in Hosts
      /\ verdict \in Seq({"pending", "data", "ack", "nack"})
  BY AnswerTracked, InvInParts, ObpBoundsAssumption DEF SaidTracked, HostTracked
<1>1. CASE Fault
  BY <1>1, FaultInStep
<1>2. CASE ~Fault /\ faults = 0
  <2>1. PICK r \in Replies(Head(inbox)) :
          verdict' = [verdict EXCEPT ![r.of] = r.flag] /\ wire' = wire \o Cells(r)
    BY <1>2 DEF DeviceAnswers
  <2>2. /\ UNCHANGED <<faults, transport, host, pending, buffer>>
        /\ inbox # << >> /\ inbox' = Tail(inbox)
    BY <1>2 DEF DeviceAnswers
  <2>3. ~(host.at = "idle" /\ ~pending) /\ host.at # "rest"
    BY <1>2, <2>2 DEF InStep, InSync, OnItsWay, HalfRead
  <2>4. ASSUME NEW t \in Types, Expected(t)
        PROVE  Expected(t)'
    <3>1. inbox = <<[n |-> Calls, type |-> t]>> /\ wire = << >> /\ Calls > 0
      BY <2>2, <2>4 DEF Expected
    <3>2. Head(inbox) = [n |-> Calls, type |-> t] /\ inbox' = << >>
      BY <2>2, <3>1
    <3>3. r \in Last(t) /\ r \in Reply /\ r.of = Calls
      <4>1. r \in Replies([n |-> Calls, type |-> t])
        BY <2>1, <3>2
      <4> QED
        BY <1>0, <4>1, RepliesType DEF Last
    <3>4. wire' = Cells(r)
      <4>1. Cells(r) \in Seq(Cell) /\ wire' = << >> \o Cells(r)
        BY <2>1, <3>1, <3>3, CellsProperties
      <4> QED
        BY <4>1, ConcatEmptySeq
    <3>5. verdict'[Calls] = r.flag
      <4>1. Calls \in 1 .. Len(verdict) /\ r.flag \in {"pending", "data", "ack", "nack"}
        BY <1>0, <3>1, <3>3 DEF Calls, Reply
      <4> QED
        BY <1>0, <2>1, <3>3, <4>1, ExceptSeq
    <3> QED
      BY <1>0, <3>1, <3>2, <3>3, <3>4, <3>5 DEF Expected, Last
  <2>5. host.type \in Types /\ Spectrum \in Types
    BY <1>0, LengthType DEF Hosts
  <2>6. OnItsWay'
    BY <1>2, <2>2, <2>3, <2>4, <2>5 DEF InStep, OnItsWay
  <2>7. InSync' /\ ResultIsVerdict'
    BY <1>2, <2>2, <2>3 DEF InStep, InSync, ResultIsVerdict, OnItsWay
  <2> QED
    BY <2>6, <2>7 DEF InStep
<1>3. CASE ~Fault /\ faults # 0
  <2>1. faults' # 0
    BY <1>3 DEF DeviceAnswers
  <2> QED
    BY <2>1 DEF InStep, InSync, ResultIsVerdict, OnItsWay
<1> QED
  BY <1>1, <1>2, <1>3

LEMMA SendInStep ==
  ASSUME Symmetric, ObpInv, InStep, NEW t \in Types, Send(t)
  PROVE  InStep'
<1>0. Calls \in Nat /\ Calls' = Calls + 1 /\ host \in Hosts /\ host.at = "idle" /\ ~pending
  BY SendTracked, InvInParts DEF Send, MayCall, HostTracked
<1>1. CASE faults = 0 /\ ~Fault
  <2>1. inbox = << >> /\ wire = << >>
    BY <1>0, <1>1 DEF InStep, InSync
  <2>2. /\ inbox' = Append(inbox, [n |-> Calls + 1, type |-> t])
        /\ pending' = (pending \/ t = Spectrum)
        /\ host' = IF t = Spectrum THEN Start("idle", t) ELSE Start("header", t)
        /\ UNCHANGED <<wire, faults>>
    BY <1>1 DEF Send
  <2>3. inbox' = <<[n |-> Calls', type |-> t]>> /\ wire' = << >> /\ Calls' > 0
    BY <1>0, <2>1, <2>2
  <2>4. Expected(t)'
    BY <2>3 DEF Expected
  <2>5. CASE t = Spectrum
    <3>1. host'.at = "idle" /\ host'.result = Without /\ pending'
      BY <1>0, <2>2, <2>5, StepsOfHost
    <3> QED
      BY <2>4, <2>5, <3>1 DEF InStep, InSync, ResultIsVerdict, OnItsWay
  <2>6. CASE t # Spectrum
    <3>1. host'.at = "header" /\ host'.type = t /\ ~pending'
      BY <1>0, <2>2, <2>6, StepsOfHost
    <3>2. Expected(host.type)'
      BY <2>4, <3>1
    <3> QED
      BY <2>6, <3>1, <3>2 DEF InStep, InSync, ResultIsVerdict, OnItsWay
  <2> QED
    BY <2>5, <2>6
<1>2. CASE faults # 0 /\ ~Fault
  BY <1>2 DEF Send, InStep, InSync, ResultIsVerdict, OnItsWay
<1>3. CASE Fault
  BY <1>3, FaultInStep
<1> QED
  BY <1>1, <1>2, <1>3

LEMMA ReadSpectrumInStep ==
  ASSUME ObpInv, InStep, ReadSpectrum
  PROVE  InStep'
<1>0. Calls' = Calls /\ host \in Hosts /\ pending /\ pending' = FALSE
      /\ host' = Start("spectrum", Spectrum) /\ UNCHANGED <<inbox, wire, verdict, faults>>
  BY ReadSpectrumTracked, InvInParts DEF ReadSpectrum, device, HostTracked
<1>1. host'.at = "spectrum"
  BY <1>0, LengthType, StepsOfHost
<1>2. ASSUME faults = 0
      PROVE  Expected(Spectrum)'
  BY <1>0, <1>2 DEF InStep, OnItsWay, Expected, Last
<1> QED
  BY <1>0, <1>1, <1>2 DEF InStep, InSync, ResultIsVerdict, OnItsWay

LEMMA ReceivedInStep ==
  ASSUME ObpInv, InStep, Receive
  PROVE  InStep'
<1>0. host \in Hosts /\ Calls' = Calls
  BY InvInParts DEF Receive, device, HostTracked, Calls
<1>1. CASE faults # 0
  BY <1>1 DEF Receive, InStep, InSync, ResultIsVerdict, OnItsWay
<1>2. CASE faults = 0
  <2>1. inbox' = << >> /\ UNCHANGED <<pending, verdict, faults>> /\ ~pending
    BY <1>2, ReceiveInStep
  <2>2. CASE HalfRead' /\ host'.at = "rest"
    BY <2>1, <2>2 DEF InStep, InSync, ResultIsVerdict, OnItsWay
  <2>3. ASSUME host'.at = "idle", wire' = << >>,
               (host'.result.is \in {"data", "true"} /\ host'.result.of = Calls)
                 <=> verdict[Calls] # "nack"
        PROVE  InStep'
    BY <1>0, <2>1, <2>3 DEF InStep, InSync, ResultIsVerdict, OnItsWay
  <2>4. CASE wire' = << >> /\ verdict[Calls] = "nack" /\ EndsEmpty
    <3>1. PICK is \in {"throw", "null", "false"} : host' = Return(is)
      BY <2>4 DEF EndsEmpty
    <3>2. host'.at = "idle" /\ host'.result.is = is
      BY <1>0, <3>1, StepsOfHost
    <3>3. is # "data" /\ is # "true"
      OBVIOUS
    <3> QED
      BY <2>3, <2>4, <3>2, <3>3
  <2>5. ASSUME NEW r \in Reply, wire' = << >>, verdict[Calls] # "nack", r.of = Calls, EndsWith(r)
        PROVE  InStep'
    <3>1. PICK is \in {"data", "true"}, b \in BOOLEAN : host' = Answers(is, r, b)
      BY <2>5 DEF EndsWith
    <3>2. host'.at = "idle" /\ host'.result.is = is /\ host'.result.of = Calls
      BY <1>0, <2>5, <3>1, StepsOfHost
    <3> QED
      BY <2>3, <2>5, <3>2
  <2> QED
    BY <1>2, <2>2, <2>4, <2>5, ReceiveInStep
<1> QED
  BY <1>1, <1>2

LEMMA NextInStep ==
  ASSUME Symmetric, ObpInv, InStep, [ObpNext]_vars
  PROVE  InStep'
<1>1. CASE DeviceAnswers
  BY <1>1, AnswerInStep
<1>2. ASSUME NEW t \in Types, Send(t)
      PROVE  InStep'
  BY <1>2, SendInStep
<1>3. ASSUME NEW t \in Types, SendFails(t)
      PROVE  InStep'
  BY <1>3, FaultInStep DEF SendFails
<1>4. CASE ReadSpectrum
  BY <1>4, ReadSpectrumInStep
<1>5. CASE Receive
  BY <1>5, ReceivedInStep
<1>6. CASE ReceiveFails \/ ReceiveShort
  BY <1>6, FaultInStep DEF ReceiveFails, ReceiveShort
<1>7. CASE UNCHANGED vars
  BY <1>7 DEF vars, device, InStep, InSync, ResultIsVerdict, OnItsWay, Expected, HalfRead, Last, Calls
<1> QED
  BY <1>1, <1>2, <1>3, <1>4, <1>5, <1>6, <1>7 DEF ObpNext, Exchange

LEMMA StaysInStep ==
  ASSUME Symmetric
  PROVE  ObpSpec => [](ObpInv /\ InStep)
<1>1. ObpInit => ObpInv /\ InStep
  BY InitTracked, InitInStep
<1>2. ObpInv /\ InStep /\ [ObpNext]_vars => (ObpInv /\ InStep)'
  BY NextTracked, NextInStep
<1> QED
  BY <1>1, <1>2, PTL DEF ObpSpec

\* As long as nothing has gone wrong every exchange leaves the bus empty,
\* whatever the lengths of replies, on every bus, and whether or not the
\* device refuses (queryDevice leaves the payload of a refusal unread).
THEOREM ExchangesInSync == ASSUME Symmetric PROVE ObpSpec => []InSync
<1>1. InStep => InSync
  BY DEF InStep
<1> QED
  BY StaysInStep, <1>1, PTL

\* As long as nothing has gone wrong a call succeeds exactly when the device
\* accepted the request it made.
THEOREM ResultsAreVerdicts == ASSUME Symmetric PROVE ObpSpec => []ResultIsVerdict
<1>1. InStep => ResultIsVerdict
  BY DEF InStep
<1> QED
  BY StaysInStep, <1>1, PTL

-----------------------------------------------------------------------------
(* The refinement of ObpRpc.                                               *)

LEMMA InitRefinesRpc == ObpInit => Rpc!RpcInit
BY DEF ObpInit, Rpc!RpcInit, Calls

LEMMA NextRefinesRpc ==
  ASSUME ObpInv, InStep, [ObpNext]_vars
  PROVE  [Rpc!RpcNext]_(Rpc!rpcVars)
<1>0. /\ host \in Hosts /\ Calls \in Nat /\ faults \in Nat
  BY InvInParts, ObpBoundsAssumption DEF HostTracked
<1>1. CASE DeviceAnswers
  <2>1. Calls' = Calls /\ UNCHANGED host
    BY <1>1, AnswerTracked DEF DeviceAnswers
  <2>2. faults > 0 => faults' > 0
    BY <1>0, <1>1 DEF DeviceAnswers, Fault
  <2> QED
    BY <2>1, <2>2 DEF Rpc!RpcNext
<1>2. ASSUME NEW t \in Types, Send(t) \/ SendFails(t)
      PROVE  Rpc!RpcNext
  <2>1. Calls' = Calls + 1 /\ host.at = "idle"
    BY <1>2, SendTracked DEF Send, SendFails, MayCall
  <2>2. faults > 0 => faults' > 0
    BY <1>0, <1>2 DEF Send, SendFails, Fault
  <2>3. host'.last = host.last
    <3>1. CASE Send(t)
      BY <1>0, <3>1, StepsOfHost DEF Send
    <3>2. CASE SendFails(t)
      <4>1. host' = [Return("throw") EXCEPT !.type = t] /\ Return("throw").last = host.last
            /\ Return("throw") \in Hosts
        BY <1>0, <3>2, StepsOfHost DEF SendFails
      <4> QED
        BY <4>1 DEF Hosts
    <3> QED
      BY <1>2, <3>1, <3>2
  <2> QED
    BY <2>1, <2>2, <2>3 DEF Rpc!RpcNext, Rpc!Ask
<1>3. CASE ReadSpectrum
  <2>1. Calls' = Calls /\ host.at = "idle" /\ host'.at # "idle" /\ host'.last = host.last
    BY <1>0, <1>3, ReadSpectrumTracked, StepsOfHost, LengthType DEF ReadSpectrum
  <2>2. UNCHANGED faults
    BY <1>3 DEF ReadSpectrum
  <2> QED
    BY <2>1, <2>2 DEF Rpc!RpcNext, Rpc!Collect
<1>4. CASE Exchange
  <2>0. host.at # "idle" /\ Calls' = Calls /\ (UNCHANGED faults \/ Fault)
    BY <1>4, ExchangeReads
  <2>1. faults > 0 => faults' > 0
    BY <1>0, <2>0 DEF Fault
  <2>2. ASSUME NEW both \in Seq(Seen), GoesOn(both)
        PROVE  Rpc!RpcNext
    <3>1. host'.at = "rest" /\ host'.last = host.last
      BY <1>0, <2>2 DEF GoesOn, Hosts
    <3> QED
      BY <2>0, <2>1, <3>1 DEF Rpc!RpcNext
  <2>3. CASE EndsEmpty
    <3>1. host'.at = "idle" /\ host'.last = host.last
      BY <1>0, <2>3, StepsOfHost DEF EndsEmpty
    <3> QED
      BY <2>0, <2>1, <3>1 DEF Rpc!RpcNext, Rpc!Fail
  <2>4. ASSUME NEW r \in Reply, r.of \in 1 .. Calls, EndsWith(r)
        PROVE  Rpc!RpcNext
    <3>1. host'.at = "idle" /\ host'.last = r.of
      BY <1>0, <2>4, StepsOfHost DEF EndsWith
    <3>2. ASSUME ~(faults' > 0)
          PROVE  host'.last = Calls
      <4>1. faults = 0 /\ Receive
        BY <1>0, <1>4, <2>0, <3>2 DEF Exchange, ReceiveFails, ReceiveShort, Fault
      <4>2. CASE EndsEmpty
        <5>1. PICK is \in {"throw", "null", "false"} : host' = Return(is)
          BY <4>2 DEF EndsEmpty
        <5>2. host'.result.is = is
          BY <1>0, <5>1, StepsOfHost
        <5>3. host'.result.is \in {"data", "true"}
          BY <1>0, <2>4, StepsOfHost DEF EndsWith
        <5> QED
          BY <5>2, <5>3
      <4>3. ASSUME NEW q \in Reply, q.of = Calls, EndsWith(q)
            PROVE  host'.last = Calls
        BY <1>0, <4>3, StepsOfHost DEF EndsWith
      <4> QED
        BY <3>1, <4>1, <4>2, <4>3, ReceiveInStep
    <3> QED
      BY <2>0, <2>1, <2>4, <3>1, <3>2 DEF Rpc!RpcNext, Rpc!Answer
  <2> QED
    BY <1>4, <2>2, <2>3, <2>4, ExchangeReads
<1>5. CASE UNCHANGED vars
  BY <1>5 DEF vars, device, Rpc!rpcVars, Calls
<1> QED
  BY <1>1, <1>2, <1>3, <1>4, <1>5 DEF ObpNext

\* The exchanges implement the promise of ObpRpc: one request at a time, an
\* answer or a failure, the answer to the last request as long as nothing has
\* gone wrong and to one that was made whatever has.
THEOREM RefinesRpc == ASSUME Symmetric PROVE ObpSpec => ImplementsRpc
<1>1. ObpInv /\ InStep /\ [ObpNext]_vars => [Rpc!RpcNext]_(Rpc!rpcVars)
  BY NextRefinesRpc
<1> QED
  BY StaysInStep, InitRefinesRpc, <1>1, PTL DEF ObpSpec, ImplementsRpc, Rpc!RpcSpec

-----------------------------------------------------------------------------
(* Success is never reported for an answer the device did not give.        *)

\* A reply is what the device said: acknowledgements are of commands, data is
\* of the others, and only data has a payload.
Said(r, v) ==
  /\ r.of \in 1 .. Len(v) /\ v[r.of] = r.flag
  /\ r.flag \in {"data", "ack", "nack"}
  /\ r.flag # "data" => r.length = 0
  /\ r.type \notin CommandTypes => r.flag # "ack"
Given(v) == {c \in Known(Len(v)) : Said(c.reply, v)}
Shown(v) == Given(v) \cup {Blank}

ResultGiven(res, v) ==
  res.is \in {"data", "true"} =>
    /\ res.of \in 1 .. Len(v)
    /\ v[res.of] = (IF res.is = "true" THEN "ack" ELSE "data")

\* Requests wait in the order they were made, and have no answer.
Unanswered(i, v) ==
  \A k \in 1 .. Len(i) :
    /\ v[i[k].n] = "pending"
    /\ \A l \in 1 .. k - 1 : i[l].n < i[k].n

HostGiven(h, v) ==
  /\ h.got \in Seq(Shown(v)) /\ ResultGiven(h.result, v)
  /\ h.at = "rest" => h.got[1].reply.flag = "data"
BusGiven(i, w, b, v) == Unanswered(i, v) /\ w \in Seq(Given(v)) /\ b \in Seq(Shown(v))
GivenInv == HostGiven(host, verdict) /\ BusGiven(inbox, wire, buffer, verdict)

LEMMA GivenTypes ==
  ASSUME NEW v
  PROVE  /\ Given(v) \in SUBSET Known(Len(v)) /\ Given(v) \in SUBSET Shown(v)
         /\ {Blank} \in SUBSET Shown(v)
         /\ \A c \in Shown(v) : c.part = "header" => c \in Given(v) /\ Said(c.reply, v)
BY BlankType DEF Given, Shown

\* What has been said stays said.
LEMMA SaidStays ==
  ASSUME NEW v, NEW w, SaidTracked(v), SaidTracked(w), Len(v) <= Len(w),
         \A n \in 1 .. Len(v) : v[n] # "pending" => w[n] = v[n]
  PROVE  /\ Given(v) \in SUBSET Given(w) /\ Shown(v) \in SUBSET Shown(w)
         /\ \A h : HostGiven(h, v) => HostGiven(h, w)
<1>1. Len(v) \in Nat /\ Len(w) \in Nat /\ 1 .. Len(v) \in SUBSET (1 .. Len(w))
  BY LenProperties DEF SaidTracked
<1>2. Given(v) \in SUBSET Given(w)
  <2>1. SUFFICES ASSUME NEW c \in Given(v)
                 PROVE  c \in Given(w)
    OBVIOUS
  <2>2. c \in Known(Len(v)) /\ Said(c.reply, v)
    BY DEF Given
  <2>3. Said(c.reply, w)
    BY <1>1, <2>2 DEF Said
  <2>4. c \in Known(Len(w))
    BY <1>1, <2>2 DEF Known
  <2> QED
    BY <2>3, <2>4 DEF Given
<1>3. Shown(v) \in SUBSET Shown(w)
  BY <1>2 DEF Shown
<1>4. ASSUME NEW h, HostGiven(h, v)
      PROVE  HostGiven(h, w)
  <2>1. h.got \in Seq(Shown(w))
    BY <1>3, <1>4, SeqMonotonic DEF HostGiven
  <2>2. ResultGiven(h.result, w)
    BY <1>1, <1>4 DEF HostGiven, ResultGiven
  <2> QED
    BY <1>4, <2>1, <2>2 DEF HostGiven
<1> QED
  BY <1>2, <1>3, <1>4

\* An exchange that is begun, or ends without an answer.
LEMMA NoAnswer ==
  ASSUME NEW v, NEW h \in Hosts, h.got = << >> \/ h.got \in Seq(Shown(v)), h.at # "rest",
         h.result.is \notin {"data", "true"}
  PROVE  HostGiven(h, v)
<1>1. << >> \in Seq(Shown(v))
  BY EmptySeq
<1> QED
  BY <1>1 DEF HostGiven, ResultGiven

LEMMA InitGiven == ObpInit => GivenInv
<1>1. SUFFICES ASSUME ObpInit
               PROVE  GivenInv
  OBVIOUS
<1>2. ObpInv /\ host \in Hosts
  BY <1>1, InitTracked, InvInParts DEF HostTracked
<1>3. host.got = << >> /\ host.at = "idle" /\ host.result = Without /\ inbox = << >> /\ wire = << >>
  BY <1>1 DEF ObpInit
<1>4. HostGiven(host, verdict)
  BY <1>2, <1>3, NoAnswer DEF Without
<1>5. buffer \in Seq(Shown(verdict))
  <2>1. buffer = Blanks(Readout)
    BY <1>1 DEF ObpInit, Blanks
  <2>2. Blanks(Readout) \in Seq({Blank}) /\ {Blank} \in SUBSET Shown(verdict)
    BY LengthType, BlanksType, GivenTypes
  <2> HIDE DEF Blank
  <2> QED
    BY <2>1, <2>2, SeqMonotonic
<1>6. Unanswered(inbox, verdict) /\ wire \in Seq(Given(verdict))
  BY <1>3, EmptySeq DEF Unanswered
<1> QED
  BY <1>4, <1>5, <1>6 DEF GivenInv, BusGiven

LEMMA AnswerGiven ==
  ASSUME ObpInv, GivenInv, DeviceAnswers
  PROVE  GivenInv'
<1>1. /\ Calls \in Nat /\ inbox # << >> /\ inbox \in Seq([n : 1 .. Calls, type : Types])
      /\ wire \in Seq(Given(verdict)) /\ SaidTracked(verdict)
      /\ Len(verdict) = Calls
  BY InvInParts DEF DeviceAnswers, BusTracked, GivenInv, BusGiven, Calls
<1> DEFINE request == Head(inbox)
           S == [n : 1 .. Calls, type : Types]
<1>2. /\ request.n \in 1 .. Calls /\ request.type \in Types
      /\ request = [n |-> request.n, type |-> request.type] /\ request = inbox[1]
      /\ Len(inbox) \in Nat /\ Len(inbox) >= 1 /\ Len(Tail(inbox)) = Len(inbox) - 1
      /\ \A k \in 1 .. Len(inbox) - 1 : Tail(inbox)[k] = inbox[k + 1]
      /\ \A k \in 1 .. Len(inbox) : inbox[k].n \in 1 .. Calls
  <2>1. inbox \in Seq(S) /\ inbox # << >>
    BY <1>1
  <2> HIDE DEF S
  <2>2. /\ request \in S /\ Len(Tail(inbox)) = Len(inbox) - 1
        /\ \A k \in 1 .. Len(Tail(inbox)) : Tail(inbox)[k] = inbox[k + 1]
    BY <2>1, HeadTailProperties DEF request
  <2>6. request = inbox[1]
    BY <2>1 DEF request
  <2>3. \A k \in 1 .. Len(inbox) : inbox[k] \in S
    BY <2>1, ElementOfSeq
  <2>4. Len(inbox) \in Nat /\ Len(inbox) >= 1
    BY <2>1, LenProperties, EmptySeq
  <2>5. \A s \in S : s.n \in 1 .. Calls /\ s.type \in Types /\ s = [n |-> s.n, type |-> s.type]
    BY DEF S
  <2> QED
    BY <2>2, <2>3, <2>4, <2>5, <2>6
<1> HIDE DEF request, S
<1>3. PICK r \in Replies(request) :
        /\ verdict' = [verdict EXCEPT ![r.of] = r.flag]
        /\ \/ wire' = wire \o Cells(r) /\ UNCHANGED faults
           \/ Fault /\ \E j \in 0 .. r.length + 1 : wire' = wire \o SubSeq(Cells(r), 1, j)
  BY DEF DeviceAnswers, request
<1>4. /\ r \in Reply /\ r.of = request.n /\ r.of \in 1 .. Calls
      /\ r.flag \in {"data", "ack", "nack"}
      /\ r.flag # "data" => r.length = 0
      /\ r.type \notin CommandTypes => r.flag # "ack"
  <2>1. r \in Replies([n |-> request.n, type |-> request.type]) /\ request.n \in Nat
    BY <1>1, <1>2, <1>3
  <2> QED
    BY <1>2, <2>1, RepliesType, LengthAssumption
<1>5. /\ SaidTracked(verdict') /\ Len(verdict') = Calls
      /\ \A n \in 1 .. Calls : verdict'[n] = IF n = r.of THEN r.flag ELSE verdict[n]
  <2>1. r.of \in 1 .. Len(verdict) /\ r.flag \in {"pending", "data", "ack", "nack"}
    BY <1>1, <1>4
  <2> QED
    BY <1>1, <1>3, <2>1, ExceptSeq DEF SaidTracked
<1>6. \A k \in 1 .. Len(inbox) :
        verdict[inbox[k].n] = "pending" /\ \A l \in 1 .. k - 1 : inbox[l].n < inbox[k].n
  BY DEF GivenInv, BusGiven, Unanswered
<1>7. /\ Given(verdict) \in SUBSET Given(verdict') /\ Shown(verdict) \in SUBSET Shown(verdict')
      /\ HostGiven(host, verdict')
  <2>1. verdict[r.of] = "pending"
    BY <1>2, <1>4, <1>6
  <2>2. \A n \in 1 .. Len(verdict) : verdict[n] # "pending" => verdict'[n] = verdict[n]
    BY <1>1, <1>5, <2>1
  <2>3. Len(verdict) <= Len(verdict') /\ HostGiven(host, verdict)
    BY <1>1, <1>5 DEF GivenInv
  <2> QED
    BY <1>1, <1>5, <2>2, <2>3, SaidStays
<1>8. Unanswered(Tail(inbox), verdict')
  <2>1. SUFFICES ASSUME NEW k \in 1 .. Len(inbox) - 1
                 PROVE  /\ verdict'[Tail(inbox)[k].n] = "pending"
                        /\ \A l \in 1 .. k - 1 : Tail(inbox)[l].n < Tail(inbox)[k].n
    BY <1>2 DEF Unanswered
  <2>2. k + 1 \in 1 .. Len(inbox) /\ 1 \in 1 .. (k + 1) - 1
    BY <1>2
  <2>3. inbox[1].n < inbox[k + 1].n /\ verdict[inbox[k + 1].n] = "pending"
        /\ inbox[k + 1].n \in 1 .. Calls /\ inbox[1].n \in 1 .. Calls
    BY <1>2, <1>6, <2>2
  <2>4. verdict'[Tail(inbox)[k].n] = "pending"
    BY <1>2, <1>4, <1>5, <2>3
  <2>5. ASSUME NEW l \in 1 .. k - 1
        PROVE  Tail(inbox)[l].n < Tail(inbox)[k].n
    <3>1. l + 1 \in 1 .. (k + 1) - 1 /\ l \in 1 .. Len(inbox) - 1
      BY <1>2
    <3> QED
      BY <1>2, <1>6, <2>2, <3>1
  <2> QED
    BY <2>4, <2>5
<1>9. Cells(r) \in Seq(Given(verdict')) /\ r.length \in Nat /\ Len(Cells(r)) = r.length + 2
  <2>1. /\ r.length \in Nat /\ Cells(r) \in Seq(Known(Calls)) /\ Len(Cells(r)) = r.length + 2
        /\ \A i \in 1 .. r.length + 2 : Cells(r)[i].reply = r
    BY <1>1, <1>4, CellsProperties
  <2>2. Said(r, verdict')
    BY <1>4, <1>5 DEF Said
  <2>3. \A i \in 1 .. r.length + 2 : Cells(r)[i] \in Given(verdict')
    BY <1>5, <2>1, <2>2, ElementOfSeq DEF Given
  <2> QED
    BY <2>1, <2>3, SeqDef
<1>10. wire' \in Seq(Given(verdict'))
  <2>0. wire \in Seq(Given(verdict'))
    BY <1>1, <1>7, SeqMonotonic
  <2>1. CASE wire' = wire \o Cells(r)
    BY <1>9, <2>0, <2>1, ConcatProperties
  <2>2. ASSUME NEW j \in 0 .. r.length + 1, wire' = wire \o SubSeq(Cells(r), 1, j)
        PROVE  wire' \in Seq(Given(verdict'))
    <3>1. j \in 0 .. Len(Cells(r))
      BY <1>9
    <3>2. SubSeq(Cells(r), 1, j) \in Seq(Given(verdict'))
      BY <1>9, <3>1, Cut
    <3> QED
      BY <2>0, <2>2, <3>2, ConcatProperties
  <2> QED
    BY <1>3, <2>1, <2>2
<1>11. buffer \in Seq(Shown(verdict'))
  BY <1>7, SeqMonotonic DEF GivenInv, BusGiven
<1>12. UNCHANGED <<host, buffer>> /\ inbox' = Tail(inbox)
  BY DEF DeviceAnswers
<1> QED
  BY <1>7, <1>8, <1>10, <1>11, <1>12 DEF GivenInv, BusGiven

LEMMA SendGiven ==
  ASSUME ObpInv, GivenInv, NEW t \in Types, Send(t) \/ SendFails(t)
  PROVE  GivenInv'
<1>0. /\ Calls \in Nat /\ host \in Hosts /\ host.at = "idle" /\ SaidTracked(verdict)
      /\ inbox \in Seq([n : 1 .. Calls, type : Types]) /\ Len(verdict) = Calls
      /\ verdict' = Append(verdict, "pending") /\ UNCHANGED <<wire, buffer>>
      /\ inbox' = inbox \/ inbox' = Append(inbox, [n |-> Calls + 1, type |-> t])
  BY InvInParts DEF Send, SendFails, MayCall, HostTracked, SaidTracked, BusTracked, Calls
<1>1. /\ SaidTracked(verdict') /\ Len(verdict') = Calls + 1 /\ verdict'[Calls + 1] = "pending"
      /\ \A n \in 1 .. Calls : verdict'[n] = verdict[n]
  <2>1. "pending" \in {"pending", "data", "ack", "nack"}
    OBVIOUS
  <2> QED
    BY <1>0, <2>1, AppendProperties DEF SaidTracked
<1>2. /\ Given(verdict) \in SUBSET Given(verdict') /\ Shown(verdict) \in SUBSET Shown(verdict')
      /\ HostGiven(host, verdict')
  <2>1. Len(verdict) <= Len(verdict') /\ HostGiven(host, verdict)
        /\ \A n \in 1 .. Len(verdict) : verdict[n] # "pending" => verdict'[n] = verdict[n]
    BY <1>0, <1>1 DEF GivenInv
  <2> QED
    BY <1>0, <1>1, <2>1, SaidStays
<1>3. wire \in Seq(Given(verdict')) /\ buffer \in Seq(Shown(verdict'))
  BY <1>2, SeqMonotonic DEF GivenInv, BusGiven
<1>4. HostGiven(host', verdict')
  <2>1. CASE Send(t)
    <3>1. host' = Start("idle", t) \/ host' = Start("header", t)
      BY <2>1 DEF Send
    <3>2. host' \in Hosts /\ host'.at # "rest" /\ host'.result = Without /\ host'.got = host.got
      BY <1>0, <3>1, StepsOfHost
    <3> QED
      BY <1>2, <3>2, NoAnswer DEF Without, HostGiven
  <2>2. CASE SendFails(t)
    <3>1. host' = [Return("throw") EXCEPT !.type = t]
      BY <2>2 DEF SendFails
    <3>2. /\ Return("throw") \in Hosts /\ Return("throw").at = "idle" /\ Return("throw").got = << >>
          /\ Return("throw").result.is = "throw"
      BY <1>0, StepsOfHost
    <3>3. host' \in Hosts /\ host'.at = "idle" /\ host'.got = << >> /\ host'.result.is = "throw"
      BY <3>1, <3>2 DEF Hosts
    <3> QED
      BY <3>3, NoAnswer
  <2> QED
    BY <2>1, <2>2
<1>5. Unanswered(inbox', verdict')
  <2>1. /\ Len(inbox) \in Nat /\ \A k \in 1 .. Len(inbox) : inbox[k].n \in 1 .. Calls
    <3> DEFINE S == [n : 1 .. Calls, type : Types]
    <3>1. inbox \in Seq(S) /\ \A s \in S : s.n \in 1 .. Calls
      BY <1>0
    <3> HIDE DEF S
    <3> QED
      BY <3>1, LenProperties, ElementOfSeq
  <2>2. \A k \in 1 .. Len(inbox) :
          verdict[inbox[k].n] = "pending" /\ \A l \in 1 .. k - 1 : inbox[l].n < inbox[k].n
    BY DEF GivenInv, BusGiven, Unanswered
  <2>3. CASE inbox' = inbox
    BY <1>1, <2>1, <2>2, <2>3 DEF Unanswered
  <2>4. CASE inbox' = Append(inbox, [n |-> Calls + 1, type |-> t])
    <3> DEFINE new == [n |-> Calls + 1, type |-> t]
               S   == [n : 1 .. Calls + 1, type : Types]
    <3>1. inbox \in Seq(S) /\ new \in S
      <4>1. [n : 1 .. Calls, type : Types] \in SUBSET S
        BY <1>0
      <4>2. new \in S
        BY <1>0
      <4> HIDE DEF S, new
      <4> QED
        BY <1>0, <4>1, <4>2, SeqMonotonic
    <3>2. /\ Len(inbox') = Len(inbox) + 1 /\ inbox'[Len(inbox) + 1] = new
          /\ \A k \in 1 .. Len(inbox) : inbox'[k] = inbox[k]
      <4> HIDE DEF S
      <4> QED
        BY <2>4, <3>1, AppendProperties
    <3>3. new.n = Calls + 1
      OBVIOUS
    <3> HIDE DEF new
    <3>4. SUFFICES ASSUME NEW k \in 1 .. Len(inbox) + 1
                   PROVE  /\ verdict'[inbox'[k].n] = "pending"
                          /\ \A l \in 1 .. k - 1 : inbox'[l].n < inbox'[k].n
      BY <3>2 DEF Unanswered
    <3>5. CASE k = Len(inbox) + 1
      <4>1. inbox'[k].n = Calls + 1 /\ k - 1 = Len(inbox)
        BY <2>1, <3>2, <3>3, <3>5
      <4>2. \A l \in 1 .. Len(inbox) : inbox'[l].n < Calls + 1
        BY <1>0, <2>1, <3>2
      <4> QED
        BY <1>1, <4>1, <4>2
    <3>6. CASE k # Len(inbox) + 1
      <4>1. k \in 1 .. Len(inbox) /\ \A l \in 1 .. k - 1 : l \in 1 .. Len(inbox)
        BY <2>1, <3>6
      <4> QED
        BY <1>1, <2>1, <2>2, <3>2, <4>1
    <3> QED
      BY <3>5, <3>6
  <2> QED
    BY <1>0, <2>3, <2>4
<1> QED
  BY <1>0, <1>3, <1>4, <1>5 DEF GivenInv, BusGiven

LEMMA ReadSpectrumGiven ==
  ASSUME ObpInv, GivenInv, ReadSpectrum
  PROVE  GivenInv'
<1>1. host \in Hosts /\ host' = Start("spectrum", Spectrum)
      /\ UNCHANGED <<inbox, wire, verdict, buffer>>
  BY InvInParts DEF ReadSpectrum, device, HostTracked
<1>2. host' \in Hosts /\ host'.at = "spectrum" /\ host'.got = host.got /\ host'.result = Without
  BY <1>1, LengthType, StepsOfHost
<1>3. HostGiven(host', verdict)
  BY <1>2, NoAnswer DEF GivenInv, HostGiven, Without
<1> QED
  BY <1>1, <1>3 DEF GivenInv

\* An exchange ends with an answer only on a header that says so.
LEMMA AnswerOnHeader ==
  ASSUME host \in Hosts, NEW v, NEW c \in Shown(v), c.part = "header",
         NEW is \in {"data", "true"}, c.reply.flag = (IF is = "true" THEN "ack" ELSE "data"),
         NEW b \in BOOLEAN
  PROVE  HostGiven(Answers(is, c.reply, b), v)
<1>1. c \in Given(v) /\ Said(c.reply, v) /\ c.reply \in Reply
  BY GivenTypes DEF Given, Known, Cell
<1> DEFINE h == Answers(is, c.reply, b)
<1>2. h.at = "idle" /\ h.got = << >> /\ h.result.is = is /\ h.result.of = c.reply.of
  BY <1>1, StepsOfHost
<1> HIDE DEF h
<1>3. h.got \in Seq(Shown(v))
  BY <1>2, EmptySeq
<1>4. ResultGiven(h.result, v)
  BY <1>1, <1>2 DEF ResultGiven, Said
<1>5. HostGiven(h, v)
  BY <1>2, <1>3, <1>4 DEF HostGiven
<1> QED
  BY <1>5 DEF h

LEMMA EndGiven ==
  ASSUME host \in Hosts, NEW v, EndsEmpty
  PROVE  HostGiven(host', v)
<1>1. PICK is \in {"throw", "null", "false"} : host' = Return(is)
  BY DEF EndsEmpty
<1>2. host' \in Hosts /\ host'.at = "idle" /\ host'.got = << >> /\ host'.result.is = is
  BY <1>1, StepsOfHost
<1> QED
  BY <1>2, NoAnswer

LEMMA ParseGiven ==
  ASSUME host \in Hosts, NEW v, NEW cells, cells[1] \in Shown(v),
         cells[1].reply.flag = "data", host' = ParseQuery(cells)
  PROVE  HostGiven(host', v)
<1>1. CASE Parses(cells)
  <2>1. IsWhole(cells) \in BOOLEAN /\ "data" \in {"data", "true"} /\ cells[1].part = "header"
    BY <1>1 DEF IsWhole, Parses
  <2>2. HostGiven(Answers("data", cells[1].reply, IsWhole(cells)), v)
    BY <2>1, AnswerOnHeader
  <2> QED
    BY <1>1, <2>2 DEF ParseQuery
<1>2. CASE ~Parses(cells)
  BY <1>2, EndGiven DEF ParseQuery, EndsEmpty
<1> QED
  BY <1>1, <1>2

LEMMA ReceivedGiven ==
  ASSUME ObpInv, HostGiven(host, verdict), buffer \in Seq(Shown(verdict)), host.at # "idle",
         NEW cells \in Seq(Given(verdict)), Len(cells) <= Wanted, Received(cells),
         host.result = Without
  PROVE  HostGiven(host', verdict) /\ buffer' \in Seq(Shown(verdict))
<1>0. /\ host \in Hosts /\ Wanted \in Nat /\ cells \in Seq(Shown(verdict))
      /\ \A n \in Nat : Blanks(n) \in Seq(Shown(verdict)) /\ Len(Blanks(n)) = n
      /\ host.got \in Seq(Shown(verdict)) /\ Len(buffer) = Readout
      /\ host.at = "rest" => Len(host.got) = 2
  <2>1. cells \in Seq(Shown(verdict))
    BY GivenTypes, SeqMonotonic
  <2>2. \A n \in Nat : Blanks(n) \in Seq(Shown(verdict)) /\ Len(Blanks(n)) = n
    <3>1. {Blank} \in SUBSET Shown(verdict)
      BY GivenTypes
    <3> HIDE DEF Blank
    <3> QED
      BY <3>1, BlanksType, SeqMonotonic
  <2> QED
    BY <2>1, <2>2, WantedType, InvInParts DEF HostTracked, BufferTracked, HostGiven
<1>1. CASE host.at = "header"
  <2> DEFINE two == Into(Blanks(2), cells)
  <2>1. two \in Seq(Shown(verdict)) /\ Len(two) = 2
    <3>1. /\ Blanks(2) \in Seq(Shown(verdict)) /\ Len(Blanks(2)) = 2
          /\ cells \in Seq(Shown(verdict)) /\ Len(cells) <= Len(Blanks(2))
      BY <1>0, <1>1, WantedType
    <3> QED
      BY <3>1, IntoProperties
  <2>2. /\ host' = IF host.type \in CommandTypes THEN AfterCommandHeader(two) ELSE AfterQueryHeader(two)
        /\ UNCHANGED buffer
    BY <1>1 DEF Received
  <2> HIDE DEF two
  <2>3. two[1] \in Shown(verdict)
    <3>1. 1 \in 1 .. Len(two)
      BY <2>1
    <3> QED
      BY <2>1, <3>1, ElementOfSeq
  <2>4. CASE two[1].part # "header"
    <3>1. EndsEmpty
      BY <2>2, <2>4 DEF AfterCommandHeader, AfterQueryHeader, EndsEmpty
    <3> QED
      BY <1>0, <2>2, <3>1, EndGiven
  <2>5. CASE two[1].part = "header"
    <3>1. Said(two[1].reply, verdict)
      BY <2>3, <2>5, GivenTypes
    <3>2. CASE host.type \in CommandTypes
      <4>1. host' = AfterCommandHeader(two)
        BY <2>2, <3>2
      <4>2. CASE two[1].reply.flag = "ack" /\ two[1].reply.type = host.type
        <5>1. host' = Answers("true", two[1].reply, TRUE)
          BY <2>5, <4>1, <4>2 DEF AfterCommandHeader
        <5>2. HostGiven(Answers("true", two[1].reply, TRUE), verdict)
          BY <1>0, <2>3, <2>5, <4>2, AnswerOnHeader
        <5> QED
          BY <2>2, <5>1, <5>2
      <4>3. CASE ~(two[1].reply.flag = "ack" /\ two[1].reply.type = host.type)
        <5>1. EndsEmpty
          BY <2>5, <4>1, <4>3 DEF AfterCommandHeader, EndsEmpty
        <5> QED
          BY <1>0, <2>2, <5>1, EndGiven
      <4> QED
        BY <4>2, <4>3
    <3>3. CASE host.type \notin CommandTypes
      <4>1. host' = AfterQueryHeader(two)
        BY <2>2, <3>3
      <4>2. CASE two[1].reply.flag = "nack" \/ two[1].reply.type # host.type
        <5>1. EndsEmpty
          BY <2>5, <4>1, <4>2 DEF AfterQueryHeader, EndsEmpty
        <5> QED
          BY <1>0, <2>2, <5>1, EndGiven
      <4>3. CASE ~(two[1].reply.flag = "nack" \/ two[1].reply.type # host.type)
        <5>1. two[1].reply.flag = "data"
          BY <3>1, <3>3, <4>3 DEF Said
        <5>2. CASE two[1].reply.length > 0
          <6>1. host' = [host EXCEPT !.at = "rest", !.got = two]
            BY <2>5, <4>1, <4>3, <5>2 DEF AfterQueryHeader
          <6>2. host'.got = two /\ host'.result = Without
            BY <1>0, <6>1 DEF Hosts
          <6> QED
            BY <1>0, <2>1, <2>2, <5>1, <6>2 DEF HostGiven, ResultGiven, Without
        <5>3. CASE ~(two[1].reply.length > 0)
          <6>1. host' = ParseQuery(two)
            BY <2>5, <4>1, <4>3, <5>3 DEF AfterQueryHeader
          <6> QED
            BY <1>0, <2>2, <2>3, <5>1, <6>1, ParseGiven
        <5> QED
          BY <5>2, <5>3
      <4> QED
        BY <4>2, <4>3
    <3> QED
      BY <3>2, <3>3
  <2> QED
    BY <2>4, <2>5
<1>2. CASE host.at = "rest"
  <2> DEFINE all == host.got \o Into(Blanks(Wanted), cells)
  <2>1. Into(Blanks(Wanted), cells) \in Seq(Shown(verdict))
        /\ Len(Into(Blanks(Wanted), cells)) = Wanted
    BY <1>0, IntoProperties
  <2>2. host' = ParseQuery(all) /\ UNCHANGED buffer
    BY <1>2 DEF Received
  <2>3. all[1] = host.got[1] /\ host.got[1] \in Shown(verdict)
    <3> DEFINE rest == Into(Blanks(Wanted), cells)
    <3>1. /\ host.got \in Seq(Shown(verdict)) /\ rest \in Seq(Shown(verdict))
          /\ Len(host.got) = 2 /\ Len(rest) = Wanted
      BY <1>0, <1>2, <2>1
    <3> HIDE DEF rest
    <3>2. 1 \in 1 .. Len(host.got) + Len(rest) /\ 1 \in 1 .. Len(host.got)
      BY <1>0, <3>1
    <3>3. (host.got \o rest)[1] = host.got[1]
      BY <3>1, <3>2, ConcatProperties
    <3>4. host.got[1] \in Shown(verdict)
      BY <3>1, <3>2, ElementOfSeq
    <3> QED
      BY <3>3, <3>4 DEF rest
  <2> HIDE DEF all
  <2>4. all[1] \in Shown(verdict) /\ all[1].reply.flag = "data"
    BY <1>2, <2>3 DEF HostGiven
  <2> QED
    BY <1>0, <2>2, <2>4, ParseGiven
<1>3. CASE host.at = "spectrum"
  <2> DEFINE new == Into(buffer, cells)
  <2>1. buffer' = new /\ host' = AfterSpectrum(new)
    BY <1>3 DEF Received
  <2>2. new \in Seq(Shown(verdict)) /\ Len(new) = Readout
    BY <1>0, <1>3, WantedType, IntoProperties
  <2> HIDE DEF new
  <2>3. new[1] \in Shown(verdict)
    BY <2>2, LengthType, ElementOfSeq
  <2>4. CASE Parses(new) /\ new[1].reply.length >= Length[Spectrum]
    <3>1. new[1].part = "header" /\ IsWhole(new) \in BOOLEAN
      BY <2>4 DEF Parses, IsWhole
    <3>2. Said(new[1].reply, verdict)
      BY <2>3, <3>1, GivenTypes
    <3>3. new[1].reply.flag = "data"
      <4>1. Length[Spectrum] > 0 /\ Length[Spectrum] \in Nat
        BY LengthType, LengthAssumption
      <4> QED
        BY <2>4, <3>2, <4>1 DEF Said
    <3>4. HostGiven(Answers("data", new[1].reply, IsWhole(new)), verdict)
      BY <1>0, <2>3, <3>1, <3>3, AnswerOnHeader
    <3>5. host' = Answers("data", new[1].reply, IsWhole(new))
      BY <2>1, <2>4 DEF AfterSpectrum
    <3> QED
      BY <2>1, <2>2, <3>4, <3>5
  <2>5. CASE ~(Parses(new) /\ new[1].reply.length >= Length[Spectrum])
    <3>1. EndsEmpty
      BY <2>1, <2>5 DEF AfterSpectrum, EndsEmpty
    <3> QED
      BY <1>0, <2>1, <2>2, <3>1, EndGiven
  <2> QED
    BY <2>4, <2>5
<1> QED
  BY <1>1, <1>2, <1>3, InvInParts DEF HostTracked, Hosts

\* An exchange in progress has no result yet, and reads a spectrum only where
\* one was asked for.
Busy ==
  /\ host.at # "idle" => host.result = Without
  /\ host.at = "spectrum" => host.type = Spectrum

LEMMA NextBusy ==
  ASSUME ObpInv, Busy, [ObpNext]_vars
  PROVE  Busy'
<1>0. host \in Hosts
  BY InvInParts DEF HostTracked
<1>1. CASE DeviceAnswers \/ UNCHANGED vars
  BY <1>1 DEF DeviceAnswers, vars, Busy
<1>2. ASSUME NEW t \in Types, Send(t)
      PROVE  Busy'
  <2>1. host' = Start("idle", t) \/ host' = Start("header", t)
    BY <1>2 DEF Send
  <2>2. host'.at # "spectrum" /\ host'.result = Without
    BY <1>0, <2>1, StepsOfHost
  <2> QED
    BY <2>2 DEF Busy
<1>3. ASSUME NEW t \in Types, SendFails(t)
      PROVE  Busy'
  <2>1. host' = [Return("throw") EXCEPT !.type = t]
    BY <1>3 DEF SendFails
  <2>2. Return("throw") \in Hosts /\ Return("throw").at = "idle"
    BY <1>0, StepsOfHost
  <2>3. host'.at = "idle"
    BY <2>1, <2>2 DEF Hosts
  <2> QED
    BY <2>3 DEF Busy
<1>4. CASE ReadSpectrum
  <2>1. host' = Start("spectrum", Spectrum)
    BY <1>4 DEF ReadSpectrum
  <2>2. host'.result = Without /\ host'.type = Spectrum
    BY <1>0, <2>1, LengthType, StepsOfHost
  <2> QED
    BY <2>2 DEF Busy
<1>5. CASE Exchange
  <2>1. ASSUME NEW both \in Seq(Seen), GoesOn(both)
        PROVE  Busy'
    BY <1>0, <2>1 DEF Busy, GoesOn, Hosts
  <2>2. CASE EndsEmpty
    BY <1>0, <2>2, StepsOfHost DEF EndsEmpty, Busy
  <2>3. ASSUME NEW r \in Reply, EndsWith(r)
        PROVE  Busy'
    BY <1>0, <2>3, StepsOfHost DEF EndsWith, Busy
  <2> QED
    BY <1>5, <2>1, <2>2, <2>3, ExchangeReads
<1> QED
  BY <1>1, <1>2, <1>3, <1>4, <1>5 DEF ObpNext

LEMMA ExchangeGiven ==
  ASSUME ObpInv, Busy, GivenInv, Exchange
  PROVE  GivenInv'
<1>0. /\ host.at # "idle" /\ host.result = Without /\ UNCHANGED <<inbox, verdict>>
      /\ wire \in Seq(Given(verdict)) /\ buffer \in Seq(Shown(verdict))
      /\ HostGiven(host, verdict) /\ Len(wire) \in Nat /\ host \in Hosts /\ Wanted \in Nat
  BY ExchangeReads, WantedType, InvInParts, LenProperties
     DEF Busy, GivenInv, BusGiven, HostTracked
<1>1. ASSUME NEW j \in 0 .. Len(wire)
      PROVE  /\ SubSeq(wire, 1, j) \in Seq(Given(verdict)) /\ Len(SubSeq(wire, 1, j)) = j
             /\ SubSeq(wire, j + 1, Len(wire)) \in Seq(Given(verdict))
  BY <1>0, Cut
<1>2. ASSUME NEW j \in 0 .. Len(wire), j <= Wanted, Received(SubSeq(wire, 1, j))
      PROVE  HostGiven(host', verdict) /\ buffer' \in Seq(Shown(verdict))
  BY <1>0, <1>1, <1>2, ReceivedGiven
<1>3. CASE Receive
  <2>1. PICK j \in Taken : Received(SubSeq(wire, 1, j)) /\ wire' = SubSeq(wire, j + 1, Len(wire))
    BY <1>3 DEF Receive
  <2>2. j \in 0 .. Len(wire) /\ j <= Wanted
    BY <1>0, <2>1, TakenBounded
  <2> QED
    BY <1>0, <1>1, <1>2, <2>1, <2>2 DEF GivenInv, BusGiven
<1>4. CASE ReceiveShort
  <2>1. PICK j \in 0 .. MinOf(Wanted - 1, Len(wire)) :
          Received(SubSeq(wire, 1, j)) /\ wire' = SubSeq(wire, j + 1, Len(wire))
    BY <1>4 DEF ReceiveShort
  <2>2. j \in 0 .. Len(wire) /\ j <= Wanted
    BY <1>0, <2>1 DEF MinOf
  <2> QED
    BY <1>0, <1>1, <1>2, <2>1, <2>2 DEF GivenInv, BusGiven
<1>5. CASE ReceiveFails
  <2>1. PICK j \in 0 .. MinOf(Wanted, Len(wire)) : wire' = SubSeq(wire, j + 1, Len(wire))
    BY <1>5 DEF ReceiveFails
  <2>2. j \in 0 .. Len(wire)
    BY <1>0, <2>1 DEF MinOf
  <2>3. host' = Return("throw") /\ UNCHANGED buffer
    BY <1>5 DEF ReceiveFails
  <2>4. HostGiven(host', verdict)
    BY <1>0, <2>3, EndGiven DEF EndsEmpty
  <2> QED
    BY <1>0, <1>1, <2>1, <2>2, <2>3, <2>4 DEF GivenInv, BusGiven
<1> QED
  BY <1>3, <1>4, <1>5 DEF Exchange

LEMMA NextGiven ==
  ASSUME ObpInv, Busy, GivenInv, [ObpNext]_vars
  PROVE  GivenInv'
<1>1. CASE DeviceAnswers
  BY <1>1, AnswerGiven
<1>2. ASSUME NEW t \in Types, Send(t) \/ SendFails(t)
      PROVE  GivenInv'
  BY <1>2, SendGiven
<1>3. CASE ReadSpectrum
  BY <1>3, ReadSpectrumGiven
<1>4. CASE Exchange
  BY <1>4, ExchangeGiven
<1>5. CASE UNCHANGED vars
  <2>1. UNCHANGED <<host, inbox, wire, buffer, verdict>>
    BY <1>5 DEF vars, device
  <2> QED
    BY <2>1 DEF GivenInv
<1> QED
  BY <1>1, <1>2, <1>3, <1>4, <1>5 DEF ObpNext

LEMMA StaysGiven == ObpSpec => [](ObpInv /\ Busy /\ GivenInv)
<1>1. ObpInit => ObpInv /\ Busy /\ GivenInv
  BY InitTracked, InitGiven DEF ObpInit, Busy
<1>2. ObpInv /\ Busy /\ GivenInv /\ [ObpNext]_vars => (ObpInv /\ Busy /\ GivenInv)'
  BY NextTracked, NextBusy, NextGiven
<1> QED
  BY <1>1, <1>2, PTL DEF ObpSpec

\* Whatever goes wrong, and in whatever order the caller asks for spectra and
\* reads them, a command that reports success was acknowledged by the device,
\* and a query or spectrum that returns data was answered with data: the reply
\* it returns is to a request that was made and not refused.
THEOREM SuccessesWereGiven == ObpSpec => []SuccessWasGiven
<1>1. GivenInv => SuccessWasGiven
  BY DEF GivenInv, HostGiven, ResultGiven, SuccessWasGiven
<1> QED
  BY StaysGiven, <1>1, PTL

-----------------------------------------------------------------------------
(* No payload is put together from two replies, if one thing goes wrong.   *)

\* After a header on the bus come its own payload and trailer.  A bus on which
\* this holds may have lost the first cells of a reply.
Intact(w) ==
  \A i \in 1 .. Len(w) : w[i].part = "header" =>
    \A k \in 1 .. w[i].reply.length + 1 :
      /\ i + k \in 1 .. Len(w) /\ w[i + k].reply = w[i].reply
      /\ k <= w[i].reply.length => w[i + k].part # "trailer"

\* Where the host has read a header with payload, the payload is next on the
\* bus: all of it where the second cell was missed, and then what is read for
\* the trailer is not one.
RestOnBus(h, w) ==
  h.at = "rest" =>
    /\ h.got[1].part = "header" /\ h.got[1].reply.length \in 1 .. Len(w)
    /\ \A k \in 1 .. h.got[1].reply.length : w[k].reply = h.got[1].reply
    /\ h.got[2].reply = h.got[1].reply \/ w[h.got[1].reply.length].part # "trailer"

\* The other way for the one fault to happen: the reply that is read was cut
\* short, and nothing else is on its way.
PartOf(t) ==
  \E r \in Last(t) :
    /\ Len(wire) \in 1 .. r.length + 1 /\ wire[1].part = "header"
    /\ \A i \in 1 .. Len(wire) : wire[i].reply = r
RestMissing ==
  /\ host.got[1].part = "header" /\ Len(wire) < host.got[1].reply.length
  /\ \A i \in 1 .. Len(wire) : wire[i].reply = host.got[1].reply
CutShort ==
  /\ faults = MaxFaults /\ inbox = << >>
  /\ \/ host.at = "idle" /\ pending /\ PartOf(Spectrum)
     \/ host.at = "spectrum" /\ PartOf(Spectrum)
     \/ host.at = "header" /\ PartOf(host.type)
     \/ host.at = "rest" /\ RestMissing

WholeResult(h) == h.result.is = "data" /\ h.type # Spectrum => h.result.whole
WholeInv ==
  /\ WholeResult(host)
  /\ (Intact(wire) /\ RestOnBus(host, wire)) \/ CutShort

LEMMA CellsParts ==
  ASSUME NEW r \in Reply
  PROVE  \A i \in 1 .. r.length + 2 :
           /\ Cells(r)[i].part = "header" => i = 1
           /\ i <= r.length + 1 => Cells(r)[i].part # "trailer"
<1>1. r.length \in Nat
  BY DEF Reply
<1>2. ASSUME NEW i \in 1 .. r.length + 2
      PROVE  /\ Cells(r)[i].part = "header" => i = 1
             /\ i <= r.length + 1 => Cells(r)[i].part # "trailer"
  <2>1. Cells(r)[i].part = IF i = 1 THEN "header" ELSE IF i = r.length + 2 THEN "trailer" ELSE "payload"
    BY DEF Cells
  <2>2. i <= r.length + 1 => i # r.length + 2
    BY <1>1
  <2> QED
    BY <2>1, <2>2
<1> QED
  BY <1>2

LEMMA IntactSuffix ==
  ASSUME NEW w \in Seq(Cell), Intact(w), NEW j \in 0 .. Len(w)
  PROVE  Intact(SubSeq(w, j + 1, Len(w)))
<1> DEFINE u == SubSeq(w, j + 1, Len(w))
<1>1. /\ Len(w) \in Nat /\ Len(u) = Len(w) - j /\ \A i \in 1 .. Len(w) - j : u[i] = w[j + i]
      /\ \A i \in 1 .. Len(w) : w[i].reply.length \in Nat
  BY LenProperties, ElementOfSeq, CellReply, Cut
<1> HIDE DEF u
<1>2. ASSUME NEW i \in 1 .. Len(u), u[i].part = "header", NEW k \in 1 .. u[i].reply.length + 1
      PROVE  /\ i + k \in 1 .. Len(u) /\ u[i + k].reply = u[i].reply
             /\ k <= u[i].reply.length => u[i + k].part # "trailer"
  <2>1. j + i \in 1 .. Len(w) /\ u[i] = w[j + i] /\ w[j + i].reply.length \in Nat
    BY <1>1
  <2>2. /\ (j + i) + k \in 1 .. Len(w) /\ w[(j + i) + k].reply = w[j + i].reply
        /\ k <= w[j + i].reply.length => w[(j + i) + k].part # "trailer"
    BY <1>2, <2>1 DEF Intact
  <2>3. (j + i) + k = j + (i + k) /\ i + k \in 1 .. Len(w) - j
    BY <1>1, <2>1, <2>2
  <2>4. u[i + k] = w[j + (i + k)]
    BY <1>1, <2>3
  <2> QED
    BY <1>1, <2>1, <2>2, <2>3, <2>4
<1>3. Intact(u)
  BY <1>2 DEF Intact
<1> QED
  BY <1>3 DEF u

LEMMA IntactMore ==
  ASSUME NEW w \in Seq(Cell), Intact(w), NEW r \in Reply
  PROVE  Intact(w \o Cells(r))
<1> DEFINE u == w \o Cells(r)
           c == Cells(r)
<1>1. /\ Len(w) \in Nat /\ r.length \in Nat /\ c \in Seq(Cell) /\ Len(c) = r.length + 2
      /\ \A i \in 1 .. r.length + 2 : /\ c[i].reply = r /\ (c[i].part = "header" => i = 1)
                                      /\ i <= r.length + 1 => c[i].part # "trailer"
      /\ \A i \in 1 .. Len(w) : w[i].reply.length \in Nat
  BY LenProperties, ElementOfSeq, CellReply, CellsProperties, CellsParts
<1> HIDE DEF c
<1>2. /\ Len(u) = Len(w) + (r.length + 2)
      /\ \A i \in 1 .. Len(u) : u[i] = IF i <= Len(w) THEN w[i] ELSE c[i - Len(w)]
  <2>1. /\ Len(u) = Len(w) + Len(c)
        /\ \A i \in 1 .. Len(w) + Len(c) : u[i] = IF i <= Len(w) THEN w[i] ELSE c[i - Len(w)]
    BY <1>1, ConcatProperties DEF c
  <2> HIDE DEF u
  <2> QED
    BY <1>1, <2>1
<1> HIDE DEF u
<1> DEFINE m == r.length
<1>5. Len(w) \in Nat /\ m \in Nat /\ Len(u) = Len(w) + (m + 2)
  BY <1>1, <1>2
<1> HIDE DEF m
<1>3. ASSUME NEW i \in 1 .. Len(u), u[i].part = "header", NEW k \in 1 .. u[i].reply.length + 1
      PROVE  /\ i + k \in 1 .. Len(u) /\ u[i + k].reply = u[i].reply
             /\ k <= u[i].reply.length => u[i + k].part # "trailer"
  <2>1. CASE i <= Len(w)
    <3>0. i \in 1 .. Len(w)
      BY <1>1, <1>2, <2>1
    <3>1. i \in 1 .. Len(w) /\ u[i] = w[i] /\ w[i].reply.length \in Nat
      BY <1>1, <1>2, <2>1, <3>0
    <3>2. /\ i + k \in 1 .. Len(w) /\ w[i + k].reply = w[i].reply
          /\ k <= w[i].reply.length => w[i + k].part # "trailer"
      BY <1>3, <3>1 DEF Intact
    <3>3. i + k \in 1 .. Len(u) /\ i + k <= Len(w)
      BY <1>1, <1>2, <3>2
    <3>4. u[i + k] = w[i + k]
      BY <1>2, <3>3
    <3> QED
      BY <1>2, <3>1, <3>2, <3>3, <3>4
  <2>2. CASE ~(i <= Len(w))
    <3>0. i - Len(w) \in 1 .. m + 2
      BY <1>5, <2>2
    <3>1. i - Len(w) \in 1 .. r.length + 2 /\ u[i] = c[i - Len(w)]
      BY <1>2, <2>2, <3>0 DEF m
    <3>2. i = Len(w) + 1 /\ u[i].reply = r
      <4>1. i - Len(w) = 1
        BY <1>1, <1>3, <3>1
      <4>2. i = Len(w) + 1
        BY <1>5, <4>1
      <4>3. u[i] = c[1]
        BY <3>1, <4>1
      <4>4. c[1].reply = r
        BY <1>1
      <4> QED
        BY <4>2, <4>3, <4>4
    <3>3. k \in 1 .. m + 1
      BY <1>3, <3>2 DEF m
    <3>4. /\ i + k \in 1 .. Len(u) /\ ~(i + k <= Len(w)) /\ (i + k) - Len(w) = k + 1
          /\ k + 1 \in 1 .. m + 2
      BY <1>5, <3>2, <3>3
    <3>5. u[i + k] = c[k + 1]
      BY <1>2, <3>4
    <3>6. k <= m => k + 1 <= m + 1
      BY <1>5, <3>3
    <3> QED
      BY <1>1, <1>2, <3>2, <3>4, <3>5, <3>6 DEF m
  <2> QED
    BY <2>1, <2>2
<1>4. Intact(u)
  BY <1>3 DEF Intact
<1> QED
  BY <1>4 DEF u, c

\* What ends without data has nothing to be whole.
LEMMA NothingToBeWhole ==
  ASSUME host \in Hosts, EndsEmpty, NEW w
  PROVE  WholeResult(host') /\ RestOnBus(host', w) /\ host'.at = "idle"
<1>1. PICK is \in {"throw", "null", "false"} : host' = Return(is)
  BY DEF EndsEmpty
<1>2. host'.result.is = is /\ host'.at = "idle"
  BY <1>1, StepsOfHost
<1> QED
  BY <1>2 DEF WholeResult, RestOnBus

LEMMA WholeAnswer ==
  ASSUME host \in Hosts, NEW is \in {"data", "true"}, NEW r \in Reply, NEW b \in BOOLEAN,
         host' = Answers(is, r, b), is = "data" => b \/ host.type = Spectrum, NEW w
  PROVE  WholeResult(host') /\ RestOnBus(host', w) /\ host'.at = "idle"
<1>1. host'.at = "idle" /\ host'.type = host.type /\ host'.result.is = is
  BY StepsOfHost
<1>2. host'.result.whole = b
  BY DEF Answers, Hosts
<1> QED
  BY <1>1, <1>2 DEF WholeResult, RestOnBus

\* A buffer of blanks after a read.
LEMMA ReadInto ==
  ASSUME ObpInv, NEW n \in Nat, NEW j \in 0 .. Len(wire), j <= n
  PROVE  /\ Into(Blanks(n), SubSeq(wire, 1, j)) \in Seq(Seen)
         /\ Len(Into(Blanks(n), SubSeq(wire, 1, j))) = n
         /\ \A i \in 1 .. n :
              Into(Blanks(n), SubSeq(wire, 1, j))[i] = IF i <= j THEN wire[i] ELSE Blank
<1> DEFINE cells == SubSeq(wire, 1, j)
           b     == Into(Blanks(n), cells)
<1>1. /\ cells \in Seq(Known(Calls)) /\ Len(cells) = j /\ Len(wire) \in Nat
      /\ \A i \in 1 .. j : cells[i] = wire[i]
  BY ReadKnown, Cut, LenProperties DEF ObpInv, Tracked
<1> HIDE DEF cells
<1>2. /\ Blanks(n) \in Seq(Seen) /\ Len(Blanks(n)) = n /\ \A i \in 1 .. n : Blanks(n)[i] = Blank
      /\ cells \in Seq(Seen)
  <2> HIDE DEF Blank
  <2> QED
    BY <1>1, BlanksType, SeenTypes, SeqMonotonic
<1>3. /\ b \in Seq(Seen) /\ Len(b) = n
      /\ \A i \in 1 .. n : b[i] = IF i <= j THEN cells[i] ELSE Blanks(n)[i]
  <2> DEFINE old == Blanks(n)
  <2>1. old \in Seq(Seen) /\ cells \in Seq(Seen) /\ Len(cells) <= Len(old) /\ Len(old) = n
    BY <1>1, <1>2
  <2> HIDE DEF old
  <2>2. /\ Into(old, cells) \in Seq(Seen) /\ Len(Into(old, cells)) = n
        /\ \A i \in 1 .. n : Into(old, cells)[i] = IF i <= Len(cells) THEN cells[i] ELSE old[i]
    BY <2>1, IntoProperties
  <2> QED
    BY <1>1, <2>2 DEF old
<1> HIDE DEF b
<1>4. \A i \in 1 .. n : b[i] = IF i <= j THEN wire[i] ELSE Blank
  <2>1. \A i \in 1 .. n : i <= j => i \in 1 .. j
    BY <1>1
  <2> QED
    BY <1>1, <1>2, <1>3, <2>1
<1> QED
  BY <1>3, <1>4 DEF b, cells

\* However much of an intact bus a read takes, a query ends with the payload
\* of one reply, ends without one, or goes on to what is left of it.
LEMMA HeaderOfIntact ==
  ASSUME ObpInv, Intact(wire), host.at = "header", host.result = Without,
         NEW j \in 0 .. Len(wire), j <= 2, Received(SubSeq(wire, 1, j))
  PROVE  WholeResult(host') /\ RestOnBus(host', SubSeq(wire, j + 1, Len(wire)))
<1> DEFINE two == Into(Blanks(2), SubSeq(wire, 1, j))
           u   == SubSeq(wire, j + 1, Len(wire))
<1>0. /\ host \in Hosts /\ Len(wire) \in Nat /\ wire \in Seq(Cell)
      /\ \A i \in 1 .. Len(wire) : wire[i].reply.length \in Nat
  BY InvInParts, LenProperties, ElementOfSeq, CellReply DEF ObpInv, ObpTypeOK, HostTracked
<1>1. /\ two \in Seq(Seen) /\ Len(two) = 2 /\ two[1] \in Seen
      /\ two[1] = (IF 1 <= j THEN wire[1] ELSE Blank)
      /\ two[2] = (IF 2 <= j THEN wire[2] ELSE Blank)
  <2>1. /\ two \in Seq(Seen) /\ Len(two) = 2
        /\ \A i \in 1 .. 2 : two[i] = IF i <= j THEN wire[i] ELSE Blank
    BY ReadInto
  <2>2. 1 \in 1 .. 2 /\ 2 \in 1 .. 2
    OBVIOUS
  <2> HIDE DEF two
  <2>3. two[1] \in Seen
    BY <2>1, <2>2, ElementOfSeq
  <2> QED
    BY <2>1, <2>2, <2>3
<1>2. host' = IF host.type \in CommandTypes THEN AfterCommandHeader(two) ELSE AfterQueryHeader(two)
  BY DEF Received
<1>3. /\ Len(u) = Len(wire) - j /\ \A i \in 1 .. Len(wire) - j : u[i] = wire[j + i]
  BY <1>0, Cut
<1> HIDE DEF two, u
<1>4. CASE EndsEmpty
  BY <1>0, <1>4, NothingToBeWhole DEF u
<1>5. CASE ~EndsEmpty /\ host.type \in CommandTypes
  <2>1. host' = AfterCommandHeader(two) /\ two[1].part = "header"
        /\ host' = Answers("true", two[1].reply, TRUE)
    BY <1>2, <1>5 DEF AfterCommandHeader, EndsEmpty
  <2>2. two[1].reply \in Reply
    BY <1>1, <2>1, HeaderKnown
  <2> QED
    BY <1>0, <2>1, <2>2, WholeAnswer DEF u
<1>6. CASE ~EndsEmpty /\ host.type \notin CommandTypes
  <2> DEFINE r == two[1].reply
  <2>1. host' = AfterQueryHeader(two)
    BY <1>2, <1>6
  <2>2. two[1].part = "header" /\ ~(r.flag = "nack" \/ r.type # host.type)
    BY <1>6, <2>1 DEF AfterQueryHeader, EndsEmpty
  <2>3. /\ 1 <= j /\ two[1] = wire[1] /\ 1 \in 1 .. Len(wire) /\ r \in Reply
        /\ r = wire[1].reply /\ wire[1].part = "header"
    BY <1>0, <1>1, <2>2, BlankType, HeaderKnown
  <2> HIDE DEF r
  <2>4. /\ r.length \in Nat
        /\ \A k \in 1 .. r.length + 1 : /\ 1 + k \in 1 .. Len(wire) /\ wire[1 + k].reply = r
                                        /\ k <= r.length => wire[1 + k].part # "trailer"
    BY <1>0, <2>3 DEF Intact
  <2>5. CASE r.length = 0
    <3>1. host' = ParseQuery(two)
      BY <2>1, <2>2, <2>5 DEF AfterQueryHeader, r
    <3>2. Parses(two)
      BY <1>6, <3>1 DEF ParseQuery, EndsEmpty
    <3>3. host' = Answers("data", r, IsWhole(two)) /\ two[2].part = "trailer"
      BY <2>5, <3>1, <3>2 DEF ParseQuery, Parses, r
    <3>4. two[2].reply = r
      <4>1. two[2] = wire[2]
        BY <1>1, <3>3, BlankType
      <4>2. 1 \in 1 .. r.length + 1 /\ 1 + 1 = 2
        BY <2>5
      <4> QED
        BY <2>4, <4>1, <4>2
    <3>5. IsWhole(two) = TRUE
      BY <2>5, <3>4 DEF IsWhole, r
    <3> QED
      BY <1>0, <2>3, <3>3, <3>5, WholeAnswer DEF u
  <2>6. CASE r.length > 0
    <3>1. host' = [host EXCEPT !.at = "rest", !.got = two]
      BY <2>1, <2>2, <2>6 DEF AfterQueryHeader, r
    <3>2. host'.got = two /\ host'.result = host.result /\ host'.type = host.type /\ host'.at = "rest"
      BY <1>0, <3>1 DEF Hosts
    <3> DEFINE m == r.length
    <3>3. m \in Nat /\ m > 0 /\ Len(wire) \in Nat /\ j \in {1, 2}
      BY <1>0, <2>3, <2>4, <2>6
    <3>4. /\ \A k \in 1 .. m + 1 : 1 + k \in 1 .. Len(wire) /\ wire[1 + k].reply = r
          /\ wire[1 + m].part # "trailer"
      <4>1. m \in 1 .. m + 1
        BY <3>3
      <4> QED
        BY <2>4, <4>1
    <3> HIDE DEF m
    <3>5. m \in 1 .. Len(u)
      <4>1. 1 + (m + 1) \in 1 .. Len(wire)
        BY <3>3, <3>4
      <4> QED
        BY <1>3, <3>3, <4>1
    <3>6. \A k \in 1 .. m : u[k].reply = r
      <4>1. TAKE k \in 1 .. m
      <4>2. k \in 1 .. Len(wire) - j /\ (j - 1) + k \in 1 .. m + 1 /\ 1 + ((j - 1) + k) = j + k
        BY <1>3, <3>3, <3>5
      <4> QED
        BY <1>3, <3>4, <4>2
    <3>7. two[2].reply = r \/ u[m].part # "trailer"
      <4>1. CASE j = 1
        <5>1. u[m] = wire[1 + m]
          BY <1>3, <3>3, <3>5, <4>1
        <5> QED
          BY <3>4, <5>1
      <4>2. CASE j = 2
        <5>1. 1 \in 1 .. m + 1 /\ 1 + 1 = 2
          BY <3>3
        <5>2. two[2] = wire[2] /\ wire[2].reply = r
          BY <1>1, <3>4, <4>2, <5>1
        <5> QED
          BY <5>2
      <4> QED
        BY <3>3, <4>1, <4>2
    <3>8. RestOnBus(host', u)
      <4>1. /\ host'.got[1].part = "header" /\ host'.got[1].reply = r /\ r.length = m
            /\ host'.got[2].reply = two[2].reply
        BY <2>2, <3>2 DEF r, m
      <4> QED
        BY <3>5, <3>6, <3>7, <4>1 DEF RestOnBus
    <3>9. WholeResult(host')
      BY <3>2 DEF WholeResult, Without
    <3> QED
      BY <3>8, <3>9 DEF u
  <2> QED
    BY <2>4, <2>5, <2>6
<1> QED
  BY <1>4, <1>5, <1>6

LEMMA RestOfIntact ==
  ASSUME ObpInv, RestOnBus(host, wire), host.at = "rest",
         NEW j \in 0 .. Len(wire), j <= Wanted, Received(SubSeq(wire, 1, j)), NEW w
  PROVE  WholeResult(host') /\ RestOnBus(host', w) /\ host'.at = "idle"
<1> DEFINE r    == host.got[1].reply
           m    == r.length
           b    == Into(Blanks(Wanted), SubSeq(wire, 1, j))
           all  == host.got \o b
<1>0. /\ host \in Hosts /\ Wanted = m /\ m \in Nat /\ host.got \in Seq(Seen) /\ Len(host.got) = 2
      /\ Len(wire) \in Nat
  BY WantedType, InvInParts, LenProperties DEF HostTracked, ObpInv, Tracked
<1>1. /\ host.got[1].part = "header" /\ m \in 1 .. Len(wire)
      /\ \A k \in 1 .. m : wire[k].reply = r
      /\ host.got[2].reply = r \/ wire[m].part # "trailer"
  BY DEF RestOnBus
<1>2. b \in Seq(Seen) /\ Len(b) = m /\ \A i \in 1 .. m : b[i] = IF i <= j THEN wire[i] ELSE Blank
  BY <1>0, ReadInto
<1>3. host' = ParseQuery(all)
  BY DEF Received
<1>4. r \in Reply
  <2>1. host.got[1] \in Seen
    <3>1. 1 \in 1 .. Len(host.got)
      BY <1>0
    <3> QED
      BY <1>0, <3>1, ElementOfSeq
  <2> QED
    BY <1>1, <2>1, HeaderKnown
<1> HIDE DEF m, b, r
<1>5. /\ all[1] = host.got[1] /\ all[2] = host.got[2]
      /\ \A i \in 1 .. m : all[i + 2] = b[i]
  <2>3. \A i \in 1 .. Len(host.got) + Len(b) :
          all[i] = IF i <= Len(host.got) THEN host.got[i] ELSE b[i - Len(host.got)]
    BY <1>0, <1>2, ConcatProperties
  <2> HIDE DEF all
  <2>1. \A i \in 1 .. 2 + m : all[i] = IF i <= 2 THEN host.got[i] ELSE b[i - 2]
    BY <1>0, <1>2, <2>3
  <2>2. /\ 1 \in 1 .. 2 + m /\ 2 \in 1 .. 2 + m
        /\ \A i \in 1 .. m : i + 2 \in 1 .. 2 + m /\ ~(i + 2 <= 2) /\ (i + 2) - 2 = i
    BY <1>0
  <2> QED
    BY <2>1, <2>2
<1> HIDE DEF all
<1>6. CASE EndsEmpty
  BY <1>0, <1>6, NothingToBeWhole
<1>7. CASE ~EndsEmpty
  <2>1. Parses(all) /\ host' = Answers("data", all[1].reply, IsWhole(all))
    BY <1>3, <1>7 DEF ParseQuery, EndsEmpty
  <2>2. all[m + 2].part = "trailer" /\ all[m + 2] = b[m]
    BY <1>1, <1>5, <2>1 DEF Parses, r, m
  <2>3. m <= j /\ b[m] = wire[m]
    BY <1>1, <1>2, <2>2, BlankType
  <2>4. host.got[2].reply = r
    BY <1>1, <2>2, <2>3
  <2>5. ASSUME NEW i \in 1 .. m + 2
        PROVE  all[i].reply = r
    <3>1. CASE i = 1
      BY <1>5, <3>1 DEF r
    <3>2. CASE i = 2
      BY <1>5, <2>4, <3>2
    <3>3. CASE i # 1 /\ i # 2
      <4>1. i - 2 \in 1 .. m /\ (i - 2) + 2 = i /\ i - 2 <= j
        BY <1>0, <2>3, <3>3
      <4>2. all[i] = b[i - 2] /\ b[i - 2] = wire[i - 2]
        BY <1>2, <1>5, <4>1
      <4> QED
        BY <1>1, <4>1, <4>2
    <3> QED
      BY <3>1, <3>2, <3>3
  <2>6. IsWhole(all) = TRUE /\ all[1].reply = r
    BY <1>5, <2>5 DEF IsWhole, r, m
  <2> QED
    BY <1>0, <1>4, <2>1, <2>6, WholeAnswer
<1> QED
  BY <1>6, <1>7

LEMMA IntactRead ==
  ASSUME ObpInv, Busy, Intact(wire), RestOnBus(host, wire), host.at # "idle",
         NEW j \in 0 .. Len(wire), j <= Wanted, Received(SubSeq(wire, 1, j))
  PROVE  WholeResult(host') /\ RestOnBus(host', SubSeq(wire, j + 1, Len(wire)))
<1>0. host \in Hosts
  BY InvInParts DEF HostTracked
<1>1. CASE host.at = "header"
  BY <1>1, WantedType, HeaderOfIntact DEF Busy
<1>2. CASE host.at = "rest"
  BY <1>2, RestOfIntact
<1>3. CASE host.at = "spectrum"
  <2>1. host.type = Spectrum
    BY <1>3 DEF Busy
  <2>2. /\ SubSeq(wire, 1, j) \in Seq(Known(Calls)) /\ Len(SubSeq(wire, 1, j)) <= Wanted
    BY ReadKnown
  <2>3. EndsEmpty \/ \E r \in Reply : EndsWith(r)
    BY <1>3, <2>2, ReceivedSteps DEF GoesOn
  <2>4. CASE EndsEmpty
    BY <1>0, <2>4, NothingToBeWhole
  <2>5. ASSUME NEW r \in Reply, EndsWith(r)
        PROVE  WholeResult(host') /\ RestOnBus(host', SubSeq(wire, j + 1, Len(wire)))
    BY <1>0, <2>1, <2>5, WholeAnswer DEF EndsWith
  <2> QED
    BY <2>3, <2>4, <2>5
<1> QED
  BY <1>0, <1>1, <1>2, <1>3 DEF Hosts

\* A reply that was cut short is read to its end, and never makes a payload.
LEMMA CutRead ==
  ASSUME ObpInv, Busy, CutShort, Receive
  PROVE  WholeResult(host') /\ ((wire' = << >> /\ host'.at = "idle") \/ CutShort')
<1>0. /\ host \in Hosts /\ host.at # "idle" /\ host.result = Without /\ Calls \in Nat
      /\ wire \in Seq(Cell) /\ Len(wire) \in Nat /\ UNCHANGED <<inbox, faults, verdict>>
      /\ faults = MaxFaults /\ inbox = << >>
      /\ host.at \in {"header", "rest", "spectrum"} /\ host.type \in Types /\ Spectrum \in Types
  BY InvInParts, LenProperties, LengthType
     DEF Receive, device, HostTracked, Hosts, Busy, CutShort, ObpInv, ObpTypeOK
<1>1. PICK j \in Taken : Received(SubSeq(wire, 1, j)) /\ wire' = SubSeq(wire, j + 1, Len(wire))
  BY DEF Receive
<1>2. j \in 0 .. Len(wire) /\ j <= Wanted /\ Wanted \in Nat
  BY <1>0, <1>1, TakenBounded, WantedType
<1>3. /\ wire' \in Seq(Cell) /\ Len(wire') = Len(wire) - j
      /\ \A i \in 1 .. Len(wire) - j : wire'[i] = wire[j + i]
  BY <1>0, <1>1, <1>2, Cut
<1>4. ASSUME NEW r, \A i \in 1 .. Len(wire) : wire[i].reply = r, Wanted > 0
      PROVE  /\ Len(wire) > 0 /\ j = MinOf(Wanted, Len(wire))
             /\ \A i \in 1 .. Len(wire') : wire'[i].reply = r
  <2>1. Len(wire) > 0 /\ j = MinOf(Wanted, Len(wire))
    BY <1>0, <1>1, <1>4, OneReplyTaken
  <2>2. ASSUME NEW i \in 1 .. Len(wire')
        PROVE  wire'[i].reply = r
    <3>1. i \in 1 .. Len(wire) - j /\ j + i \in 1 .. Len(wire)
      BY <1>0, <1>2, <1>3
    <3> QED
      BY <1>3, <1>4, <3>1
  <2> QED
    BY <2>1, <2>2
<1>5. ASSUME j = Len(wire)
      PROVE  wire' = << >>
  <2>1. Len(wire') = 0
    BY <1>0, <1>3, <1>5
  <2> QED
    BY <1>3, <2>1, EmptySeq
<1>6. CASE host.at = "spectrum"
  <2>1. host.type = Spectrum /\ Wanted = Readout
    BY <1>0, <1>6, WantedType DEF Busy
  <2>2. PICK r \in Last(Spectrum) :
          /\ Len(wire) \in 1 .. r.length + 1
          /\ \A i \in 1 .. Len(wire) : wire[i].reply = r
    BY <1>6 DEF CutShort, PartOf
  <2>3. r.length \in Nat /\ r.length <= Length[Spectrum] /\ Length[Spectrum] \in Nat
    <3>1. /\ r.length = 0 \/ r.length = Length[Spectrum]
          /\ Length[Spectrum] \in Nat
      BY <1>0, LengthType, RepliesType DEF Last
    <3> QED
      BY <3>1
  <2>4. j = Len(wire)
    <3>1. Wanted > 0 /\ Len(wire) < Wanted
      BY <1>0, <2>1, <2>2, <2>3, LengthType
    <3>2. j = MinOf(Wanted, Len(wire))
      BY <1>4, <2>2, <3>1
    <3> QED
      BY <1>0, <1>2, <3>1, <3>2 DEF MinOf
  <2>5. SubSeq(wire, 1, j) \in Seq(Known(Calls)) /\ Len(SubSeq(wire, 1, j)) <= Wanted
    BY <1>2, ReadKnown
  <2>6. EndsEmpty \/ \E q \in Reply : EndsWith(q)
    BY <1>0, <1>1, <1>6, <2>5, ReceivedSteps DEF GoesOn
  <2>7. CASE EndsEmpty
    BY <1>0, <1>5, <2>4, <2>7, NothingToBeWhole
  <2>8. ASSUME NEW q \in Reply, EndsWith(q)
        PROVE  WholeResult(host') /\ wire' = << >> /\ host'.at = "idle"
    BY <1>0, <1>5, <2>1, <2>4, <2>8, WholeAnswer DEF EndsWith
  <2> QED
    BY <2>6, <2>7, <2>8
<1>7. CASE host.at = "header"
  <2> DEFINE two == Into(Blanks(2), SubSeq(wire, 1, j))
  <2>1. PICK r \in Last(host.type) :
          /\ Len(wire) \in 1 .. r.length + 1 /\ wire[1].part = "header"
          /\ \A i \in 1 .. Len(wire) : wire[i].reply = r
    BY <1>7 DEF CutShort, PartOf
  <2>2. /\ r \in Reply /\ r.type = host.type /\ r.flag \in {"data", "ack", "nack"}
        /\ r.flag = "nack" => r.length = 0
        /\ host.type \in CommandTypes => r.length = 0 /\ r.flag # "data"
        /\ r.length \in Nat
    <3>1. host.type \in CommandTypes => Length[host.type] = 0
      BY LengthAssumption
    <3>2. r \in Replies([n |-> Calls, type |-> host.type])
      BY <2>1 DEF Last
    <3>3. r \in Reply /\ r.length \in Nat
      BY <1>0, <3>2, RepliesType DEF Reply
    <3> QED
      BY <1>0, <3>1, <3>2, <3>3, RepliesType
  <2>3. /\ Wanted = 2 /\ Len(wire) > 0 /\ j = MinOf(2, Len(wire))
        /\ \A i \in 1 .. Len(wire') : wire'[i].reply = r
    <3>1. Wanted = 2 /\ Wanted > 0
      BY <1>0, <1>7, WantedType
    <3>2. /\ Len(wire) > 0 /\ j = MinOf(Wanted, Len(wire))
          /\ \A i \in 1 .. Len(wire') : wire'[i].reply = r
      BY <1>4, <2>1, <3>1
    <3> QED
      BY <3>1, <3>2
  <2>4. /\ two \in Seq(Seen) /\ Len(two) = 2
        /\ two[1] = wire[1] /\ two[2] = (IF 2 <= j THEN wire[2] ELSE Blank)
        /\ two[1].reply = r /\ two[1].part = "header"
    <3>1. j <= 2 /\ 1 <= j
      BY <1>0, <2>3 DEF MinOf
    <3>2. /\ two \in Seq(Seen) /\ Len(two) = 2
          /\ \A i \in 1 .. 2 : two[i] = IF i <= j THEN wire[i] ELSE Blank
      BY <1>2, <3>1, ReadInto
    <3>3. 1 \in 1 .. 2 /\ 2 \in 1 .. 2 /\ 1 \in 1 .. Len(wire)
      BY <1>0, <2>3
    <3> HIDE DEF two
    <3>4. two[1] = wire[1] /\ two[2] = (IF 2 <= j THEN wire[2] ELSE Blank)
      BY <3>1, <3>2, <3>3
    <3>5. wire[1].reply = r /\ wire[1].part = "header"
      BY <2>1, <3>3
    <3> QED
      BY <3>2, <3>4, <3>5
  <2>5. host' = IF host.type \in CommandTypes THEN AfterCommandHeader(two) ELSE AfterQueryHeader(two)
    BY <1>1, <1>7 DEF Received
  <2> HIDE DEF two
  <2>6. CASE r.length = 0
    <3>1. Len(wire) = 1 /\ j = 1
      <4> DEFINE m == r.length
      <4>1. m = 0 /\ Len(wire) \in 1 .. m + 1
        BY <2>1, <2>6
      <4> HIDE DEF m
      <4>2. Len(wire) = 1
        BY <1>0, <4>1
      <4> QED
        BY <2>3, <4>2 DEF MinOf
    <3>2. wire' = << >>
      BY <1>5, <3>1
    <3>3. two[2] = Blank
      BY <2>4, <3>1
    <3>4. CASE EndsEmpty
      BY <1>0, <3>2, <3>4, NothingToBeWhole
    <3>5. CASE ~EndsEmpty /\ host.type \in CommandTypes
      <4>1. host' = Answers("true", r, TRUE)
        BY <2>4, <2>5, <3>5 DEF AfterCommandHeader, EndsEmpty
      <4> QED
        BY <1>0, <2>2, <3>2, <4>1, WholeAnswer
    <3>6. CASE ~EndsEmpty /\ host.type \notin CommandTypes
      <4>1. host' = ParseQuery(two)
        BY <2>2, <2>4, <2>5, <2>6, <3>6 DEF AfterQueryHeader, EndsEmpty
      <4>2. ~Parses(two)
        BY <2>4, <2>6, <3>3, BlankType DEF Parses
      <4> QED
        BY <3>6, <4>1, <4>2 DEF ParseQuery, EndsEmpty
    <3> QED
      BY <3>4, <3>5, <3>6
  <2>7. CASE r.length # 0
    <3>1. host' = [host EXCEPT !.at = "rest", !.got = two]
      BY <2>2, <2>4, <2>5, <2>7 DEF AfterQueryHeader
    <3>2. host'.at = "rest" /\ host'.got = two /\ host'.result = Without
      BY <1>0, <3>1 DEF Hosts
    <3>3. Len(wire') < r.length
      <4> DEFINE m == r.length
      <4>1. m \in Nat /\ m # 0 /\ Len(wire) \in 1 .. m + 1
        BY <2>1, <2>2, <2>7
      <4> HIDE DEF m
      <4>2. Len(wire) - j < m
        BY <1>0, <2>3, <4>1 DEF MinOf
      <4> QED
        BY <1>3, <4>2 DEF m
    <3>4. RestMissing'
      <4>1. host'.got[1].part = "header" /\ host'.got[1].reply = r
        BY <2>4, <3>2
      <4> QED
        BY <2>3, <3>3, <4>1 DEF RestMissing
    <3>5. CutShort'
      BY <1>0, <3>2, <3>4 DEF CutShort
    <3> QED
      BY <3>2, <3>5 DEF WholeResult, Without
  <2> QED
    BY <2>6, <2>7
<1>8. CASE host.at = "rest"
  <2> DEFINE r   == host.got[1].reply
             m   == r.length
             b   == Into(Blanks(Wanted), SubSeq(wire, 1, j))
             all == host.got \o b
  <2>1. /\ host.got[1].part = "header" /\ Len(wire) < m
        /\ \A i \in 1 .. Len(wire) : wire[i].reply = r
    BY <1>8 DEF CutShort, RestMissing
  <2>2. Wanted = m /\ m \in Nat /\ host.got \in Seq(Seen) /\ Len(host.got) = 2
    BY <1>0, <1>2, <1>8, WantedType DEF ObpInv, Tracked
  <2>3. b \in Seq(Seen) /\ Len(b) = m /\ \A i \in 1 .. m : b[i] = IF i <= j THEN wire[i] ELSE Blank
    BY <1>2, <2>2, ReadInto
  <2>4. host' = ParseQuery(all)
    BY <1>1, <1>8 DEF Received
  <2> HIDE DEF r, m, b
  <2>5. j = Len(wire) /\ j < m
    <3>1. Wanted > 0
      BY <1>0, <2>1, <2>2
    <3>2. j = MinOf(Wanted, Len(wire))
      BY <1>4, <2>1, <3>1
    <3> QED
      BY <1>0, <2>1, <2>2, <3>2 DEF MinOf
  <2>6. all[1] = host.got[1] /\ all[m + 2] = b[m]
    <3>1. \A i \in 1 .. Len(host.got) + Len(b) :
            all[i] = IF i <= Len(host.got) THEN host.got[i] ELSE b[i - Len(host.got)]
      BY <2>2, <2>3, ConcatProperties
    <3> HIDE DEF all
    <3>2. \A i \in 1 .. 2 + m : all[i] = IF i <= 2 THEN host.got[i] ELSE b[i - 2]
      BY <2>2, <2>3, <3>1
    <3>3. 1 \in 1 .. 2 + m /\ m + 2 \in 1 .. 2 + m /\ ~(m + 2 <= 2) /\ (m + 2) - 2 = m
      BY <1>0, <2>1, <2>2
    <3> QED
      BY <3>2, <3>3
  <2> HIDE DEF all
  <2>7. b[m] = Blank
    <3>1. m \in 1 .. m /\ ~(m <= j)
      BY <1>2, <2>2, <2>5
    <3> QED
      BY <2>3, <3>1
  <2>8. ~Parses(all)
    BY <2>6, <2>7, BlankType DEF Parses, r, m
  <2>9. EndsEmpty
    BY <2>4, <2>8 DEF ParseQuery, EndsEmpty
  <2> QED
    BY <1>0, <1>5, <2>5, <2>9, NothingToBeWhole
<1> QED
  BY <1>0, <1>6, <1>7, <1>8

LEMMA AnswerWhole ==
  ASSUME MaxFaults <= 1, ObpInv, InStep, WholeInv, DeviceAnswers
  PROVE  WholeInv'
<1>0. /\ Calls \in Nat /\ Calls' = Calls /\ UNCHANGED <<host, pending>> /\ inbox # << >>
      /\ wire \in Seq(Cell) /\ Len(wire) \in Nat /\ host \in Hosts /\ Spectrum \in Types
      /\ WholeResult(host) /\ Intact(wire) /\ RestOnBus(host, wire) /\ faults \in Nat
  <2>1. UNCHANGED <<host, pending>> /\ inbox # << >>
    BY DEF DeviceAnswers
  <2>2. WholeResult(host) /\ Intact(wire) /\ RestOnBus(host, wire)
    BY <2>1 DEF WholeInv, CutShort
  <2>3. wire \in Seq(Cell) /\ Len(wire) \in Nat
    BY LenProperties DEF ObpInv, ObpTypeOK
  <2>4. faults \in Nat
    BY InvInParts, ObpBoundsAssumption
  <2> QED
    BY <2>1, <2>2, <2>3, <2>4, AnswerTracked, InvInParts, LengthType DEF HostTracked
<1> DEFINE request == Head(inbox)
<1>1. /\ request \in [n : 1 .. Calls, type : Types] /\ request.n \in Nat /\ request.type \in Types
      /\ request = [n |-> request.n, type |-> request.type]
  <2> DEFINE S == [n : 1 .. Calls, type : Types]
  <2>1. inbox \in Seq(S) /\ inbox # << >>
    BY <1>0, InvInParts DEF BusTracked
  <2> HIDE DEF S
  <2>2. request \in S
    BY <2>1, HeadTailProperties
  <2> QED
    BY <1>0, <2>2 DEF S
<1> HIDE DEF request
<1>2. PICK r \in Replies(request) :
        \/ wire' = wire \o Cells(r) /\ UNCHANGED faults
        \/ Fault /\ \E j \in 0 .. r.length + 1 : wire' = wire \o SubSeq(Cells(r), 1, j)
  BY DEF DeviceAnswers, request
<1>3. r \in Reply /\ r.length \in Nat
  <2>1. r \in Replies([n |-> request.n, type |-> request.type])
    BY <1>1, <1>2
  <2> QED
    BY <1>1, <2>1, RepliesType DEF Reply
<1>4. CASE wire' = wire \o Cells(r)
  <2>1. Intact(wire')
    BY <1>0, <1>3, <1>4, IntactMore
  <2>2. Len(wire') \in Nat /\ Len(wire) <= Len(wire') /\ \A i \in 1 .. Len(wire) : wire'[i] = wire[i]
    <3>1. Cells(r) \in Seq(Cell) /\ Len(Cells(r)) \in Nat
      BY <1>3, CellsProperties
    <3> DEFINE c == Cells(r)
    <3> HIDE DEF c
    <3>2. /\ Len(wire \o c) = Len(wire) + Len(c)
          /\ \A i \in 1 .. Len(wire) + Len(c) :
               (wire \o c)[i] = IF i <= Len(wire) THEN wire[i] ELSE c[i - Len(wire)]
      BY <1>0, <3>1, ConcatProperties DEF c
    <3>3. wire' = wire \o c
      BY <1>4 DEF c
    <3>4. Len(c) \in Nat
      BY <3>1 DEF c
    <3>5. Len(wire') = Len(wire) + Len(c) /\ \A i \in 1 .. Len(wire) : i \in 1 .. Len(wire) + Len(c)
      BY <1>0, <3>2, <3>3, <3>4
    <3>6. Len(wire') \in Nat /\ Len(wire) <= Len(wire')
      BY <1>0, <3>4, <3>5
    <3>7. \A i \in 1 .. Len(wire) : i <= Len(wire)
      BY <1>0
    <3> HIDE DEF c
    <3> QED
      BY <3>2, <3>3, <3>5, <3>6, <3>7
  <2>3. RestOnBus(host, wire')
    <3> DEFINE r1 == host.got[1].reply
               m  == r1.length
    <3>1. SUFFICES ASSUME host.at = "rest"
                   PROVE  RestOnBus(host, wire')
      BY DEF RestOnBus
    <3>2. /\ host.got[1].part = "header" /\ m \in 1 .. Len(wire)
          /\ \A k \in 1 .. m : wire[k].reply = r1
          /\ host.got[2].reply = r1 \/ wire[m].part # "trailer"
      BY <1>0, <3>1 DEF RestOnBus
    <3> HIDE DEF m
    <3>3. m \in 1 .. Len(wire') /\ \A k \in 1 .. m : k \in 1 .. Len(wire)
      BY <1>0, <2>2, <3>2
    <3>4. wire'[m] = wire[m] /\ \A k \in 1 .. m : wire'[k].reply = r1
      BY <2>2, <3>2, <3>3
    <3> QED
      BY <3>2, <3>3, <3>4 DEF RestOnBus, m
  <2> QED
    BY <1>0, <2>1, <2>3 DEF WholeInv
<1>5. ASSUME Fault, NEW j \in 1 .. r.length + 1, wire' = wire \o SubSeq(Cells(r), 1, j)
      PROVE  WholeInv'
  <2>1. faults = 0 /\ faults' = MaxFaults
    BY <1>0, <1>5, ObpBoundsAssumption DEF Fault
  <2>2. ASSUME NEW t \in Types, Expected(t)
        PROVE  inbox' = << >> /\ PartOf(t)'
    <3>1. inbox = <<[n |-> Calls, type |-> t]>> /\ wire = << >>
      BY <1>0, <2>2 DEF Expected
    <3>2. inbox' = << >> /\ r \in Last(t)
      BY <1>2, <3>1 DEF DeviceAnswers, request, Last
    <3>3. /\ Cells(r) \in Seq(Cell) /\ Len(Cells(r)) = r.length + 2
          /\ \A i \in 1 .. r.length + 2 : Cells(r)[i].reply = r
          /\ Cells(r)[1].part = "header"
      BY <1>3, CellsProperties
    <3>4. j \in 0 .. Len(Cells(r)) /\ 1 \in 1 .. j /\ \A i \in 1 .. j : i \in 1 .. r.length + 2
      <4> DEFINE m == r.length
      <4>1. m \in Nat /\ j \in 1 .. m + 1
        BY <1>3
      <4> HIDE DEF m
      <4>2. j \in 0 .. m + 2 /\ 1 \in 1 .. j /\ \A i \in 1 .. j : i \in 1 .. m + 2
        BY <4>1
      <4> QED
        BY <3>3, <4>2 DEF m
    <3>5. /\ SubSeq(Cells(r), 1, j) \in Seq(Cell) /\ Len(SubSeq(Cells(r), 1, j)) = j
          /\ \A i \in 1 .. j : SubSeq(Cells(r), 1, j)[i] = Cells(r)[i]
      BY <3>3, <3>4, Cut
    <3>6. wire' = SubSeq(Cells(r), 1, j)
      BY <1>5, <3>1, <3>5, ConcatEmptySeq
    <3>7. Len(wire') \in 1 .. r.length + 1 /\ wire'[1].part = "header"
          /\ \A i \in 1 .. Len(wire') : wire'[i].reply = r
      BY <1>5, <3>3, <3>4, <3>5, <3>6
    <3> QED
      BY <1>0, <3>2, <3>7 DEF PartOf, Last
  <2>3. CutShort'
    <3>1. ~(host.at = "idle" /\ ~pending) /\ host.at # "rest"
      BY <1>0, <2>1 DEF InStep, InSync, OnItsWay, HalfRead
    <3>2. CASE pending \/ host.at = "spectrum"
      <4>1. Expected(Spectrum) /\ (pending => host.at = "idle")
        BY <2>1, <3>2 DEF InStep, OnItsWay
      <4> QED
        BY <1>0, <2>1, <2>2, <3>2, <4>1 DEF CutShort
    <3>3. CASE host.at = "header"
      <4>1. Expected(host.type) /\ host.type \in Types
        BY <1>0, <2>1, <3>3 DEF InStep, OnItsWay, Hosts
      <4>2. inbox' = << >> /\ PartOf(host.type)'
        <5>1. inbox' = << >> /\ \A t \in Types : t = host.type => PartOf(t)'
          BY <2>2, <4>1
        <5> QED
          BY <1>0, <4>1, <5>1 DEF PartOf, Last
      <4> QED
        BY <1>0, <2>1, <3>3, <4>2 DEF CutShort
    <3> QED
      BY <1>0, <3>1, <3>2, <3>3 DEF Hosts
  <2> QED
    BY <1>0, <2>3 DEF WholeInv
<1>6. CASE wire' = wire \o SubSeq(Cells(r), 1, 0)
  <2>1. Cells(r) \in Seq(Cell) /\ 0 \in 0 .. Len(Cells(r))
    BY <1>3, CellsProperties
  <2>2. SubSeq(Cells(r), 1, 0) \in Seq(Cell) /\ Len(SubSeq(Cells(r), 1, 0)) = 0
    BY <2>1, Cut
  <2>3. SubSeq(Cells(r), 1, 0) = << >>
    BY <2>2, EmptySeq
  <2>4. wire' = wire
    BY <1>0, <1>6, <2>3, ConcatEmptySeq
  <2> QED
    BY <1>0, <2>4 DEF WholeInv
<1>7. 0 .. r.length + 1 = {0} \cup 1 .. r.length + 1
  BY <1>3
<1> QED
  BY <1>2, <1>4, <1>5, <1>6, <1>7

LEMMA SendWhole ==
  ASSUME Symmetric, ObpInv, WholeInv, NEW t \in Types, Send(t) \/ SendFails(t)
  PROVE  WholeInv'
<1>0. host \in Hosts /\ host.at = "idle" /\ ~pending /\ UNCHANGED wire
  BY InvInParts DEF Send, SendFails, MayCall, HostTracked
<1>1. Intact(wire)
  BY <1>0 DEF WholeInv, CutShort
<1>2. host'.at # "rest" /\ host'.result.is # "data"
  <2>1. CASE Send(t)
    <3>1. host' = Start("idle", t) \/ host' = Start("header", t)
      BY <2>1 DEF Send
    <3> QED
      BY <1>0, <3>1, StepsOfHost DEF Without
  <2>2. CASE SendFails(t)
    <3>1. host' = [Return("throw") EXCEPT !.type = t]
      BY <2>2 DEF SendFails
    <3>2. Return("throw") \in Hosts /\ Return("throw").at = "idle" /\ Return("throw").result.is = "throw"
      BY <1>0, StepsOfHost
    <3>3. host'.at = "idle" /\ host'.result.is = "throw"
      BY <3>1, <3>2 DEF Hosts
    <3> QED
      BY <3>3
  <2> QED
    BY <2>1, <2>2
<1> QED
  BY <1>0, <1>1, <1>2 DEF WholeInv, WholeResult, RestOnBus

LEMMA ReadSpectrumWhole ==
  ASSUME ObpInv, WholeInv, ReadSpectrum
  PROVE  WholeInv'
<1>0. host \in Hosts /\ host' = Start("spectrum", Spectrum) /\ host.at = "idle"
      /\ UNCHANGED <<wire, inbox, faults, verdict>> /\ Spectrum \in Types
  BY InvInParts, LengthType DEF ReadSpectrum, device, HostTracked
<1>1. host'.at = "spectrum" /\ host'.result = Without
  BY <1>0, StepsOfHost
<1>2. WholeResult(host)' /\ RestOnBus(host, wire)'
  BY <1>1 DEF WholeResult, RestOnBus, Without
<1>3. CutShort => CutShort'
  BY <1>0, <1>1 DEF CutShort, PartOf, Last, Calls
<1> QED
  BY <1>0, <1>2, <1>3 DEF WholeInv

LEMMA ExchangeWhole ==
  ASSUME ObpInv, Busy, WholeInv, Exchange
  PROVE  WholeInv'
<1>0. /\ host.at # "idle" /\ host \in Hosts /\ wire \in Seq(Cell) /\ Len(wire) \in Nat
      /\ Wanted \in Nat
  BY ExchangeReads, WantedType, InvInParts, LenProperties DEF HostTracked, ObpInv, ObpTypeOK
<1>1. CASE Intact(wire) /\ RestOnBus(host, wire)
  <2>1. PICK j \in 0 .. Len(wire) :
          /\ j <= Wanted /\ wire' = SubSeq(wire, j + 1, Len(wire))
          /\ Received(SubSeq(wire, 1, j)) \/ host' = Return("throw")
    <3>1. CASE Receive
      <4>1. PICK j \in Taken : Received(SubSeq(wire, 1, j)) /\ wire' = SubSeq(wire, j + 1, Len(wire))
        BY <3>1 DEF Receive
      <4> QED
        BY <1>0, <4>1, TakenBounded
    <3>2. CASE ReceiveShort
      <4>1. PICK j \in 0 .. MinOf(Wanted - 1, Len(wire)) :
              Received(SubSeq(wire, 1, j)) /\ wire' = SubSeq(wire, j + 1, Len(wire))
        BY <3>2 DEF ReceiveShort
      <4>2. j \in 0 .. Len(wire) /\ j <= Wanted
        BY <1>0, <4>1 DEF MinOf
      <4> QED
        BY <4>1, <4>2
    <3>3. CASE ReceiveFails
      <4>1. PICK j \in 0 .. MinOf(Wanted, Len(wire)) : wire' = SubSeq(wire, j + 1, Len(wire))
        BY <3>3 DEF ReceiveFails
      <4>2. j \in 0 .. Len(wire) /\ j <= Wanted
        BY <1>0, <4>1 DEF MinOf
      <4>3. host' = Return("throw")
        BY <3>3 DEF ReceiveFails
      <4> QED
        BY <4>1, <4>2, <4>3
    <3> QED
      BY <3>1, <3>2, <3>3 DEF Exchange
  <2>2. Intact(wire')
    BY <1>0, <1>1, <2>1, IntactSuffix
  <2>3. CASE Received(SubSeq(wire, 1, j))
    <3>1. WholeResult(host') /\ RestOnBus(host', SubSeq(wire, j + 1, Len(wire)))
      BY <1>0, <1>1, <2>1, <2>3, IntactRead
    <3>2. RestOnBus(host', wire')
      BY <2>1, <3>1
    <3> QED
      BY <2>2, <3>1, <3>2 DEF WholeInv
  <2>4. CASE host' = Return("throw")
    <3>1. EndsEmpty
      BY <2>4 DEF EndsEmpty
    <3>2. WholeResult(host') /\ RestOnBus(host', wire')
      BY <1>0, <3>1, NothingToBeWhole
    <3> QED
      BY <2>2, <3>2 DEF WholeInv
  <2> QED
    BY <2>1, <2>3, <2>4
<1>2. CASE CutShort
  <2>1. Receive
    <3>1. ~Fault
      BY <1>2, InvInParts, ObpBoundsAssumption DEF CutShort, Fault
    <3> QED
      BY <3>1 DEF Exchange, ReceiveFails, ReceiveShort
  <2>2. WholeResult(host') /\ ((wire' = << >> /\ host'.at = "idle") \/ CutShort')
    BY <1>2, <2>1, CutRead
  <2>3. wire' = << >> /\ host'.at = "idle" => Intact(wire') /\ RestOnBus(host', wire')
    BY DEF Intact, RestOnBus
  <2> QED
    BY <2>2, <2>3 DEF WholeInv
<1> QED
  BY <1>1, <1>2 DEF WholeInv

LEMMA NextWhole ==
  ASSUME Symmetric, MaxFaults <= 1, ObpInv, Busy, InStep, WholeInv, [ObpNext]_vars
  PROVE  WholeInv'
<1>1. CASE DeviceAnswers
  BY <1>1, AnswerWhole
<1>2. ASSUME NEW t \in Types, Send(t) \/ SendFails(t)
      PROVE  WholeInv'
  BY <1>2, SendWhole
<1>3. CASE ReadSpectrum
  BY <1>3, ReadSpectrumWhole
<1>4. CASE Exchange
  BY <1>4, ExchangeWhole
<1>5. CASE UNCHANGED vars
  <2>1. UNCHANGED <<host, pending, inbox, wire, verdict, faults>>
    BY <1>5 DEF vars, device
  <2>2. CutShort => CutShort'
    BY <2>1 DEF CutShort, PartOf, RestMissing, Last, Calls
  <2> QED
    BY <2>1, <2>2 DEF WholeInv
<1> QED
  BY <1>1, <1>2, <1>3, <1>4, <1>5 DEF ObpNext

\* With one fault, wherever it strikes, success is never reported for an
\* answer the device did not give, and a query never returns a payload put
\* together from two replies: neither what an earlier exchange left on the bus
\* nor a reply that was cut short can pass for another (OBPTransaction.cpp).
THEOREM AnswersAreGenuine ==
  ASSUME Symmetric, MaxFaults <= 1
  PROVE  ObpSpec => []AnswersGenuine
<1>1. ObpInit => WholeInv
  BY DEF ObpInit, WholeInv, WholeResult, Without, Intact, RestOnBus
<1>2. ObpInv /\ Busy /\ InStep /\ WholeInv /\ [ObpNext]_vars => WholeInv'
  BY NextWhole
<1>3. GivenInv /\ WholeInv => AnswersGenuine
  <2>1. GivenInv => SuccessWasGiven
    BY DEF GivenInv, HostGiven, ResultGiven, SuccessWasGiven
  <2>2. WholeInv => QueryIsWhole
    BY DEF WholeInv, WholeResult, QueryIsWhole
  <2> QED
    BY <2>1, <2>2 DEF AnswersGenuine
<1> QED
  BY StaysGiven, StaysInStep, <1>1, <1>2, <1>3, PTL DEF ObpSpec
=============================================================================
