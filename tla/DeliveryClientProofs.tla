------------------------- MODULE DeliveryClientProofs -------------------------
(***************************************************************************)
(* What a phone sees of the delivery.                                      *)
(*                                                                         *)
(* Delivery implements RealtimeClient: lost connections, writes sent again *)
(* and answers held back are invisible to the phone's screen, which sees a *)
(* queue of writes answered from its front.  Held writes come before       *)
(* outstanding ones in that queue (Laid), so an answer that is held back   *)
(* moves a write within it without changing it.                            *)
(*                                                                         *)
(* What a phone has been told (SightInv) is enough to drop a write when it *)
(* is answered: nothing shown is lost with it, and a phone with nothing    *)
(* left to receive or to send shows what the database has.                 *)
(***************************************************************************)
EXTENDS DeliveryProofs

LEMMA LaidNothing ==
    ASSUME NEW sent \in Seq(Writes), NEW c, c = Laid(<<>>, sent)
    PROVE  c = sent
<1>1. [i \in 1..Len(<<>>) |-> <<>>[i].write] = <<>>
  OBVIOUS
<1>2. c = <<>> \o sent
  BY <1>1 DEF Laid
<1>3. QED
  BY <1>2, ConcatEmptySeq

\* d are the writes of c followed by t.
Extends(d, c, t) ==
    /\ Len(c) \in Nat /\ Len(t) \in Nat /\ Len(d) = Len(c) + Len(t)
    /\ c = SubSeq(d, 1, Len(c))
    /\ \A i \in (Len(c) + 1)..Len(d) : i - Len(c) \in 1..Len(t) /\ d[i] = t[i - Len(c)]

\* More writes: ...
LEMMA LaidMore ==
    ASSUME NEW held \in Seq(Answered), NEW sent \in Seq(Writes), NEW t \in Seq(Writes)
    PROVE  Extends(Laid(held, sent \o t), Laid(held, sent), t)
<1> PICK c, d : c = Laid(held, sent) /\ d = Laid(held, sent \o t)
  OBVIOUS
<1>1. sent \o t \in Seq(Writes) /\ Len(sent \o t) = Len(sent) + Len(t)
  BY ConcatProperties
<1>2. /\ c \in Seq(Writes) /\ Len(c) = Len(held) + Len(sent)
      /\ Len(held) \in Nat /\ Len(sent) \in Nat /\ Len(t) \in Nat
  BY HeldThenSent
<1>3. d \in Seq(Writes) /\ Len(d) = Len(c) + Len(t)
  <2>1. PICK u : u = sent \o t
    OBVIOUS
  <2>2. u \in Seq(Writes) /\ d = Laid(held, u) /\ Len(u) = Len(sent) + Len(t)
    BY <1>1, <2>1
  <2>3. d \in Seq(Writes) /\ Len(d) = Len(held) + Len(u)
    BY <2>2, HeldThenSent
  <2>4. QED
    BY <1>2, <2>2, <2>3
<1>4. d = c \o t
  <2>1. PICK h : h = [i \in 1..Len(held) |-> held[i].write]
    OBVIOUS
  <2>2. c = h \o sent /\ d = h \o (sent \o t)
    BY <2>1 DEF Laid
  <2>3. h \in Seq(Writes)
    <3>1. \A i \in 1..Len(held) : held[i] \in Answered
      BY ElementOfSeq
    <3>2. \A i \in 1..Len(held) : held[i].write \in Writes
      BY <3>1 DEF Answered
    <3>3. QED
      BY <1>2, <2>1, <3>2
  <2>4. h \o (sent \o t) = (h \o sent) \o t
    BY <2>3, ConcatAssociative, SMTT(30)
  <2>5. QED
    BY <2>2, <2>4
<1>5. /\ c \o t \in Seq(Writes) /\ Len(c \o t) = Len(c) + Len(t)
      /\ \A i \in 1..(Len(c) + Len(t)) :
            (c \o t)[i] = IF i <= Len(c) THEN c[i] ELSE t[i - Len(c)]
  <2>1. c \in Seq(Writes)
    BY <1>2
  <2>2. QED
    BY <2>1, ConcatProperties
<1>6. \A i \in (Len(c) + 1)..Len(d) : i - Len(c) \in 1..Len(t) /\ d[i] = t[i - Len(c)]
  BY <1>2, <1>3, <1>4, <1>5
<1>7. c = SubSeq(d, 1, Len(c))
  BY <1>2, <1>4, SubSeqOfConcat1
<1>8. Extends(d, c, t)
  BY <1>2, <1>3, <1>6, <1>7 DEF Extends
<1>9. QED
  BY <1>8

\* ... the held ones complete: ...
LEMMA LaidReleased ==
    ASSUME NEW held \in Seq(Answered), NEW sent \in Seq(Writes), NEW c, c = Laid(held, sent)
    PROVE  /\ sent = SubSeq(c, Len(held) + 1, Len(c))
           /\ Len(held) \in 0..Len(c)
           /\ held = <<>> => c = sent
<1>1. /\ c \in Seq(Writes) /\ Len(c) = Len(held) + Len(sent)
      /\ Len(held) \in Nat /\ Len(sent) \in Nat
      /\ \A i \in 1..Len(sent) : c[Len(held) + i] = sent[i]
  BY HeldThenSent
<1>2. PICK n : n = Len(held)
  OBVIOUS
<1>3. PICK r : r = SubSeq(c, n + 1, Len(c))
  OBVIOUS
<1>4. /\ r \in Seq(Writes) /\ Len(r) = Len(sent)
      /\ \A i \in 1..Len(sent) : r[i] = c[n + i]
  <2>1. \A i \in (n + 1)..Len(c) : c[i] \in Writes
    BY <1>1, <1>2, ElementOfSeq
  <2>2. n + 1 \in Int /\ Len(c) \in Int
    BY <1>1, <1>2
  <2>3. /\ r \in Seq(Writes)
        /\ Len(r) = IF n + 1 <= Len(c) THEN Len(c) - (n + 1) + 1 ELSE 0
        /\ \A i \in 1..(Len(c) - (n + 1) + 1) : r[i] = c[(n + 1) + i - 1]
    BY <1>3, <2>1, <2>2, SubSeqProperties
  <2>4. Len(r) = Len(sent)
    BY <1>1, <1>2, <2>3
  <2>5. ASSUME NEW i \in 1..Len(sent) PROVE r[i] = c[n + i]
    <3>1. i \in 1..(Len(c) - (n + 1) + 1) /\ (n + 1) + i - 1 = n + i
      BY <1>1, <1>2
    <3>2. QED
      BY <2>3, <3>1
  <2>6. QED
    BY <2>3, <2>4, <2>5
<1>5. r = sent
  BY <1>1, <1>2, <1>4, SeqEqual
<1>6. held = <<>> => c = sent
  BY LaidNothing
<1>7. QED
  BY <1>1, <1>2, <1>3, <1>5, <1>6

\* ... and the oldest outstanding one becomes the last held one.
LEMMA LaidMoved ==
    ASSUME NEW held \in Seq(Answered), NEW sent \in Seq(Writes), sent # <<>>,
           NEW a \in Answered, a.write = Head(sent),
           NEW c, c = Laid(held, sent), NEW d, d = Laid(Append(held, a), Tail(sent))
    PROVE  d = c
<1>1. /\ c \in Seq(Writes) /\ Len(c) = Len(held) + Len(sent)
      /\ Len(held) \in Nat /\ Len(sent) \in Nat
      /\ \A i \in 1..Len(held) : c[i] = held[i].write
      /\ \A i \in 1..Len(sent) : c[Len(held) + i] = sent[i]
  BY HeldThenSent
<1>2. /\ Append(held, a) \in Seq(Answered) /\ Len(Append(held, a)) = Len(held) + 1
      /\ \A i \in 1..Len(held) : Append(held, a)[i] = held[i]
      /\ Append(held, a)[Len(held) + 1] = a
  BY AppendProperties
<1>3. /\ Tail(sent) \in Seq(Writes) /\ Len(sent) >= 1 /\ Len(Tail(sent)) = Len(sent) - 1
      /\ Head(sent) = sent[1]
      /\ \A i \in 1..Len(Tail(sent)) : Tail(sent)[i] = sent[i + 1]
  BY TailTyped
<1>4. PICK h, t : h = Append(held, a) /\ t = Tail(sent)
  OBVIOUS
<1>5. /\ d \in Seq(Writes) /\ Len(d) = Len(h) + Len(t)
      /\ \A i \in 1..Len(h) : d[i] = h[i].write
      /\ \A i \in 1..Len(t) : d[Len(h) + i] = t[i]
  <2>1. h \in Seq(Answered) /\ t \in Seq(Writes) /\ d = Laid(h, t)
    BY <1>2, <1>3, <1>4
  <2>2. QED
    BY <2>1, HeldThenSent
<1>6. Len(d) = Len(c) /\ Len(c) \in Nat
  BY <1>1, <1>2, <1>3, <1>4, <1>5
<1>7. ASSUME NEW i \in 1..Len(d) PROVE d[i] = c[i]
  <2>1. CASE i \in 1..Len(held)
    <3>1. i \in 1..Len(h) /\ h[i] = held[i]
      BY <1>1, <1>2, <1>4, <2>1
    <3>2. QED
      BY <1>1, <1>5, <2>1, <3>1
  <2>2. CASE i = Len(held) + 1
    <3>1. i \in 1..Len(h) /\ h[i] = a
      BY <1>1, <1>2, <1>4, <2>2
    <3>2. d[i] = sent[1]
      BY <1>3, <1>5, <3>1
    <3>3. 1 \in 1..Len(sent)
      BY <1>1, <1>3
    <3>4. QED
      BY <1>1, <2>2, <3>2, <3>3
  <2>3. CASE i > Len(held) + 1
    <3>1. PICK j : j = i - (Len(held) + 1)
      OBVIOUS
    <3>2. /\ j \in 1..Len(t) /\ j + 1 \in 1..Len(sent)
          /\ i = Len(h) + j /\ i = Len(held) + (j + 1)
      BY <1>1, <1>2, <1>3, <1>4, <1>6, <2>3, <3>1
    <3>3. d[i] = t[j] /\ c[i] = sent[j + 1]
      BY <1>1, <1>5, <3>2
    <3>4. QED
      BY <1>3, <1>4, <3>2, <3>3
  <2>4. QED
    BY <1>1, <1>6, <2>1, <2>2, <2>3
<1>8. QED
  BY <1>1, <1>5, <1>6, <1>7, SeqEqual

----------------------------------------------------------------------------
(* Answers are held back only until the listen has been answered. *)

HeldWaits == \A p \in Phones : link[p] = "on" => putsToAck[p] = <<>>

LEMMA HeldWaitsInit == Init => HeldWaits
BY DEF Init, HeldWaits

LEMMA HeldWaitsNext == DeliveryInv /\ HeldWaits /\ [Next]_vars => HeldWaits'
<1> SUFFICES ASSUME DeliveryInv, HeldWaits, [Next]_vars, NEW q \in Phones, link'[q] = "on"
             PROVE  putsToAck'[q] = <<>>
  BY DEF HeldWaits
<1>1. /\ link \in [Phones -> {"off", "waiting", "on"}]
      /\ putsToAck \in [Phones -> Seq(Answered)]
      /\ link[q] = "on" => putsToAck[q] = <<>>
  BY DEF DeliveryInv, TypeOK, HeldWaits
<1>2. CASE \E p \in Phones : Quiet(p)
  <2>1. PICK p \in Phones : Quiet(p)
    BY <1>2
  <2>2. CASE (\E m \in Messages : LongPress(p, m)) \/ Delete(p) \/ ServerListen(p) \/ DataArrives(p)
    <3>1. link' = link /\ putsToAck' = putsToAck
      BY <2>2, Zenon DEF LongPress, Delete, ServerListen, DataArrives
    <3>2. QED
      BY <1>1, <3>1
  <2>3. CASE Connect(p)
    BY <1>1, <2>3 DEF Connect
  <2>4. CASE Lose(p)
    BY <1>1, <2>4 DEF Lose, Disconnected
  <2>5. CASE Kill(p)
    BY <1>1, <2>5 DEF Kill, Disconnected
  <2>6. QED
    BY <2>1, <2>2, <2>3, <2>4, <2>5 DEF Quiet
<1>3. ASSUME NEW p \in Phones, NEW m \in Messages, Send(p, m) PROVE putsToAck'[q] = <<>>
  BY <1>1, <1>3 DEF Send
<1>4. ASSUME NEW p \in Phones, NEW ok \in BOOLEAN, ServerWrite(p, ok)
      PROVE  putsToAck'[q] = <<>>
  <2>1. link' = link /\ putsToAck' = putsToAck
    BY <1>4 DEF ServerWrite
  <2>2. QED
    BY <1>1, <2>1
<1>5. ASSUME NEW p \in Phones, ListenAnswered(p) PROVE putsToAck'[q] = <<>>
  BY <1>1, <1>5 DEF ListenAnswered
<1>6. ASSUME NEW p \in Phones, WriteAnswered(p) PROVE putsToAck'[q] = <<>>
  <2>1. link' = link
    BY <1>6 DEF WriteAnswered, Answer
  <2>2. CASE link[p] = "on"
    BY <1>1, <1>6, <2>1, <2>2 DEF WriteAnswered
  <2>3. CASE link[p] # "on"
    BY <1>1, <1>6, <2>1, <2>3 DEF WriteAnswered
  <2>4. QED
    BY <2>2, <2>3
<1>7. CASE UNCHANGED vars
  BY <1>1, <1>7 DEF vars, phoneVars
<1>8. QED
  BY <1>2, <1>3, <1>4, <1>5, <1>6, <1>7 DEF Next, Quiet

LEMMA HeldWaitsAlways == Spec => []HeldWaits
BY HeldWaitsInit, HeldWaitsNext, Invariance, PTL DEF Spec

----------------------------------------------------------------------------
(* Every step of the phones is a step of the client, or none. *)

LEMMA ClientInit == Init => OwnClient!ClientInit
<1> SUFFICES ASSUME Init PROVE OwnClient!ClientInit
  OBVIOUS
<1>1. cache[Own] = {} /\ puts[Own] = <<>> /\ putsToAck[Own] = <<>>
  BY OwnAssumption DEF Init
<1>2. Pending(Own) = <<>>
  <2>1. PICK c, e : c = Pending(Own) /\ e = <<>>
    OBVIOUS
  <2>2. c = Laid(<<>>, e) /\ e \in Seq(Writes)
    BY <1>1, <2>1 DEF Pending, Laid
  <2>3. c = e
    BY <2>2, LaidNothing
  <2>4. QED
    BY <2>1, <2>3
<1>3. Unused = Messages
  BY DEF Init, Unused
<1>4. QED
  BY <1>1, <1>2, <1>3 DEF OwnClient!ClientInit

\* What the client sees of a step.
Seen(c, d) == c = Pending(Own) /\ d = Pending(Own)'

LEMMA SeenQueue ==
    ASSUME NEW c, NEW d, Seen(c, d)
    PROVE  c = Laid(putsToAck[Own], puts[Own]) /\ d = Laid(putsToAck'[Own], puts'[Own])
BY DEF Seen, Pending, Laid

\* A step that changes neither data, nor writes, nor identifiers.
LEMMA ClientStutters ==
    ASSUME cache'[Own] = cache[Own], putsToAck'[Own] = putsToAck[Own], puts'[Own] = puts[Own],
           author' = author
    PROVE  UNCHANGED OwnClient!clientVars
<1>1. Pending(Own)' = Pending(Own)
  BY DEF Pending
<1>2. Unused' = Unused
  BY DEF Unused
<1>3. QED
  BY <1>1, <1>2 DEF OwnClient!clientVars

LEMMA ClientWrites ==
    ASSUME TypeOK, TypeOK', NEW t \in Seq(Writes), cache'[Own] = cache[Own],
           putsToAck'[Own] = putsToAck[Own], puts'[Own] = puts[Own] \o t,
           Unused' \subseteq Unused,
           \A i \in 1..Len(t) : t[i].op = "put" => t[i].id \in Unused \ Unused'
    PROVE  OwnClient!ClientNext
<1>1. PICK c, d : Seen(c, d)
  BY DEF Seen
<1>2. PICK held, sent : held = putsToAck[Own] /\ sent = puts[Own]
  OBVIOUS
<1>3. held \in Seq(Answered) /\ sent \in Seq(Writes)
  BY <1>2, OwnAssumption, PhoneTypes
<1>4. c = Laid(held, sent) /\ d = Laid(held, sent \o t)
  BY <1>1, <1>2, SeenQueue
<1>5. Extends(d, c, t)
  BY <1>3, <1>4, LaidMore
<1>6. \E n \in 0..Len(d) : c = SubSeq(d, 1, n)
  <2>1. Len(c) \in 0..Len(d)
    BY <1>5 DEF Extends
  <2>2. QED
    BY <1>5, <2>1 DEF Extends
<1>7. \A i \in (Len(c) + 1)..Len(d) : d[i].op = "put" => d[i].id \in Unused \ Unused'
  BY <1>5 DEF Extends
<1>8. Pending(Own) = c /\ Pending(Own)' = d
  BY <1>1 DEF Seen
<1>9. OwnClient!WriteTogether
  BY <1>6, <1>7, <1>8 DEF OwnClient!WriteTogether
<1>10. QED
  BY <1>9 DEF OwnClient!ClientNext

LEMMA ClientAnswered ==
    ASSUME NEW c, NEW d, Seen(c, d), cache'[Own] = cache[Own], author' = author,
           NEW n \in 1..Len(c), d = SubSeq(c, n + 1, Len(c))
    PROVE  OwnClient!ClientNext
<1>1. Pending(Own) = c /\ Pending(Own)' = d /\ Unused' = Unused
  BY DEF Seen, Unused
<1>2. OwnClient!Answered(n)
  BY <1>1 DEF OwnClient!Answered
<1>3. QED
  BY <1>1, <1>2 DEF OwnClient!ClientNext

LEMMA ListenAnsweredSeen ==
    ASSUME TypeOK, NEW p \in Phones, ListenAnswered(p)
    PROVE  OwnClient!ClientNext \/ UNCHANGED OwnClient!clientVars
<1>1. /\ cache' = cache /\ author' = author /\ puts' = puts
      /\ putsToAck' = [putsToAck EXCEPT ![p] = <<>>]
      /\ putsToAck \in [Phones -> Seq(Answered)]
  BY DEF ListenAnswered, TypeOK
<1>2. CASE p # Own
  BY <1>1, <1>2, OwnAssumption, ClientStutters
<1>3. CASE p = Own
  <2>1. PICK c, d : Seen(c, d)
    BY DEF Seen
  <2>2. PICK held, sent, e : held = putsToAck[Own] /\ sent = puts[Own] /\ e = <<>>
    OBVIOUS
  <2>3. held \in Seq(Answered) /\ sent \in Seq(Writes)
    BY <2>2, OwnAssumption, PhoneTypes
  <2>4. c = Laid(held, sent) /\ d = Laid(<<>>, sent)
    BY <1>1, <1>3, <2>1, <2>2, OwnAssumption, SeenQueue
  <2>5. d = sent
    BY <2>3, <2>4, LaidNothing
  <2>6. /\ sent = SubSeq(c, Len(held) + 1, Len(c))
        /\ Len(held) \in 0..Len(c)
        /\ held = <<>> => c = sent
    BY <2>3, <2>4, LaidReleased
  <2>7. CASE held = <<>>
    <3>1. putsToAck'[Own] = putsToAck[Own]
      BY <1>1, <2>2, <2>7, OwnAssumption
    <3>2. QED
      BY <1>1, <3>1, ClientStutters
  <2>8. CASE held # <<>>
    <3>1. PICK n : n = Len(held)
      OBVIOUS
    <3>2. n \in 1..Len(c) /\ d = SubSeq(c, n + 1, Len(c))
      BY <2>3, <2>5, <2>6, <2>8, <3>1, EmptySeq
    <3>3. QED
      BY <1>1, <2>1, <3>2, ClientAnswered
  <2>9. QED
    BY <2>7, <2>8
<1>4. QED
  BY <1>2, <1>3

\* An answer takes the oldest write from the queue, or only holds it back.
LEMMA AnsweredQueue ==
    ASSUME Step, HeldWaits, NEW p \in Phones, WriteAnswered(p),
           NEW c, c = Pending(p), NEW d, d = Pending(p)'
    PROVE  /\ c \in Seq(Writes)
           /\ \/ /\ link[p] = "on" /\ 1 \in 1..Len(c)
                 /\ c[1] = puts[p][1] /\ d = SubSeq(c, 2, Len(c))
              \/ link[p] # "on" /\ d = c
<1>1. /\ puts' = [puts EXCEPT ![p] = Tail(@)]
      /\ TypeOK /\ puts \in [Phones -> Seq(Writes)] /\ putsToAck \in [Phones -> Seq(Answered)]
  BY PhoneFacts DEF WriteAnswered, Answer, TypeOK
<1>2. PICK held, sent : held = putsToAck[p] /\ sent = puts[p]
  OBVIOUS
<1>3. /\ held \in Seq(Answered) /\ sent \in Seq(Writes) /\ sent # <<>>
      /\ puts'[p] = Tail(sent)
  <2>1. applied[p] >= 1 /\ applied[p] <= Len(puts[p])
    BY <1>1, FirstAck, PhoneTypes
  <2>2. held \in Seq(Answered) /\ sent \in Seq(Writes)
    BY <1>1, <1>2
  <2>3. applied[p] \in Nat
    BY <1>1, PhoneTypes
  <2>4. sent # <<>>
    BY <1>2, <2>1, <2>3
  <2>5. QED
    BY <1>1, <1>2, <2>2, <2>4
<1>4. c = Laid(held, sent) /\ d = Laid(putsToAck'[p], Tail(sent))
  BY <1>2, <1>3 DEF Pending, Laid
<1>5. c \in Seq(Writes)
  BY <1>3, <1>4, HeldThenSent
<1>6. CASE link[p] = "on"
  <2>1. putsToAck'[p] = held /\ held = <<>>
    BY <1>2, <1>6 DEF WriteAnswered, HeldWaits
  <2>2. PICK t : t = Tail(sent)
    OBVIOUS
  <2>3. t \in Seq(Writes) /\ t = SubSeq(sent, 2, Len(sent)) /\ Len(sent) \in Nat /\ Len(sent) >= 1
    BY <1>3, <2>2, TailTyped, TailIsSubSeq
  <2>4. c = sent
    BY <1>3, <1>4, <2>1, LaidNothing
  <2>5. d = Laid(<<>>, t)
    BY <1>4, <2>1, <2>2
  <2>6. d = t
    BY <2>3, <2>5, LaidNothing
  <2>7. QED
    BY <1>2, <1>5, <1>6, <2>3, <2>4, <2>6
<1>7. CASE link[p] # "on"
  <2>1. PICK a : a = NextAnswered(p)
    OBVIOUS
  <2>2. a \in Answered /\ a.write = Head(sent)
    BY <1>1, <1>2, <2>1, FirstAck, TypeWriteAnswered DEF NextAnswered
  <2>3. d = Laid(Append(held, a), Tail(sent))
    BY <1>1, <1>2, <1>4, <1>7, <2>1 DEF WriteAnswered
  <2>4. d = c
    BY <1>3, <1>4, <2>2, <2>3, LaidMoved
  <2>5. QED
    BY <1>5, <1>7, <2>4
<1>8. QED
  BY <1>6, <1>7

LEMMA WriteAnsweredSeen ==
    ASSUME Step, HeldWaits, NEW p \in Phones, WriteAnswered(p)
    PROVE  OwnClient!ClientNext \/ UNCHANGED OwnClient!clientVars
<1>1. /\ cache' = cache /\ author' = author
      /\ puts' = [puts EXCEPT ![p] = Tail(@)]
      /\ TypeOK /\ puts \in [Phones -> Seq(Writes)] /\ putsToAck \in [Phones -> Seq(Answered)]
  BY PhoneFacts DEF WriteAnswered, Answer, TypeOK
<1>2. CASE p # Own
  <2>1. puts'[Own] = puts[Own]
    BY <1>1, <1>2, OwnAssumption
  <2>2. putsToAck'[Own] = putsToAck[Own]
    BY <1>1, <1>2, OwnAssumption DEF WriteAnswered
  <2>3. QED
    BY <1>1, <2>1, <2>2, ClientStutters
<1>3. CASE p = Own
  <2>1. PICK c, d : Seen(c, d)
    BY DEF Seen
  <2>2. c = Pending(p) /\ d = Pending(p)'
    BY <1>3, <2>1 DEF Seen
  <2>3. CASE link[p] = "on"
    <3>1. PICK n : n = 1
      OBVIOUS
    <3>2. n \in 1..Len(c) /\ d = SubSeq(c, n + 1, Len(c))
      BY <2>2, <2>3, <3>1, AnsweredQueue
    <3>3. QED
      BY <1>1, <2>1, <3>2, ClientAnswered
  <2>4. CASE link[p] # "on"
    <3>1. d = c
      BY <2>2, <2>4, AnsweredQueue
    <3>2. Pending(Own)' = Pending(Own) /\ Unused' = Unused /\ cache'[Own] = cache[Own]
      BY <1>1, <2>1, <3>1 DEF Seen, Unused
    <3>3. QED
      BY <3>2 DEF OwnClient!clientVars
  <2>5. QED
    BY <2>3, <2>4
<1>4. QED
  BY <1>2, <1>3

LEMMA SendSeen ==
    ASSUME TypeOK, TypeOK', NEW p \in Phones, NEW m \in Messages, Send(p, m)
    PROVE  OwnClient!ClientNext
<1>1. /\ author' = [author EXCEPT ![m] = p] /\ author[m] = Nobody
      /\ puts' = [puts EXCEPT ![p] = Append(@, [op |-> "put", id |-> m])]
      /\ putsToAck' = putsToAck /\ cache' = cache
      /\ author \in [Messages -> Phones \cup {Nobody}] /\ puts \in [Phones -> Seq(Writes)]
  BY DEF Send, TypeOK
<1>2. Unused' \subseteq Unused /\ m \in Unused \ Unused'
  BY <1>1, NobodyAssumption DEF Unused
<1>3. CASE p # Own
  <2>1. Pending(Own)' = Pending(Own)
    <3>1. puts'[Own] = puts[Own]
      BY <1>1, <1>3, OwnAssumption
    <3>2. QED
      BY <1>1, <3>1 DEF Pending
  <2>2. cache'[Own] = cache[Own]
    BY <1>1
  <2>3. OwnClient!TakenElsewhere
    BY <1>2, <2>1, <2>2 DEF OwnClient!TakenElsewhere
  <2>4. QED
    BY <2>3 DEF OwnClient!ClientNext
<1>4. CASE p = Own
  <2>1. PICK w : w = [op |-> "put", id |-> m]
    OBVIOUS
  <2>2. PICK t : t = <<w>>
    OBVIOUS
  <2>3. w \in Writes /\ t \in Seq(Writes) /\ Len(t) = 1 /\ t[1] = w
    BY <2>1, <2>2 DEF Writes
  <2>4. puts'[Own] = puts[Own] \o t
    <3>1. puts'[Own] = Append(puts[Own], w)
      BY <1>1, <1>4, <2>1, OwnAssumption
    <3>2. puts[Own] \in Seq(Writes)
      BY <1>1, OwnAssumption
    <3>3. QED
      BY <2>2, <2>3, <3>1, <3>2, AppendIsConcat
  <2>5. \A i \in 1..Len(t) : t[i].op = "put" => t[i].id \in Unused \ Unused'
    <3>1. w.id = m
      BY <2>1
    <3>2. \A i \in 1..1 : i = 1
      OBVIOUS
    <3>3. QED
      BY <1>2, <2>3, <3>1, <3>2
  <2>6. cache'[Own] = cache[Own] /\ putsToAck'[Own] = putsToAck[Own]
    BY <1>1
  <2>7. QED
    BY <1>2, <2>3, <2>4, <2>5, <2>6, ClientWrites
<1>5. QED
  BY <1>3, <1>4

LEMMA DeleteSeen ==
    ASSUME TypeOK, TypeOK', NEW p \in Phones, Delete(p)
    PROVE  OwnClient!ClientNext \/ UNCHANGED OwnClient!clientVars
<1>1. /\ puts' = [puts EXCEPT ![p] = @ \o Removals(p)] /\ puts \in [Phones -> Seq(Writes)]
      /\ putsToAck' = putsToAck /\ cache' = cache /\ author' = author
  BY DEF Delete, Removals, TypeOK
<1>2. CASE p # Own
  <2>1. puts'[Own] = puts[Own]
    BY <1>1, <1>2, OwnAssumption
  <2>2. QED
    BY <1>1, <2>1, ClientStutters
<1>3. CASE p = Own
  <2>1. PICK t : t = Removals(Own)
    OBVIOUS
  <2>2. /\ t \in Seq(Writes)
        /\ \A i \in 1..Len(t) : t[i] = [op |-> "remove", id |-> deletedMessageIds[Own][i]]
    BY <2>1, OwnAssumption, RemovalsTyped
  <2>3. puts'[Own] = puts[Own] \o t
    BY <1>1, <1>3, <2>1, OwnAssumption
  <2>4. ASSUME NEW i \in 1..Len(t)
        PROVE  t[i].op # "put"
    <3>1. t[i] = [op |-> "remove", id |-> deletedMessageIds[Own][i]]
      BY <2>2
    <3>2. t[i].op = "remove"
      BY <3>1
    <3>3. QED
      BY <3>2
  <2>5. Unused' = Unused
    BY <1>1 DEF Unused
  <2>6. cache'[Own] = cache[Own] /\ putsToAck'[Own] = putsToAck[Own]
    BY <1>1
  <2>7. QED
    BY <2>2, <2>3, <2>4, <2>5, <2>6, ClientWrites
<1>4. QED
  BY <1>2, <1>3

LEMMA DataArrivesSeen ==
    ASSUME Step, NEW p \in Phones, DataArrives(p)
    PROVE  OwnClient!ClientNext \/ UNCHANGED OwnClient!clientVars
<1>1. /\ TypeOK /\ ServerInv /\ KnownIds(p)
      /\ puts' = puts /\ putsToAck' = putsToAck /\ author' = author
      /\ cache' = [cache EXCEPT ![p] = Head(answers[p]).snap]
      /\ answers[p] # <<>> /\ cache \in [Phones -> SUBSET Messages]
  BY PhoneFacts DEF DataArrives, FirstAnswer, TypeOK
<1>2. CASE p # Own
  BY <1>1, <1>2, OwnAssumption, ClientStutters
<1>3. CASE p = Own
  <2>1. PICK S : S = Head(answers[p]).snap
    OBVIOUS
  <2>2. Head(answers[p]) \in Answers /\ Head(answers[p]) = answers[p][1] /\ 1 \in 1..Len(answers[p])
    BY <1>1, PhoneTypes, TailTyped
  <2>3. S \in SUBSET Messages /\ \A m \in S : arrivals[m] >= 1
    BY <1>1, <2>1, <2>2 DEF Answers, KnownIds
  <2>4. Unused' = Unused \ S
    BY <1>1, <2>3 DEF Unused, ServerInv
  <2>5. Pending(Own)' = Pending(Own)
    BY <1>1 DEF Pending
  <2>6. cache'[Own] = S
    BY <1>1, <1>3, <2>1
  <2>7. OwnClient!Update(S)
    BY <2>4, <2>5, <2>6 DEF OwnClient!Update
  <2>8. QED
    BY <2>3, <2>7 DEF OwnClient!ClientNext
<1>4. QED
  BY <1>2, <1>3

LEMMA KillSeen ==
    ASSUME TypeOK, NEW p \in Phones, Kill(p)
    PROVE  OwnClient!ClientNext \/ UNCHANGED OwnClient!clientVars
<1>1. /\ author' = author
      /\ cache' = [cache EXCEPT ![p] = {}] /\ puts' = [puts EXCEPT ![p] = <<>>]
      /\ putsToAck' = [putsToAck EXCEPT ![p] = <<>>]
      /\ cache \in [Phones -> SUBSET Messages] /\ puts \in [Phones -> Seq(Writes)]
      /\ putsToAck \in [Phones -> Seq(Answered)]
  BY DEF Kill, TypeOK
<1>2. CASE p # Own
  <2>1. cache'[Own] = cache[Own] /\ puts'[Own] = puts[Own] /\ putsToAck'[Own] = putsToAck[Own]
    BY <1>1, <1>2, OwnAssumption
  <2>2. QED
    BY <1>1, <2>1, ClientStutters
<1>3. CASE p = Own
  <2>1. cache'[Own] = {} /\ puts'[Own] = <<>> /\ putsToAck'[Own] = <<>>
    BY <1>1, <1>3, OwnAssumption
  <2>2. Pending(Own)' = <<>>
    <3>1. PICK c, d : Seen(c, d)
      BY DEF Seen
    <3>2. PICK e : e = <<>>
      OBVIOUS
    <3>3. d = Laid(<<>>, e) /\ e \in Seq(Writes)
      BY <2>1, <3>1, <3>2, SeenQueue
    <3>4. d = e
      BY <3>3, LaidNothing
    <3>5. QED
      BY <3>1, <3>2, <3>4 DEF Seen
  <2>3. Unused' = Unused
    BY <1>1 DEF Unused
  <2>4. OwnClient!Restart
    BY <2>1, <2>2, <2>3 DEF OwnClient!Restart
  <2>5. QED
    BY <2>4 DEF OwnClient!ClientNext
<1>4. QED
  BY <1>2, <1>3

LEMMA UnseenSteps ==
    ASSUME NEW p \in Phones,
           \/ \E m \in Messages : LongPress(p, m)
           \/ Connect(p) \/ Lose(p) \/ ServerListen(p)
           \/ \E ok \in BOOLEAN : ServerWrite(p, ok)
    PROVE  UNCHANGED OwnClient!clientVars
<1>1. cache' = cache /\ puts' = puts /\ putsToAck' = putsToAck /\ author' = author
  <2>1. CASE \E m \in Messages : LongPress(p, m)
    BY <2>1 DEF LongPress
  <2>2. CASE Connect(p) \/ Lose(p) \/ ServerListen(p)
    BY <2>2, Zenon DEF Connect, Lose, ServerListen
  <2>3. CASE \E ok \in BOOLEAN : ServerWrite(p, ok)
    BY <2>3 DEF ServerWrite
  <2>4. QED
    BY <2>1, <2>2, <2>3
<1>2. QED
  BY <1>1, ClientStutters

LEMMA ClientStep ==
    DeliveryInv /\ HeldWaits /\ [Next]_vars => [OwnClient!ClientNext]_(OwnClient!clientVars)
<1> SUFFICES ASSUME DeliveryInv, HeldWaits, [Next]_vars
             PROVE  OwnClient!ClientNext \/ UNCHANGED OwnClient!clientVars
  OBVIOUS
<1>1. CASE UNCHANGED vars
  BY <1>1, ClientStutters DEF vars, phoneVars
<1>2. CASE Next
  <2>1. Step /\ TypeOK /\ TypeOK'
    BY <1>2, TypeStep DEF Step, DeliveryInv
  <2>2. QED
    BY <1>2, <2>1, SendSeen, DeleteSeen, DataArrivesSeen, KillSeen, ListenAnsweredSeen,
       WriteAnsweredSeen, UnseenSteps DEF Next
<1>3. QED
  BY <1>1, <1>2

\* What a phone's screen sees of the whole machinery, with any number of phones,
\* messages, lost connections and restarts, is the client of RealtimeClient.
THEOREM DeliveryIsClient == Spec => PhoneIsClient
<1>1. Spec => OwnClient!ClientInit
  BY ClientInit DEF Spec
<1>2. Spec => [][OwnClient!ClientNext]_(OwnClient!clientVars)
  BY ClientStep, Invariance, HeldWaitsAlways, PTL DEF Spec
<1>3. QED
  BY <1>1, <1>2, PTL DEF PhoneIsClient, OwnClient!ClientSpec

----------------------------------------------------------------------------
(* What a phone has been told.  A message that is shown from the phone's   *)
(* own writes must be in its data when the completion of its write runs;   *)
(* data on their way are placed before the answers they precede.           *)

DataAt(p, i) == answers[p][i].kind = "data"
ListenAt(p, i) == answers[p][i].kind = "listening"

\* The last data sent to a phone that listens are what the database has.
Told(p) ==
    listened[p] =>
        \/ \E i \in 1..Len(answers[p]) :
              /\ DataAt(p, i) /\ answers[p][i].snap = stored
              /\ \A j \in (i + 1)..Len(answers[p]) : ~DataAt(p, j)
        \/ /\ loaded[p] /\ cache[p] = stored
           /\ \A i \in 1..Len(answers[p]) : ~DataAt(p, i)

\* From one data to the next only removed messages are missing.
Growing(p) ==
    /\ cache[p] \subseteq stored \cup removed
    /\ \A i \in 1..Len(answers[p]) : DataAt(p, i) =>
          /\ answers[p][i].snap \subseteq stored \cup removed
          /\ cache[p] \subseteq answers[p][i].snap \cup removed
          /\ \A j \in 1..(i - 1) :
                DataAt(p, j) => answers[p][j].snap \subseteq answers[p][i].snap \cup removed

\* One answer to the listen is on its way, and only while the phone waits for it.
ListensOnce(p) ==
    /\ link[p] = "on" => listened[p]
    /\ \A i \in 1..Len(answers[p]) : ListenAt(p, i) =>
          /\ listened[p] /\ link[p] = "waiting"
          /\ \A j \in 1..Len(answers[p]) : ListenAt(p, j) => j = i

\* m is in p's data before p receives its i-th answer.
InSight(p, i, m) ==
    \/ m \in removed \cup cache[p]
    \/ \E j \in 1..(i - 1) : DataAt(p, j) /\ m \in answers[p][j].snap

\* m, whose write is answered at i, is in p's data when the completion runs:
\* with the answer to the listen if that comes later, else with the answer.
Covered(p, i, m) ==
    /\ m \in stored \cup removed
    /\ \A l \in (i + 1)..Len(answers[p]) : ListenAt(p, l) => InSight(p, l, m)
    /\ (listened[p] /\ \A l \in (i + 1)..Len(answers[p]) : ~ListenAt(p, l)) => InSight(p, i, m)

HeldCovered(p) ==
    \A i \in 1..Len(putsToAck[p]) :
        (putsToAck[p][i].ok /\ putsToAck[p][i].write.op = "put")
            => Covered(p, 0, putsToAck[p][i].write.id)

AcksCovered(p) ==
    \E f : /\ AckIndex(answers[p], applied[p], f)
           /\ \A k \in 1..applied[p] :
                 (answers[p][f[k]].ok /\ puts[p][k].op = "put")
                     => Covered(p, f[k], puts[p][k].id)

SightInv(p) == Told(p) /\ Growing(p) /\ ListensOnce(p) /\ HeldCovered(p) /\ AcksCovered(p)

\* The server forgets no removal.
LEMMA RemovedStays ==
    ASSUME TypeOK, Next
    PROVE  removed \subseteq removed' /\ stored \cup removed \subseteq stored' \cup removed'
<1>1. ASSUME NEW p \in Phones, NEW m \in Messages, Send(p, m) PROVE removed' = removed
  BY <1>1 DEF Send, historyVars
<1>2. ASSUME NEW p \in Phones, Quiet(p) PROVE removed' = removed
  BY <1>2, QuietSteps
<1>3. ASSUME NEW p \in Phones, ListenAnswered(p) \/ WriteAnswered(p) PROVE removed' = removed
  BY <1>3, CompleteHistory DEF ListenAnswered, WriteAnswered, historyVars
<1>4. ASSUME NEW p \in Phones, NEW ok \in BOOLEAN, ServerWrite(p, ok)
      PROVE  removed \subseteq removed'
  BY <1>4, ServerWriteEffect
<1>5. removed \subseteq removed'
  BY <1>1, <1>2, <1>3, <1>4 DEF Next, Quiet
<1>6. QED
  BY <1>5, WorldMoves

\* At the start nothing has been sent.
LEMMA SightInit == ASSUME Init, NEW p \in Phones PROVE SightInv(p)
<1>1. /\ listened[p] = FALSE /\ link[p] = "off" /\ cache[p] = {} /\ applied[p] = 0
      /\ Len(answers[p]) = 0 /\ Len(putsToAck[p]) = 0
  BY DEF Init
<1>2. AcksCovered(p)
  <2>1. AckIndex(answers[p], applied[p], [k \in 1..0 |-> 1])
    BY <1>1 DEF AckIndex
  <2>2. QED
    BY <1>1, <2>1 DEF AcksCovered
<1>3. QED
  BY <1>1, <1>2 DEF SightInv, Told, Growing, ListensOnce, HeldCovered

\* A phone that is not touched, or only adds writes or connects.
LEMMA SightUntouched ==
    ASSUME NEW p \in Phones, SightInv(p), stored' = stored, removed' = removed,
           listened'[p] = listened[p], loaded'[p] = loaded[p], cache'[p] = cache[p],
           answers'[p] = answers[p], applied'[p] = applied[p], putsToAck'[p] = putsToAck[p],
           \A k \in 1..applied[p] : puts'[p][k] = puts[p][k],
           link'[p] = link[p] \/ (link[p] = "off" /\ link'[p] = "waiting")
    PROVE  SightInv(p)'
<1>1. Told(p)' /\ Growing(p)'
  BY DEF SightInv, Told, Growing, DataAt
<1>2. ListensOnce(p)'
  BY DEF SightInv, ListensOnce, ListenAt
<1>3. ASSUME NEW i, NEW m, Covered(p, i, m) PROVE Covered(p, i, m)'
  BY <1>3 DEF Covered, InSight, ListenAt, DataAt
<1>4. HeldCovered(p)'
  <2>1. SUFFICES ASSUME NEW i \in 1..Len(putsToAck[p]), putsToAck[p][i].ok,
                        putsToAck[p][i].write.op = "put"
                 PROVE  Covered(p, 0, putsToAck[p][i].write.id)'
    BY DEF HeldCovered
  <2>2. PICK m : m = putsToAck[p][i].write.id
    OBVIOUS
  <2>3. Covered(p, 0, m)
    BY <2>1, <2>2 DEF SightInv, HeldCovered
  <2>4. Covered(p, 0, m)'
    BY <1>3, <2>3
  <2>5. QED
    BY <2>2, <2>4 DEF Covered, InSight, ListenAt, DataAt
<1>5. AcksCovered(p)'
  <2>1. PICK f : /\ AckIndex(answers[p], applied[p], f)
                 /\ \A k \in 1..applied[p] :
                       (answers[p][f[k]].ok /\ puts[p][k].op = "put")
                           => Covered(p, f[k], puts[p][k].id)
    BY DEF SightInv, AcksCovered
  <2>2. ASSUME NEW k \in 1..applied[p], answers[p][f[k]].ok, puts[p][k].op = "put"
        PROVE  Covered(p, f[k], puts[p][k].id)'
    <3>1. PICK i, m : i = f[k] /\ m = puts[p][k].id
      OBVIOUS
    <3>2. Covered(p, i, m)'
      BY <1>3, <2>1, <2>2, <3>1
    <3>3. QED
      BY <3>1, <3>2 DEF Covered, InSight, ListenAt, DataAt
  <2>3. AckIndex(answers[p], applied[p], f)'
    BY <2>1 DEF AckIndex
  <2>4. QED
    BY <2>2, <2>3 DEF AcksCovered
<1>6. QED
  BY <1>1, <1>2, <1>4, <1>5 DEF SightInv

\* A phone whose connection is lost or whose process ends.
LEMMA SightLost ==
    ASSUME TypeOK, NEW p \in Phones, SightInv(p), Lose(p) \/ Kill(p)
    PROVE  SightInv(p)'
<1>1. /\ link'[p] = "off" /\ listened'[p] = FALSE /\ applied'[p] = 0 /\ answers'[p] = <<>>
      /\ stored' = stored /\ removed' = removed
  BY DEF TypeOK, Lose, Kill, Disconnected, historyVars
<1>2. \/ cache'[p] = cache[p] /\ putsToAck'[p] = putsToAck[p]
      \/ cache'[p] = {} /\ putsToAck'[p] = <<>>
  BY DEF TypeOK, Lose, Kill
<1>3. Len(answers'[p]) = 0
  BY <1>1
<1>4. Told(p)' /\ Growing(p)' /\ ListensOnce(p)'
  BY <1>1, <1>2, <1>3 DEF SightInv, Told, Growing, ListensOnce
<1>5. HeldCovered(p)'
  <2>1. \A m : m \in stored \cup removed => Covered(p, 0, m)'
    BY <1>1, <1>3 DEF Covered
  <2>2. CASE putsToAck'[p] = putsToAck[p]
    <3>1. SUFFICES ASSUME NEW i \in 1..Len(putsToAck[p]), putsToAck[p][i].ok,
                          putsToAck[p][i].write.op = "put"
                   PROVE  Covered(p, 0, putsToAck[p][i].write.id)'
      BY <2>2 DEF HeldCovered
    <3>2. putsToAck[p][i].write.id \in stored \cup removed
      BY <3>1 DEF SightInv, HeldCovered, Covered
    <3>3. QED
      BY <1>1, <1>3, <2>2, <3>2 DEF Covered
  <2>3. CASE putsToAck'[p] = <<>>
    BY <2>3 DEF HeldCovered
  <2>4. QED
    BY <1>2, <2>2, <2>3
<1>6. AcksCovered(p)'
  <2>1. AckIndex(answers[p], applied[p], [k \in 1..0 |-> 1])'
    BY <1>1, <1>3 DEF AckIndex
  <2>2. QED
    BY <1>1, <2>1 DEF AcksCovered
<1>7. QED
  BY <1>4, <1>5, <1>6 DEF SightInv

----------------------------------------------------------------------------
(* The server sends p the answers t. *)

\* p gets the answers t on top of those under way, and nothing else changes for it.
Sends(p, t) ==
    /\ answers'[p] = answers[p] \o t
    /\ loaded'[p] = loaded[p] /\ cache'[p] = cache[p] /\ link'[p] = link[p]
    /\ puts'[p] = puts[p] /\ putsToAck'[p] = putsToAck[p]
    /\ removed \subseteq removed' /\ stored \cup removed \subseteq stored' \cup removed'

LEMMA SentPlaces ==
    ASSUME TypeOK, NEW p \in Phones, NEW t \in Seq(Answers), Sends(p, t)
    PROVE  /\ Len(answers[p]) \in Nat /\ Len(t) \in Nat
           /\ Len(answers'[p]) = Len(answers[p]) + Len(t)
           /\ \A i \in 1..Len(answers[p]) : answers'[p][i] = answers[p][i]
           /\ \A i \in (Len(answers[p]) + 1)..Len(answers'[p]) :
                 i - Len(answers[p]) \in 1..Len(t) /\ answers'[p][i] = t[i - Len(answers[p])]
           /\ \A i \in 1..Len(t) : answers'[p][Len(answers[p]) + i] = t[i]
<1>1. PICK s : s = answers[p]
  OBVIOUS
<1>2. s \in Seq(Answers) /\ answers'[p] = s \o t
  BY <1>1, PhoneTypes DEF Sends
<1>3. /\ Len(s \o t) = Len(s) + Len(t) /\ Len(s) \in Nat /\ Len(t) \in Nat
      /\ \A i \in 1..(Len(s) + Len(t)) : (s \o t)[i] = IF i <= Len(s) THEN s[i] ELSE t[i - Len(s)]
  BY <1>2, ConcatProperties
<1>4. QED
  BY <1>1, <1>2, <1>3

\* Data that are the database as it is now: ...
LEMMA GrowingSent ==
    ASSUME TypeOK, NEW p \in Phones, Growing(p), NEW t \in Seq(Answers), Sends(p, t),
           \A i \in 1..Len(t) : t[i].kind = "data" => t[i].snap = stored'
    PROVE  Growing(p)'
<1> DEFINE n == Len(answers[p])
<1>1. /\ n \in Nat /\ Len(t) \in Nat /\ Len(answers'[p]) = n + Len(t)
      /\ \A i \in 1..n : answers'[p][i] = answers[p][i]
      /\ \A i \in (n + 1)..Len(answers'[p]) : i - n \in 1..Len(t) /\ answers'[p][i] = t[i - n]
  BY SentPlaces
<1>2. /\ cache'[p] = cache[p] /\ removed \subseteq removed'
      /\ stored \cup removed \subseteq stored' \cup removed'
  BY DEF Sends
<1> HIDE DEF n
<1>3. ASSUME NEW i \in 1..Len(answers'[p]), answers'[p][i].kind = "data"
      PROVE  /\ answers'[p][i].snap \subseteq stored' \cup removed'
             /\ i \in 1..n \/ answers'[p][i].snap = stored'
             /\ i \in 1..n => answers'[p][i] = answers[p][i]
  <2>1. CASE i \in 1..n
    BY <1>1, <1>2, <1>3, <2>1 DEF Growing, DataAt, n
  <2>2. CASE i \in (n + 1)..Len(answers'[p])
    BY <1>1, <1>3, <2>2
  <2>3. QED
    BY <1>1, <2>1, <2>2
<1>4. ASSUME NEW i \in 1..Len(answers'[p]), answers'[p][i].kind = "data"
      PROVE  /\ cache[p] \subseteq answers'[p][i].snap \cup removed'
             /\ \A j \in 1..(i - 1) : answers'[p][j].kind = "data" =>
                   answers'[p][j].snap \subseteq answers'[p][i].snap \cup removed'
  <2>1. CASE i \in 1..n
    <3>1. \A j \in 1..(i - 1) : j \in 1..n
      BY <1>1, <2>1
    <3>2. /\ cache[p] \subseteq answers[p][i].snap \cup removed
          /\ \A j \in 1..(i - 1) : answers[p][j].kind = "data" =>
                answers[p][j].snap \subseteq answers[p][i].snap \cup removed
      BY <1>1, <1>4, <2>1 DEF Growing, DataAt, n
    <3>3. QED
      BY <1>1, <1>2, <2>1, <3>1, <3>2
  <2>2. CASE answers'[p][i].snap = stored'
    <3>1. cache[p] \subseteq stored' \cup removed'
      BY <1>2 DEF Growing
    <3>2. \A j \in 1..(i - 1) : j \in 1..Len(answers'[p])
      BY <1>1
    <3>3. QED
      BY <1>3, <2>2, <3>1, <3>2
  <2>3. QED
    BY <1>3, <1>4, <2>1, <2>2
<1>5. QED
  BY <1>2, <1>3, <1>4 DEF Growing, DataAt

\* ... what was in sight stays in sight: ...
LEMMA InSightSent ==
    ASSUME TypeOK, NEW p \in Phones, NEW t \in Seq(Answers), Sends(p, t),
           NEW i \in 0..(Len(answers[p]) + 1), NEW m, InSight(p, i, m)
    PROVE  InSight(p, i, m)'
<1>1. /\ Len(answers[p]) \in Nat
      /\ \A j \in 1..Len(answers[p]) : answers'[p][j] = answers[p][j]
  BY SentPlaces
<1>2. cache'[p] = cache[p] /\ removed \subseteq removed'
  BY DEF Sends
<1>3. CASE \E j \in 1..(i - 1) : DataAt(p, j) /\ m \in answers[p][j].snap
  <2>1. PICK j \in 1..(i - 1) : DataAt(p, j) /\ m \in answers[p][j].snap
    BY <1>3
  <2>2. j \in 1..Len(answers[p]) /\ answers'[p][j] = answers[p][j]
    BY <1>1
  <2>3. QED
    BY <2>1, <2>2 DEF InSight, DataAt
<1>4. QED
  BY <1>2, <1>3 DEF InSight

\* ... and what is covered stays covered, for a phone that listened before ...
LEMMA CoveredSent ==
    ASSUME TypeOK, NEW p \in Phones, NEW t \in Seq(Answers), Sends(p, t),
           \A i \in 1..Len(t) : t[i].kind # "listening", listened'[p] = listened[p],
           NEW i \in 0..Len(answers[p]), NEW m, Covered(p, i, m)
    PROVE  Covered(p, i, m)'
<1>1. /\ Len(answers[p]) \in Nat /\ Len(t) \in Nat
      /\ Len(answers'[p]) = Len(answers[p]) + Len(t)
      /\ \A j \in 1..Len(answers[p]) : answers'[p][j] = answers[p][j]
      /\ \A j \in (Len(answers[p]) + 1)..Len(answers'[p]) :
            j - Len(answers[p]) \in 1..Len(t) /\ answers'[p][j] = t[j - Len(answers[p])]
  BY SentPlaces
<1>2. m \in stored' \cup removed'
  BY DEF Covered, Sends
<1>3. ASSUME NEW l \in (i + 1)..Len(answers'[p]), answers'[p][l].kind = "listening"
      PROVE  InSight(p, l, m)'
  <2>1. l \in 1..Len(answers[p])
    <3>1. CASE l <= Len(answers[p])
      BY <1>1, <3>1
    <3>2. CASE ~(l <= Len(answers[p]))
      <4>1. l \in (Len(answers[p]) + 1)..Len(answers'[p])
        BY <1>1, <3>2
      <4>2. l - Len(answers[p]) \in 1..Len(t) /\ answers'[p][l] = t[l - Len(answers[p])]
        BY <1>1, <4>1
      <4>3. t[l - Len(answers[p])].kind # "listening"
        BY <4>2
      <4>4. QED
        BY <1>3, <4>2, <4>3
    <3>3. QED
      BY <3>1, <3>2
  <2>2. InSight(p, l, m)
    BY <1>1, <1>3, <2>1 DEF Covered, ListenAt
  <2>3. l \in 0..(Len(answers[p]) + 1)
    BY <1>1, <2>1
  <2>4. QED
    BY <2>2, <2>3, InSightSent
<1>4. ASSUME listened'[p], \A l \in (i + 1)..Len(answers'[p]) : answers'[p][l].kind # "listening"
      PROVE  InSight(p, i, m)'
  <2>1. \A l \in (i + 1)..Len(answers[p]) : answers[p][l].kind # "listening"
    BY <1>1, <1>4
  <2>2. InSight(p, i, m)
    BY <1>4, <2>1 DEF Covered, ListenAt
  <2>3. i \in 0..(Len(answers[p]) + 1)
    BY <1>1
  <2>4. QED
    BY <2>2, <2>3, InSightSent
<1>5. QED
  BY <1>2, <1>3, <1>4 DEF Covered, ListenAt

\* ... as for one that the server begins to tell of changes.
LEMMA CoveredListen ==
    ASSUME TypeOK, NEW p \in Phones, NEW t, t = <<Data(stored), Listening>>, Sends(p, t),
           stored' = stored, removed' = removed,
           NEW i \in 0..Len(answers[p]), NEW m, Covered(p, i, m)
    PROVE  Covered(p, i, m)'
<1> PICK n : n = Len(answers[p])
  OBVIOUS
<1>1. /\ t \in Seq(Answers) /\ Len(t) = 2
      /\ t[1].kind = "data" /\ t[1].snap = stored /\ t[2].kind = "listening"
  <2>1. Data(stored) \in Answers /\ Listening \in Answers
    BY AnswersTyped DEF TypeOK
  <2>2. QED
    BY <2>1 DEF Data, Listening
<1>2. /\ n \in Nat /\ Len(answers'[p]) = n + 2
      /\ \A j \in 1..n : answers'[p][j] = answers[p][j]
      /\ answers'[p][n + 1] = t[1] /\ answers'[p][n + 2] = t[2]
  <2>1. t \in Seq(Answers)
    BY <1>1
  <2>2. /\ n \in Nat /\ Len(answers'[p]) = n + Len(t)
        /\ \A j \in 1..n : answers'[p][j] = answers[p][j]
        /\ \A j \in 1..Len(t) : answers'[p][n + j] = t[j]
    BY <2>1, SentPlaces
  <2>3. 1 \in 1..Len(t) /\ 2 \in 1..Len(t)
    BY <1>1
  <2>4. QED
    BY <1>1, <2>2, <2>3
<1>3. m \in stored \cup removed
  BY DEF Covered
<1>4. ASSUME NEW l \in (i + 1)..Len(answers'[p]), answers'[p][l].kind = "listening"
      PROVE  InSight(p, l, m)'
  <2>1. CASE l \in 1..n
    <3>1. InSight(p, l, m)
      BY <1>2, <1>4, <2>1 DEF Covered, ListenAt
    <3>2. l \in 0..(Len(answers[p]) + 1)
      BY <1>2, <2>1
    <3>3. QED
      BY <1>1, <3>1, <3>2, InSightSent
  <2>2. CASE l = n + 1
    BY <1>1, <1>2, <1>4, <2>2
  <2>3. CASE l = n + 2
    <3>1. n + 1 \in 1..(l - 1)
      BY <1>2, <2>3
    <3>2. answers'[p][n + 1].kind = "data" /\ answers'[p][n + 1].snap = stored
      BY <1>1, <1>2
    <3>3. QED
      BY <1>3, <3>1, <3>2 DEF InSight, DataAt
  <2>4. QED
    BY <1>2, <2>1, <2>2, <2>3
<1>5. n + 2 \in (i + 1)..Len(answers'[p]) /\ answers'[p][n + 2].kind = "listening"
  BY <1>1, <1>2
<1>6. QED
  BY <1>3, <1>4, <1>5 DEF Covered, ListenAt

\* The answers of t that are not acknowledgements leave the order of the others alone.
LEMMA SightAppended ==
    ASSUME TypeOK, NEW p \in Phones, NEW t \in Seq(Answers), Sends(p, t),
           \A i \in 1..Len(t) : t[i].kind # "ack", applied'[p] = applied[p],
           HeldCovered(p), AcksCovered(p),
           \A i \in 0..Len(answers[p]) : \A m : Covered(p, i, m) => Covered(p, i, m)'
    PROVE  HeldCovered(p)' /\ AcksCovered(p)'
<1>1. /\ puts'[p] = puts[p] /\ putsToAck'[p] = putsToAck[p] /\ answers'[p] = answers[p] \o t
      /\ answers[p] \in Seq(Answers) /\ applied[p] \in Nat /\ Len(answers[p]) \in Nat
  BY PhoneTypes, LenProperties DEF Sends
<1>2. HeldCovered(p)'
  <2>1. SUFFICES ASSUME NEW i \in 1..Len(putsToAck[p]), putsToAck[p][i].ok,
                        putsToAck[p][i].write.op = "put"
                 PROVE  Covered(p, 0, putsToAck[p][i].write.id)'
    BY <1>1 DEF HeldCovered
  <2>2. PICK m, z : m = putsToAck[p][i].write.id /\ z = 0
    OBVIOUS
  <2>3. Covered(p, z, m) /\ z \in 0..Len(answers[p])
    BY <1>1, <2>1, <2>2 DEF HeldCovered
  <2>4. Covered(p, z, m)'
    BY <2>3
  <2>5. QED
    BY <1>1, <2>2, <2>4 DEF Covered, InSight, ListenAt, DataAt
<1>3. PICK f : /\ AckIndex(answers[p], applied[p], f)
               /\ \A k \in 1..applied[p] :
                     (answers[p][f[k]].ok /\ puts[p][k].op = "put")
                         => Covered(p, f[k], puts[p][k].id)
  BY DEF AcksCovered
<1>4. /\ AckIndex(answers[p] \o t, applied[p], f)
      /\ \A k \in 1..applied[p] :
            f[k] \in 1..Len(answers[p]) /\ (answers[p] \o t)[f[k]] = answers[p][f[k]]
  BY <1>1, <1>3, AckIndexAppend
<1>5. ASSUME NEW k \in 1..applied[p], answers'[p][f[k]].ok, puts[p][k].op = "put"
      PROVE  Covered(p, f[k], puts[p][k].id)'
  <2>1. PICK i, m : i = f[k] /\ m = puts[p][k].id
    OBVIOUS
  <2>2. Covered(p, i, m) /\ i \in 0..Len(answers[p])
    BY <1>1, <1>3, <1>4, <1>5, <2>1
  <2>3. Covered(p, i, m)'
    BY <2>2
  <2>4. QED
    BY <1>1, <2>1, <2>3 DEF Covered, InSight, ListenAt, DataAt
<1>6. AckIndex(answers[p], applied[p], f)'
  BY <1>1, <1>4 DEF AckIndex
<1>7. AcksCovered(p)'
  BY <1>1, <1>5, <1>6 DEF AcksCovered
<1>8. QED
  BY <1>2, <1>7

\* The server begins to tell p of changes.
LEMMA SightListen ==
    ASSUME TypeOK, NEW p \in Phones, SightInv(p), ServerListen(p)
    PROVE  SightInv(p)'
<1> PICK n, t : n = Len(answers[p]) /\ t = <<Data(stored), Listening>>
  OBVIOUS
<1>1. /\ t \in Seq(Answers) /\ Len(t) = 2
      /\ t[1].kind = "data" /\ t[1].snap = stored /\ t[2].kind = "listening"
  <2>1. Data(stored) \in Answers /\ Listening \in Answers
    BY AnswersTyped DEF TypeOK
  <2>2. QED
    BY <2>1 DEF Data, Listening
<1>2. /\ Sends(p, t) /\ applied'[p] = applied[p]
      /\ link[p] = "waiting" /\ listened[p] = FALSE /\ listened'[p] = TRUE
      /\ stored' = stored /\ removed' = removed
  BY DEF ServerListen, Sends, TypeOK, historyVars
<1>3. /\ n \in Nat /\ Len(answers'[p]) = n + 2
      /\ \A j \in 1..n : answers'[p][j] = answers[p][j]
      /\ answers'[p][n + 1] = t[1] /\ answers'[p][n + 2] = t[2]
  <2>1. /\ n \in Nat /\ Len(answers'[p]) = n + Len(t)
        /\ \A j \in 1..n : answers'[p][j] = answers[p][j]
        /\ \A j \in 1..Len(t) : answers'[p][n + j] = t[j]
    BY <1>1, <1>2, SentPlaces
  <2>2. 1 \in 1..Len(t) /\ 2 \in 1..Len(t)
    BY <1>1
  <2>3. QED
    BY <1>1, <2>1, <2>2
<1>4. \A i \in 1..Len(t) : i = 1 \/ i = 2
  BY <1>1
<1>5. Told(p)'
  <2>1. /\ n + 1 \in 1..Len(answers'[p]) /\ answers'[p][n + 1].kind = "data"
        /\ answers'[p][n + 1].snap = stored'
    BY <1>1, <1>2, <1>3
  <2>2. \A j \in (n + 2)..Len(answers'[p]) : answers'[p][j].kind # "data"
    BY <1>1, <1>3
  <2>3. QED
    BY <1>3, <2>1, <2>2 DEF Told, DataAt
<1>6. Growing(p)'
  <2>1. \A i \in 1..Len(t) : t[i].kind = "data" => t[i].snap = stored'
    BY <1>1, <1>2, <1>4
  <2>2. QED
    BY <1>1, <1>2, <2>1, GrowingSent DEF SightInv
<1>7. ListensOnce(p)'
  <2>1. \A i \in 1..n : answers[p][i].kind # "listening"
    BY <1>2 DEF SightInv, ListensOnce, ListenAt
  <2>2. \A i \in 1..Len(answers'[p]) : answers'[p][i].kind = "listening" => i = n + 2
    BY <1>1, <1>3, <2>1
  <2>3. link'[p] = "waiting"
    BY <1>2 DEF Sends
  <2>4. QED
    BY <1>2, <2>2, <2>3 DEF ListensOnce, ListenAt
<1>8. \A i \in 0..Len(answers[p]) : \A m : Covered(p, i, m) => Covered(p, i, m)'
  BY <1>2, CoveredListen
<1>9. \A i \in 1..Len(t) : t[i].kind # "ack"
  BY <1>1, <1>4
<1>10. HeldCovered(p)' /\ AcksCovered(p)'
  BY <1>1, <1>2, <1>8, <1>9, SightAppended DEF SightInv
<1>11. QED
  BY <1>5, <1>6, <1>7, <1>10 DEF SightInv

\* t tells q of the change of the database, if q listens, in its first answer.
TellsChange(q, t) ==
    /\ \A i \in 1..Len(t) :
          /\ t[i].kind # "listening"
          /\ t[i].kind = "data" => i = 1 /\ t[i].snap = stored'
    /\ (listened[q] /\ stored' # stored) => Len(t) >= 1 /\ t[1].kind = "data"

\* What the handling of a write sends: news, and to its own phone the answer.
LEMMA WriteSends ==
    ASSUME TypeOK, TypeOK', Next, NEW p \in Phones, NEW ok \in BOOLEAN, ServerWrite(p, ok),
           NEW q \in Phones
    PROVE  \E news \in Seq(Answers), t \in Seq(Answers) :
              /\ Sends(q, t) /\ TellsChange(q, t)
              /\ \A i \in 1..Len(news) : news[i].kind # "ack"
              /\ t = IF q = p THEN Append(news, Ack(ok)) ELSE news
<1>1. PICK news, a : news = News(q) /\ a = Ack(ok)
  OBVIOUS
<1>2. PICK t : t = IF q = p THEN Append(news, a) ELSE news
  OBVIOUS
<1>3. a \in Answers /\ a.kind = "ack"
  BY <1>1, AnswersTyped DEF Ack
<1>4. /\ stored' \subseteq Messages
      /\ \/ news = <<>> /\ ~(listened[q] /\ stored' # stored)
         \/ \E d \in Answers : news = <<d>> /\ d.kind = "data" /\ d.snap = stored'
  <2>1. stored' \subseteq Messages
    BY DEF TypeOK
  <2>2. Data(stored') \in Answers /\ Data(stored').kind = "data" /\ Data(stored').snap = stored'
    BY <2>1, AnswersTyped DEF Data
  <2>3. QED
    BY <1>1, <2>1, <2>2 DEF News
<1>5. news \in Seq(Answers) /\ t \in Seq(Answers)
  <2>1. news \in Seq(Answers)
    <3>1. CASE news = <<>>
      BY <3>1
    <3>2. ASSUME NEW d \in Answers, news = <<d>> PROVE news \in Seq(Answers)
      BY <3>2
    <3>3. QED
      BY <1>4, <3>1, <3>2
  <2>2. Append(news, a) \in Seq(Answers)
    BY <1>3, <2>1, AppendProperties
  <2>3. QED
    BY <1>2, <2>1, <2>2
<1>6. Sends(q, t)
  <2>1. /\ loaded' = loaded /\ cache' = cache /\ link' = link
        /\ puts' = puts /\ putsToAck' = putsToAck
    BY DEF ServerWrite
  <2>2. removed \subseteq removed' /\ stored \cup removed \subseteq stored' \cup removed'
    BY RemovedStays
  <2>3. PICK s : s = answers[q]
    OBVIOUS
  <2>4. s \in Seq(Answers)
    BY <2>3, PhoneTypes
  <2>5. answers'[q] = (s \o news) \o (IF q = p THEN <<a>> ELSE <<>>)
    BY ZenonT(60), <1>1, <2>3, ServerWriteEffect
  <2>6. answers'[q] = s \o t
    <3>1. CASE q = p
      <4>1. <<a>> \in Seq(Answers) /\ t = news \o <<a>>
        BY <1>2, <1>3, <1>5, <3>1, AppendIsConcat
      <4>2. (s \o news) \o <<a>> = s \o (news \o <<a>>)
        BY <1>5, <2>4, <4>1, ConcatAssociative
      <4>3. QED
        BY <2>5, <3>1, <4>1, <4>2
    <3>2. CASE q # p
      <4>1. s \o news \in Seq(Answers)
        BY <1>5, <2>4, ConcatProperties
      <4>2. answers'[q] = (s \o news) \o <<>>
        BY <2>5, <3>2
      <4>3. QED
        BY <1>2, <3>2, <4>1, <4>2, ConcatEmptySeq
    <3>3. QED
      BY <3>1, <3>2
  <2>7. QED
    BY <2>1, <2>2, <2>3, <2>6 DEF Sends
<1>7. TellsChange(q, t)
  <2>1. CASE news = <<>> /\ ~(listened[q] /\ stored' # stored)
    <3>1. t = <<a>> \/ t = <<>>
      BY <1>2, <1>3, <2>1
    <3>2. \A i \in 1..Len(t) : t[i].kind = "ack"
      BY <1>3, <3>1
    <3>3. QED
      BY <2>1, <3>2 DEF TellsChange
  <2>2. CASE \E d \in Answers : news = <<d>> /\ d.kind = "data" /\ d.snap = stored'
    <3>1. PICK d \in Answers : news = <<d>> /\ d.kind = "data" /\ d.snap = stored'
      BY <2>2
    <3>2. Len(news) = 1 /\ news[1] = d
      BY <3>1
    <3>3. /\ Len(t) >= 1 /\ t[1] = d
          /\ \A i \in 1..Len(t) : i = 1 \/ t[i] = a
      <4>1. /\ Len(Append(news, a)) = Len(news) + 1
            /\ \A i \in 1..Len(news) : Append(news, a)[i] = news[i]
            /\ Append(news, a)[Len(news) + 1] = a
        BY <1>3, <1>5, AppendProperties
      <4>2. QED
        BY <1>2, <3>2, <4>1
    <3>4. QED
      BY <1>3, <3>1, <3>3 DEF TellsChange
  <2>3. QED
    BY <1>4, <2>1, <2>2
<1>8. \A i \in 1..Len(news) : news[i].kind # "ack"
  BY <1>4
<1>9. QED
  BY <1>1, <1>2, <1>5, <1>6, <1>7, <1>8

LEMMA ToldSent ==
    ASSUME TypeOK, NEW q \in Phones, NEW t \in Seq(Answers), Sends(q, t), TellsChange(q, t),
           listened'[q] = listened[q], Told(q)
    PROVE  Told(q)'
<1> SUFFICES ASSUME listened[q] PROVE Told(q)'
  BY DEF Told
<1> PICK n : n = Len(answers[q])
  OBVIOUS
<1>1. /\ n \in Nat /\ Len(t) \in Nat /\ Len(answers'[q]) = n + Len(t)
      /\ \A i \in 1..n : answers'[q][i] = answers[q][i]
      /\ \A i \in (n + 1)..Len(answers'[q]) : i - n \in 1..Len(t) /\ answers'[q][i] = t[i - n]
      /\ \A i \in 1..Len(t) : answers'[q][n + i] = t[i]
  BY SentPlaces
<1>2. CASE Len(t) >= 1 /\ t[1].kind = "data"
  <2>1. 1 \in 1..Len(t)
    BY <1>1, <1>2
  <2>2. /\ n + 1 \in 1..Len(answers'[q]) /\ answers'[q][n + 1].kind = "data"
        /\ answers'[q][n + 1].snap = stored'
    BY <1>1, <1>2, <2>1 DEF TellsChange
  <2>3. ASSUME NEW j \in (n + 2)..Len(answers'[q]) PROVE answers'[q][j].kind # "data"
    <3>1. j \in (n + 1)..Len(answers'[q]) /\ j - n # 1
      BY <1>1
    <3>2. j - n \in 1..Len(t) /\ answers'[q][j] = t[j - n]
      BY <1>1, <3>1
    <3>3. QED
      BY <3>1, <3>2 DEF TellsChange
  <2>4. (n + 1) + 1 = n + 2
    BY <1>1
  <2>5. QED
    BY <2>2, <2>3, <2>4 DEF Told, DataAt
<1>3. CASE ~(Len(t) >= 1 /\ t[1].kind = "data")
  <2>1. stored' = stored
    BY <1>3 DEF TellsChange
  <2>2. \A i \in (n + 1)..Len(answers'[q]) : answers'[q][i].kind # "data"
    <3>1. \A i \in 1..Len(t) : t[i].kind # "data"
      BY <1>1, <1>3 DEF TellsChange
    <3>2. SUFFICES ASSUME NEW i \in (n + 1)..Len(answers'[q])
                   PROVE  answers'[q][i].kind # "data"
      OBVIOUS
    <3>3. i - n \in 1..Len(t) /\ answers'[q][i] = t[i - n]
      BY <1>1
    <3>4. QED
      BY <3>1, <3>3
  <2>3. cache'[q] = cache[q] /\ loaded'[q] = loaded[q]
    BY DEF Sends
  <2>4. CASE \E i \in 1..n : /\ answers[q][i].kind = "data" /\ answers[q][i].snap = stored
                             /\ \A j \in (i + 1)..n : answers[q][j].kind # "data"
    <3>1. PICK i \in 1..n : /\ answers[q][i].kind = "data" /\ answers[q][i].snap = stored
                            /\ \A j \in (i + 1)..n : answers[q][j].kind # "data"
      BY <2>4
    <3>2. /\ i \in 1..Len(answers'[q]) /\ answers'[q][i].kind = "data"
          /\ answers'[q][i].snap = stored'
      BY <1>1, <2>1, <3>1
    <3>3. ASSUME NEW j \in (i + 1)..Len(answers'[q]) PROVE answers'[q][j].kind # "data"
      <4>1. CASE j \in (i + 1)..n
        <5>1. answers'[q][j] = answers[q][j]
          BY <1>1, <4>1
        <5>2. QED
          BY <3>1, <4>1, <5>1
      <4>2. CASE j \in (n + 1)..Len(answers'[q])
        BY <2>2, <4>2
      <4>3. QED
        BY <1>1, <4>1, <4>2
    <3>4. QED
      BY <3>2, <3>3 DEF Told, DataAt
  <2>5. CASE /\ loaded[q] /\ cache[q] = stored
             /\ \A i \in 1..n : answers[q][i].kind # "data"
    <3>1. \A i \in 1..Len(answers'[q]) : answers'[q][i].kind # "data"
      BY <1>1, <2>2, <2>5
    <3>2. QED
      BY <2>1, <2>3, <2>5, <3>1 DEF Told, DataAt
  <2>6. QED
    BY <2>4, <2>5 DEF Told, DataAt
<1>4. QED
  BY <1>2, <1>3

LEMMA ListensOnceSent ==
    ASSUME TypeOK, NEW q \in Phones, NEW t \in Seq(Answers), Sends(q, t), TellsChange(q, t),
           listened'[q] = listened[q], ListensOnce(q)
    PROVE  ListensOnce(q)'
<1> PICK n : n = Len(answers[q])
  OBVIOUS
<1>1. /\ n \in Nat /\ Len(t) \in Nat /\ Len(answers'[q]) = n + Len(t)
      /\ \A i \in 1..n : answers'[q][i] = answers[q][i]
      /\ \A i \in (n + 1)..Len(answers'[q]) : i - n \in 1..Len(t) /\ answers'[q][i] = t[i - n]
  BY SentPlaces
<1>2. \A i \in 1..Len(answers'[q]) : answers'[q][i].kind = "listening" =>
          i \in 1..n /\ answers[q][i].kind = "listening"
  <2>1. \A i \in 1..Len(t) : t[i].kind # "listening"
    BY DEF TellsChange
  <2>2. \A i \in (n + 1)..Len(answers'[q]) : answers'[q][i].kind # "listening"
    BY <1>1, <2>1
  <2>3. \A i \in 1..Len(answers'[q]) : i \in 1..n \/ i \in (n + 1)..Len(answers'[q])
    BY <1>1
  <2>4. QED
    BY <1>1, <2>2, <2>3
<1>3. link'[q] = link[q]
  BY DEF Sends
<1>4. QED
  BY <1>2, <1>3 DEF ListensOnce, ListenAt

\* A write of p is answered at the end of what p will receive: if the server
\* stored it and p is told of changes, the data before that answer have it.
LEMMA NewAckCovered ==
    ASSUME TypeOK, NEW p \in Phones, NEW t \in Seq(Answers), Sends(p, t),
           listened'[p] = listened[p], Told(p)', NEW n, n = Len(answers'[p]), n \in Nat,
           n >= 1, answers'[p][n].kind = "ack", NEW m \in stored'
    PROVE  Covered(p, n, m)'
<1>1. ASSUME listened'[p] PROVE InSight(p, n, m)'
  <2>1. CASE \E i \in 1..n : answers'[p][i].kind = "data" /\ answers'[p][i].snap = stored'
    <3>1. PICK i \in 1..n : answers'[p][i].kind = "data" /\ answers'[p][i].snap = stored'
      BY <2>1
    <3>2. i # n
      BY <3>1
    <3>3. i \in 1..(n - 1)
      BY <3>2
    <3>4. QED
      BY <3>1, <3>3 DEF InSight, DataAt
  <2>2. CASE cache'[p] = stored'
    BY <2>2 DEF InSight
  <2>3. QED
    BY <1>1, <2>1, <2>2 DEF Told, DataAt
<1>2. \A l \in (n + 1)..n : FALSE
  OBVIOUS
<1>3. QED
  BY <1>1, <1>2 DEF Covered

\* The server handles a write of p.
LEMMA SightWrite ==
    ASSUME TypeOK, TypeOK', Next, NEW p \in Phones, NEW ok \in BOOLEAN, ServerWrite(p, ok),
           NEW q \in Phones, SightInv(q)
    PROVE  SightInv(q)'
<1>1. PICK news \in Seq(Answers), t \in Seq(Answers) :
          /\ Sends(q, t) /\ TellsChange(q, t)
          /\ \A i \in 1..Len(news) : news[i].kind # "ack"
          /\ t = IF q = p THEN Append(news, Ack(ok)) ELSE news
  BY WriteSends
<1>2. listened' = listened /\ puts' = puts /\ putsToAck' = putsToAck
  BY DEF ServerWrite
<1>3. Told(q)' /\ ListensOnce(q)'
  BY <1>1, <1>2, ToldSent, ListensOnceSent DEF SightInv
<1>4. Growing(q)'
  <2>1. \A i \in 1..Len(t) : t[i].kind = "data" => t[i].snap = stored'
    BY <1>1 DEF TellsChange
  <2>2. QED
    BY <1>1, <2>1, GrowingSent DEF SightInv
<1>5. \A i \in 0..Len(answers[q]) : \A m : Covered(q, i, m) => Covered(q, i, m)'
  <2>1. \A i \in 1..Len(t) : t[i].kind # "listening"
    BY <1>1 DEF TellsChange
  <2>2. QED
    BY <1>1, <1>2, <2>1, CoveredSent
<1>6. applied \in [Phones -> Nat] /\ applied' = [applied EXCEPT ![p] = @ + 1]
  BY ZenonT(60), ServerWriteEffect DEF TypeOK
<1>7. CASE q # p
  <2>1. applied'[q] = applied[q] /\ \A i \in 1..Len(t) : t[i].kind # "ack"
    BY <1>1, <1>6, <1>7
  <2>2. HeldCovered(q)' /\ AcksCovered(q)'
    BY <1>1, <1>5, <2>1, SightAppended DEF SightInv
  <2>3. QED
    BY <1>3, <1>4, <2>2 DEF SightInv
<1>8. CASE q = p
  <2>0. PICK n, a : n = applied[p] /\ a = Ack(ok)
    OBVIOUS
  <2>1. applied'[p] = n + 1 /\ n \in Nat
    BY <2>0, <1>6
  <2>2. a \in Answers /\ a.kind = "ack" /\ a.ok = ok
    BY <2>0, AnswersTyped DEF Ack
  <2>3. PICK s : s = answers[p] \o news
    OBVIOUS
  <2>4. s \in Seq(Answers) /\ answers[p] \in Seq(Answers) /\ answers'[p] = Append(s, a)
    <3>1. PICK r : r = answers[p]
      OBVIOUS
    <3>2. r \in Seq(Answers)
      BY <3>1, PhoneTypes
    <3>3. /\ r \o news \in Seq(Answers)
          /\ Append(r \o news, a) = (r \o news) \o <<a>>
          /\ Append(news, a) = news \o <<a>> /\ <<a>> \in Seq(Answers)
      BY <2>2, <3>2, ConcatProperties, AppendIsConcat
    <3>4. (r \o news) \o <<a>> = r \o (news \o <<a>>)
      BY <2>2, <3>2, <3>3, ConcatAssociative
    <3>5. answers'[p] = r \o t
      BY <1>1, <1>8, <3>1 DEF Sends
    <3>6. QED
      BY <2>0, <1>1, <1>8, <2>3, <3>1, <3>2, <3>3, <3>4, <3>5
  <2>5. PICK f : /\ AckIndex(answers[p], n, f)
                 /\ \A k \in 1..n : (answers[p][f[k]].ok /\ puts[p][k].op = "put")
                                        => Covered(p, f[k], puts[p][k].id)
    BY <2>0, <1>8 DEF SightInv, AcksCovered
  <2>6. /\ AckIndex(s, n, f)
        /\ \A k \in 1..n : f[k] \in 1..Len(answers[p]) /\ s[f[k]] = answers[p][f[k]]
    BY <2>0, <1>1, <2>1, <2>3, <2>4, <2>5, AckIndexAppend
  <2>7. PICK g : /\ AckIndex(Append(s, a), n + 1, g)
                 /\ \A k \in 1..n : g[k] = f[k]
                 /\ g[n + 1] = Len(s) + 1
    <3>1. n \in Nat /\ s \in Seq(Answers) /\ a \in Answers /\ a.kind = "ack" /\ AckIndex(s, n, f)
      BY <2>1, <2>2, <2>4, <2>6
    <3>2. QED
      BY <3>1, AckIndexNext
  <2>8. /\ Len(answers'[p]) = Len(s) + 1 /\ Len(s) \in Nat
        /\ \A i \in 1..Len(s) : answers'[p][i] = s[i]
        /\ answers'[p][Len(s) + 1] = a
    BY <2>2, <2>4, AppendProperties
  <2>9. ASSUME NEW k \in 1..(n + 1), answers'[p][g[k]].ok, puts[p][k].op = "put"
        PROVE  Covered(p, g[k], puts[p][k].id)'
    <3>1. PICK i, m : i = g[k] /\ m = puts[p][k].id
      OBVIOUS
    <3>2. CASE k \in 1..n
      <4>1. i = f[k] /\ f[k] \in 1..Len(answers[p]) /\ s[f[k]] = answers[p][f[k]] /\ f[k] \in 1..Len(s)
        BY <2>6, <2>7, <3>1, <3>2 DEF AckIndex
      <4>2. answers'[p][g[k]] = answers[p][f[k]]
        BY <2>8, <3>1, <4>1
      <4>3. Covered(p, i, m)
        BY <2>5, <2>9, <3>1, <3>2, <4>1, <4>2
      <4>4. i \in 0..Len(answers[p])
        BY <4>1
      <4>5. Covered(p, i, m)'
        BY <1>5, <1>8, <4>3, <4>4
      <4>6. QED
        BY <1>2, <3>1, <4>5 DEF Covered, InSight, ListenAt, DataAt
    <3>3. CASE k = n + 1
      <4>1. i = Len(answers'[p]) /\ i \in Nat /\ i >= 1 /\ answers'[p][i] = a
        BY <2>7, <2>8, <3>1, <3>3
      <4>2. ok = TRUE
        BY <2>0, <2>2, <2>9, <3>1, <4>1
      <4>3. NextWrite(p) = puts[p][k]
        BY <2>0, <3>3 DEF NextWrite
      <4>4. m \in stored'
        BY <2>9, <3>1, <4>2, <4>3, ServerWriteEffect
      <4>5. Covered(p, i, m)'
        BY <1>1, <1>2, <1>3, <1>8, <2>2, <4>1, <4>4, NewAckCovered
      <4>6. QED
        BY <1>2, <3>1, <4>5 DEF Covered, InSight, ListenAt, DataAt
    <3>4. QED
      BY <2>0, <2>1, <3>2, <3>3
  <2>10. AckIndex(answers[p], applied[p], g)'
    BY <2>0, <2>1, <2>4, <2>7 DEF AckIndex
  <2>11. AcksCovered(p)'
    BY <2>0, <1>2, <2>1, <2>9, <2>10 DEF AcksCovered
  <2>12. HeldCovered(p)'
    <3>1. SUFFICES ASSUME NEW i \in 1..Len(putsToAck[p]), putsToAck[p][i].ok,
                          putsToAck[p][i].write.op = "put"
                   PROVE  Covered(p, 0, putsToAck[p][i].write.id)'
      BY <1>2 DEF HeldCovered
    <3>2. PICK m, z : m = putsToAck[p][i].write.id /\ z = 0
      OBVIOUS
    <3>3. Covered(p, z, m) /\ z \in 0..Len(answers[p])
      BY <1>8, <2>4, <3>1, <3>2, LenProperties DEF SightInv, HeldCovered
    <3>4. Covered(p, z, m)'
      BY <1>5, <1>8, <3>3
    <3>5. QED
      BY <1>2, <3>2, <3>4 DEF Covered, InSight, ListenAt, DataAt
  <2>13. QED
    BY <1>3, <1>4, <1>8, <2>11, <2>12 DEF SightInv
<1>9. QED
  BY <1>7, <1>8

----------------------------------------------------------------------------
(* p receives the first of its answers. *)

\* The answer is taken, and its data, if it brings any, become the cache.
Received(p) ==
    /\ answers[p] # <<>> /\ answers'[p] = Tail(answers[p])
    /\ stored' = stored /\ removed' = removed /\ listened'[p] = listened[p]
    /\ IF answers[p][1].kind = "data"
       THEN loaded'[p] = TRUE /\ cache'[p] = answers[p][1].snap
       ELSE loaded'[p] = loaded[p] /\ cache'[p] = cache[p]

LEMMA ReceivedPlaces ==
    ASSUME TypeOK, NEW p \in Phones, answers[p] # <<>>, answers'[p] = Tail(answers[p])
    PROVE  /\ Len(answers[p]) \in Nat /\ Len(answers[p]) >= 1
           /\ Len(answers'[p]) = Len(answers[p]) - 1
           /\ Head(answers[p]) = answers[p][1]
           /\ \A i \in 1..Len(answers'[p]) :
                 i + 1 \in 1..Len(answers[p]) /\ answers'[p][i] = answers[p][i + 1]
           /\ \A i \in 2..Len(answers[p]) :
                 i - 1 \in 1..Len(answers'[p]) /\ answers'[p][i - 1] = answers[p][i]
<1>1. PICK s : s = answers[p]
  OBVIOUS
<1>2. s \in Seq(Answers) /\ s # <<>> /\ answers'[p] = Tail(s)
  BY <1>1, PhoneTypes
<1>3. /\ Head(s) = s[1] /\ Len(s) \in Nat /\ Len(s) >= 1 /\ Len(Tail(s)) = Len(s) - 1
      /\ \A i \in 1..Len(Tail(s)) : i + 1 \in 1..Len(s) /\ Tail(s)[i] = s[i + 1]
  BY <1>2, TailTyped
<1>4. ASSUME NEW i \in 2..Len(s) PROVE i - 1 \in 1..Len(Tail(s)) /\ Tail(s)[i - 1] = s[i]
  <2>1. i - 1 \in 1..Len(Tail(s)) /\ (i - 1) + 1 = i
    BY <1>3
  <2>2. QED
    BY <1>3, <2>1
<1>5. QED
  BY <1>1, <1>2, <1>3, <1>4

LEMMA ToldReceived ==
    ASSUME TypeOK, NEW p \in Phones, Received(p), Told(p)
    PROVE  Told(p)'
<1> SUFFICES ASSUME listened[p] PROVE Told(p)'
  BY DEF Told, Received
<1> PICK n : n = Len(answers[p])
  OBVIOUS
<1>1. /\ n \in Nat /\ n >= 1 /\ Len(answers'[p]) = n - 1
      /\ \A i \in 1..Len(answers'[p]) : i + 1 \in 1..n /\ answers'[p][i] = answers[p][i + 1]
      /\ \A i \in 2..n : i - 1 \in 1..Len(answers'[p]) /\ answers'[p][i - 1] = answers[p][i]
  BY ReceivedPlaces DEF Received
<1>2. CASE \E i \in 1..n : /\ answers[p][i].kind = "data" /\ answers[p][i].snap = stored
                           /\ \A j \in (i + 1)..n : answers[p][j].kind # "data"
  <2>1. PICK i \in 1..n : /\ answers[p][i].kind = "data" /\ answers[p][i].snap = stored
                          /\ \A j \in (i + 1)..n : answers[p][j].kind # "data"
    BY <1>2
  <2>2. ASSUME NEW j \in i..Len(answers'[p]), j \in 1..Len(answers'[p])
        PROVE  answers'[p][j].kind # "data"
    <3>1. j + 1 \in (i + 1)..n /\ answers'[p][j] = answers[p][j + 1]
      BY <1>1, <2>2
    <3>2. QED
      BY <2>1, <3>1
  <2>3. CASE i = 1
    <3>1. loaded'[p] = TRUE /\ cache'[p] = stored'
      BY <2>1, <2>3 DEF Received
    <3>2. \A j \in 1..Len(answers'[p]) : answers'[p][j].kind # "data"
      BY <2>2, <2>3
    <3>3. QED
      BY <3>1, <3>2 DEF Told, DataAt
  <2>4. CASE i # 1
    <3>1. i \in 2..n
      BY <1>1, <2>4
    <3>2. PICK k : k = i - 1
      OBVIOUS
    <3>3. k \in 1..Len(answers'[p]) /\ answers'[p][k] = answers[p][i] /\ k + 1 = i
      BY <1>1, <3>1, <3>2
    <3>4. answers'[p][k].kind = "data" /\ answers'[p][k].snap = stored'
      BY <2>1, <3>3 DEF Received
    <3>5. \A j \in (k + 1)..Len(answers'[p]) : answers'[p][j].kind # "data"
      BY <1>1, <2>2, <3>3
    <3>6. QED
      BY <3>3, <3>4, <3>5 DEF Told, DataAt
  <2>5. QED
    BY <2>3, <2>4
<1>3. CASE /\ loaded[p] /\ cache[p] = stored
           /\ \A i \in 1..n : answers[p][i].kind # "data"
  <2>1. 1 \in 1..n
    BY <1>1
  <2>2. loaded'[p] = loaded[p] /\ cache'[p] = cache[p] /\ stored' = stored
    BY <1>3, <2>1 DEF Received
  <2>3. \A i \in 1..Len(answers'[p]) : answers'[p][i].kind # "data"
    <3>1. ASSUME NEW i \in 1..Len(answers'[p]) PROVE answers'[p][i].kind # "data"
      <4>1. i + 1 \in 1..n /\ answers'[p][i] = answers[p][i + 1]
        BY <1>1
      <4>2. answers[p][i + 1].kind # "data"
        BY <1>3, <4>1
      <4>3. QED
        BY <4>1, <4>2
    <3>2. QED
      BY <3>1
  <2>4. QED
    BY <1>3, <2>2, <2>3 DEF Told, DataAt
<1>4. QED
  BY <1>2, <1>3 DEF Told, DataAt

LEMMA GrowingReceived ==
    ASSUME TypeOK, NEW p \in Phones, Received(p), Growing(p)
    PROVE  Growing(p)'
<1> PICK n : n = Len(answers[p])
  OBVIOUS
<1>1. /\ n \in Nat /\ n >= 1 /\ Len(answers'[p]) = n - 1
      /\ \A i \in 1..Len(answers'[p]) : i + 1 \in 1..n /\ answers'[p][i] = answers[p][i + 1]
  BY ReceivedPlaces DEF Received
<1>2. /\ stored' = stored /\ removed' = removed
      /\ IF answers[p][1].kind = "data"
         THEN cache'[p] = answers[p][1].snap ELSE cache'[p] = cache[p]
  BY DEF Received
<1>3. /\ cache[p] \subseteq stored \cup removed
      /\ \A i \in 1..n : answers[p][i].kind = "data" =>
            /\ answers[p][i].snap \subseteq stored \cup removed
            /\ cache[p] \subseteq answers[p][i].snap \cup removed
            /\ \A j \in 1..(i - 1) : answers[p][j].kind = "data" =>
                  answers[p][j].snap \subseteq answers[p][i].snap \cup removed
  BY DEF Growing, DataAt
<1>4. cache'[p] \subseteq stored' \cup removed'
  <2>1. 1 \in 1..n
    BY <1>1
  <2>2. QED
    BY <1>2, <1>3, <2>1
<1>5. ASSUME NEW i \in 1..Len(answers'[p]), answers'[p][i].kind = "data"
      PROVE  /\ answers'[p][i].snap \subseteq stored' \cup removed'
             /\ cache'[p] \subseteq answers'[p][i].snap \cup removed'
             /\ \A j \in 1..(i - 1) : answers'[p][j].kind = "data" =>
                   answers'[p][j].snap \subseteq answers'[p][i].snap \cup removed'
  <2>1. PICK k : k = i + 1
    OBVIOUS
  <2>2. k \in 1..n /\ answers'[p][i] = answers[p][k] /\ 1 \in 1..(k - 1)
    BY <1>1, <2>1
  <2>3. /\ answers[p][k].snap \subseteq stored \cup removed
        /\ cache[p] \subseteq answers[p][k].snap \cup removed
        /\ \A j \in 1..(k - 1) : answers[p][j].kind = "data" =>
              answers[p][j].snap \subseteq answers[p][k].snap \cup removed
    BY <1>3, <1>5, <2>2
  <2>4. cache'[p] \subseteq answers'[p][i].snap \cup removed'
    BY <1>2, <2>2, <2>3
  <2>5. ASSUME NEW j \in 1..(i - 1), answers'[p][j].kind = "data"
        PROVE  answers'[p][j].snap \subseteq answers'[p][i].snap \cup removed'
    <3>1. j + 1 \in 1..(k - 1) /\ answers'[p][j] = answers[p][j + 1]
      BY <1>1, <2>1
    <3>2. QED
      BY <1>2, <2>2, <2>3, <2>5, <3>1
  <2>6. QED
    BY <1>2, <2>2, <2>3, <2>4, <2>5
<1>6. QED
  BY <1>4, <1>5 DEF Growing, DataAt

\* What was in sight before the i-th answer is so before the same answer, now
\* the one at k.
LEMMA InSightReceived ==
    ASSUME TypeOK, NEW p \in Phones, Received(p), Growing(p),
           NEW i \in 0..Len(answers[p]), NEW k \in Nat, k = i - 1 \/ (k = 0 /\ i = 0),
           NEW m, InSight(p, i, m)
    PROVE  InSight(p, k, m)'
<1> PICK n : n = Len(answers[p])
  OBVIOUS
<1>1. /\ n \in Nat /\ n >= 1
      /\ \A j \in 2..n : j - 1 \in 1..Len(answers'[p]) /\ answers'[p][j - 1] = answers[p][j]
  BY ReceivedPlaces DEF Received
<1>2. /\ removed' = removed
      /\ IF answers[p][1].kind = "data"
         THEN cache'[p] = answers[p][1].snap ELSE cache'[p] = cache[p]
  BY DEF Received
<1>3. CASE m \in removed
  BY <1>2, <1>3 DEF InSight
<1>4. CASE m \in cache[p]
  <2>1. answers[p][1].kind = "data" => cache[p] \subseteq answers[p][1].snap \cup removed
    BY <1>1 DEF Growing, DataAt
  <2>2. QED
    BY <1>2, <1>4, <2>1 DEF InSight
<1>5. ASSUME NEW j \in 1..(i - 1), answers[p][j].kind = "data", m \in answers[p][j].snap
      PROVE  InSight(p, k, m)'
  <2>1. CASE j = 1
    BY <1>2, <1>5, <2>1 DEF InSight
  <2>2. CASE j # 1
    <3>1. j \in 2..n /\ j - 1 \in 1..(k - 1)
      BY <1>1, <2>2
    <3>2. answers'[p][j - 1] = answers[p][j]
      BY <1>1, <3>1
    <3>3. QED
      BY <1>5, <3>1, <3>2 DEF InSight, DataAt
  <2>3. QED
    BY <2>1, <2>2
<1>6. QED
  BY <1>3, <1>4, <1>5 DEF InSight, DataAt

LEMMA CoveredReceived ==
    ASSUME TypeOK, NEW p \in Phones, Received(p), Growing(p),
           NEW i \in 0..Len(answers[p]), NEW k \in Nat,
           k = i - 1 \/ (k = 0 /\ i = 0 /\ answers[p][1].kind # "listening"),
           NEW m, Covered(p, i, m)
    PROVE  Covered(p, k, m)'
<1> PICK n : n = Len(answers[p])
  OBVIOUS
<1>1. /\ n \in Nat /\ n >= 1 /\ Len(answers'[p]) = n - 1
      /\ \A j \in 1..Len(answers'[p]) : j + 1 \in 1..n /\ answers'[p][j] = answers[p][j + 1]
      /\ \A j \in 2..n : j - 1 \in 1..Len(answers'[p]) /\ answers'[p][j - 1] = answers[p][j]
  BY ReceivedPlaces DEF Received
<1>2. stored' = stored /\ removed' = removed /\ listened'[p] = listened[p]
  BY DEF Received
<1>3. ASSUME NEW l \in (k + 1)..Len(answers'[p]), answers'[p][l].kind = "listening"
      PROVE  InSight(p, l, m)'
  <2>1. PICK h : h = l + 1
    OBVIOUS
  <2>2. h \in (i + 1)..n /\ answers'[p][l] = answers[p][h] /\ l = h - 1 /\ l \in Nat /\ h \in 0..n
    BY <1>1, <2>1
  <2>3. InSight(p, h, m)
    BY <1>3, <2>2 DEF Covered, ListenAt
  <2>4. QED
    BY <2>2, <2>3, InSightReceived
<1>4. ASSUME listened'[p], \A l \in (k + 1)..Len(answers'[p]) : answers'[p][l].kind # "listening"
      PROVE  InSight(p, k, m)'
  <2>1. ASSUME NEW h \in (i + 1)..n PROVE answers[p][h].kind # "listening"
    <3>1. CASE h = 1
      BY <1>1, <2>1, <3>1
    <3>2. CASE h # 1
      <4>1. PICK l : l = h - 1
        OBVIOUS
      <4>2. h \in 2..n /\ l \in (k + 1)..Len(answers'[p])
        BY <1>1, <2>1, <3>2, <4>1
      <4>3. answers'[p][l] = answers[p][h]
        BY <1>1, <4>1, <4>2
      <4>4. QED
        BY <1>4, <4>2, <4>3
    <3>3. QED
      BY <3>1, <3>2
  <2>2. InSight(p, i, m)
    BY <1>2, <1>4, <2>1 DEF Covered, ListenAt
  <2>3. k = i - 1 \/ (k = 0 /\ i = 0)
    OBVIOUS
  <2>4. QED
    BY <2>2, <2>3, InSightReceived
<1>5. QED
  BY <1>2, <1>3, <1>4 DEF Covered, ListenAt

LEMMA ListensOnceReceived ==
    ASSUME TypeOK, NEW p \in Phones, Received(p), ListensOnce(p),
           \/ link'[p] = link[p]
           \/ answers[p][1].kind = "listening" /\ link'[p] = "on"
    PROVE  ListensOnce(p)'
<1> PICK n : n = Len(answers[p])
  OBVIOUS
<1>1. /\ n \in Nat /\ n >= 1 /\ Len(answers'[p]) = n - 1
      /\ \A i \in 1..Len(answers'[p]) : i + 1 \in 1..n /\ answers'[p][i] = answers[p][i + 1]
  BY ReceivedPlaces DEF Received
<1>2. listened'[p] = listened[p] /\ 1 \in 1..n
  BY <1>1 DEF Received
<1>3. CASE answers[p][1].kind = "listening"
  <2>1. listened[p] /\ \A i \in 1..n : answers[p][i].kind = "listening" => i = 1
    BY <1>2, <1>3 DEF ListensOnce, ListenAt
  <2>2. \A i \in 1..Len(answers'[p]) : i + 1 # 1
    BY <1>1
  <2>3. \A i \in 1..Len(answers'[p]) : answers'[p][i].kind # "listening"
    BY <1>1, <2>1, <2>2
  <2>4. QED
    BY <1>2, <2>1, <2>3 DEF ListensOnce, ListenAt
<1>4. CASE answers[p][1].kind # "listening"
  <2>1. link'[p] = link[p]
    BY <1>4
  <2>2. ASSUME NEW i \in 1..Len(answers'[p]), answers'[p][i].kind = "listening"
        PROVE  /\ listened[p] /\ link[p] = "waiting"
               /\ \A j \in 1..Len(answers'[p]) : answers'[p][j].kind = "listening" => j = i
    <3>1. i + 1 \in 1..n /\ answers[p][i + 1].kind = "listening"
      BY <1>1, <2>2
    <3>2. /\ listened[p] /\ link[p] = "waiting"
          /\ \A j \in 1..n : answers[p][j].kind = "listening" => j = i + 1
      BY <3>1 DEF ListensOnce, ListenAt
    <3>3. ASSUME NEW j \in 1..Len(answers'[p]), answers'[p][j].kind = "listening"
          PROVE  j = i
      <4>1. j + 1 \in 1..n /\ answers[p][j + 1].kind = "listening"
        BY <1>1, <3>3
      <4>2. j + 1 = i + 1
        BY <3>2, <4>1
      <4>3. QED
        BY <4>2
    <3>4. QED
      BY <3>2, <3>3
  <2>3. QED
    BY <1>2, <2>1, <2>2 DEF ListensOnce, ListenAt
<1>5. QED
  BY <1>3, <1>4

\* The answers held back, when the listen's is not what p receives: ...
LEMMA HeldReceived ==
    ASSUME TypeOK, NEW p \in Phones, Received(p), Growing(p), HeldCovered(p),
           answers[p][1].kind # "listening",
           NEW i \in 1..Len(putsToAck[p]), putsToAck[p][i].ok, putsToAck[p][i].write.op = "put",
           NEW m, m = putsToAck[p][i].write.id
    PROVE  Covered(p, 0, m)'
<1> PICK z : z = 0
  OBVIOUS
<1>1. Covered(p, z, m)
  BY DEF HeldCovered
<1>2. z \in 0..Len(answers[p]) /\ z \in Nat
  BY ReceivedPlaces DEF Received
<1>3. Covered(p, z, m)'
  BY <1>1, <1>2, CoveredReceived
<1>4. QED
  BY <1>3

\* ... and those under way, when it is not one of them.
LEMMA AcksReceived ==
    ASSUME TypeOK, NEW p \in Phones, Received(p), Growing(p), AcksCovered(p),
           answers[p][1].kind # "ack", applied'[p] = applied[p], puts'[p] = puts[p]
    PROVE  AcksCovered(p)'
<1> PICK s, n : s = answers[p] /\ n = applied[p]
  OBVIOUS
<1>1. /\ s \in Seq(Answers) /\ n \in Nat /\ s # <<>> /\ Head(s).kind # "ack"
      /\ answers'[p] = Tail(s)
  BY PhoneTypes, ReceivedPlaces DEF Received
<1>2. PICK f : /\ AckIndex(s, n, f)
               /\ \A k \in 1..n : (s[f[k]].ok /\ puts[p][k].op = "put")
                                      => Covered(p, f[k], puts[p][k].id)
  BY DEF AcksCovered
<1>3. PICK g : /\ AckIndex(Tail(s), n, g)
               /\ \A k \in 1..n : g[k] = f[k] - 1 /\ Tail(s)[g[k]] = s[f[k]]
  BY ZenonT(60), <1>1, <1>2, AckIndexTailOther
<1>4. ASSUME NEW k \in 1..n, answers'[p][g[k]].ok, puts[p][k].op = "put"
      PROVE  Covered(p, g[k], puts[p][k].id)'
  <2>1. PICK i, j, m : i = f[k] /\ j = g[k] /\ m = puts[p][k].id
    OBVIOUS
  <2>2. i \in 1..Len(s) /\ j = i - 1 /\ Len(s) \in Nat
    BY <1>1, <1>2, <1>3, <2>1, LenProperties DEF AckIndex
  <2>3. i \in 0..Len(answers[p]) /\ j \in Nat /\ j = i - 1
    BY <2>2
  <2>4. Covered(p, i, m)
    BY <1>1, <1>2, <1>3, <1>4, <2>1
  <2>5. Covered(p, j, m)'
    BY <2>3, <2>4, CoveredReceived
  <2>6. QED
    BY <2>1, <2>5 DEF Covered, InSight, ListenAt, DataAt
<1>5. AckIndex(answers[p], applied[p], g)'
  BY <1>1, <1>3 DEF AckIndex
<1>6. QED
  BY <1>4, <1>5 DEF AcksCovered

LEMMA SightData ==
    ASSUME TypeOK, NEW p \in Phones, SightInv(p), DataArrives(p)
    PROVE  SightInv(p)'
<1>1. /\ answers[p] # <<>> /\ Head(answers[p]).kind = "data"
      /\ answers'[p] = Tail(answers[p]) /\ loaded'[p] = TRUE
      /\ cache'[p] = Head(answers[p]).snap
      /\ stored' = stored /\ removed' = removed /\ listened' = listened /\ link' = link
      /\ applied' = applied /\ puts' = puts /\ putsToAck' = putsToAck
  BY DEF DataArrives, FirstAnswer, historyVars, TypeOK
<1>2. Received(p) /\ answers[p][1].kind = "data"
  BY <1>1, ReceivedPlaces DEF Received
<1>3. Told(p)' /\ Growing(p)' /\ ListensOnce(p)'
  BY <1>1, <1>2, ToldReceived, GrowingReceived, ListensOnceReceived DEF SightInv
<1>4. AcksCovered(p)'
  BY <1>1, <1>2, AcksReceived DEF SightInv
<1>5. HeldCovered(p)'
  <2>1. SUFFICES ASSUME NEW i \in 1..Len(putsToAck[p]), putsToAck[p][i].ok,
                        putsToAck[p][i].write.op = "put"
                 PROVE  Covered(p, 0, putsToAck[p][i].write.id)'
    BY <1>1 DEF HeldCovered
  <2>2. PICK m : m = putsToAck[p][i].write.id
    OBVIOUS
  <2>3. Covered(p, 0, m)'
    BY <1>2, <2>1, <2>2, HeldReceived DEF SightInv
  <2>4. QED
    BY <1>1, <2>2, <2>3 DEF Covered, InSight, ListenAt, DataAt
<1>6. QED
  BY <1>3, <1>4, <1>5 DEF SightInv

LEMMA SightListening ==
    ASSUME TypeOK, NEW p \in Phones, SightInv(p), ListenAnswered(p)
    PROVE  SightInv(p)'
<1>1. /\ answers[p] # <<>> /\ Head(answers[p]).kind = "listening"
      /\ answers'[p] = Tail(answers[p]) /\ link'[p] = "on" /\ putsToAck'[p] = <<>>
      /\ stored' = stored /\ listened' = listened /\ loaded' = loaded /\ cache' = cache
      /\ applied' = applied /\ puts' = puts /\ Complete(p, ToSet(putsToAck[p]))
  BY DEF ListenAnswered, FirstAnswer, TypeOK
<1>2. removed' = removed
  BY <1>1, CompleteHistory
<1>3. Received(p) /\ answers[p][1].kind = "listening"
  BY <1>1, <1>2, ReceivedPlaces DEF Received
<1>4. Told(p)' /\ Growing(p)' /\ ListensOnce(p)'
  BY <1>1, <1>3, ToldReceived, GrowingReceived, ListensOnceReceived DEF SightInv
<1>5. AcksCovered(p)'
  BY <1>1, <1>3, AcksReceived DEF SightInv
<1>6. HeldCovered(p)'
  BY <1>1 DEF HeldCovered
<1>7. QED
  BY <1>4, <1>5, <1>6 DEF SightInv

\* The oldest outstanding write is the one that is answered.
LEMMA AnsweredCovered ==
    ASSUME TypeOK, NEW p \in Phones, AcksCovered(p), WriteAnswered(p),
           answers[p][1].ok, puts[p][1].op = "put", NEW m, m = puts[p][1].id
    PROVE  Covered(p, 1, m)
<1> PICK s, n : s = answers[p] /\ n = applied[p]
  OBVIOUS
<1>1. s \in Seq(Answers) /\ n \in Nat /\ s # <<>> /\ Head(s).kind = "ack"
  BY PhoneTypes DEF WriteAnswered, Answer, FirstAnswer
<1>2. PICK f : /\ AckIndex(s, n, f)
               /\ \A k \in 1..n : (s[f[k]].ok /\ puts[p][k].op = "put")
                                      => Covered(p, f[k], puts[p][k].id)
  BY DEF AcksCovered
<1>3. n >= 1 /\ f[1] = 1
  BY <1>1, <1>2, AckIndexTailAck
<1>4. 1 \in 1..n
  BY <1>1, <1>3
<1>5. QED
  BY <1>2, <1>3, <1>4

LEMMA SightAnswered ==
    ASSUME Step, NEW p \in Phones, SightInv(p), WriteAnswered(p)
    PROVE  SightInv(p)'
<1>0. PICK s, n : s = answers[p] /\ n = applied[p]
  OBVIOUS
<1>1. /\ TypeOK /\ s \in Seq(Answers) /\ n \in Nat /\ puts[p] \in Seq(Writes)
      /\ n <= Len(puts[p]) /\ Len(puts[p]) \in Nat /\ putsToAck[p] \in Seq(Answered)
  BY <1>0, PhoneFacts, PhoneTypes
<1>2. /\ s # <<>> /\ Head(s).kind = "ack" /\ answers'[p] = Tail(s) /\ applied'[p] = n - 1
      /\ puts'[p] = Tail(puts[p]) /\ stored' = stored /\ listened' = listened
      /\ loaded' = loaded /\ cache' = cache /\ link' = link
  BY <1>0, <1>1 DEF WriteAnswered, Answer, FirstAnswer, TypeOK
<1>3. removed' = removed
  BY CompleteHistory DEF WriteAnswered, historyVars
<1>4. Received(p) /\ s[1].kind = "ack" /\ Head(s) = s[1] /\ Len(s) \in Nat /\ Len(s) >= 1
  <2>1. Head(s) = s[1] /\ Len(s) \in Nat /\ Len(s) >= 1
    BY <1>0, <1>1, <1>2, ReceivedPlaces
  <2>2. QED
    BY <1>0, <1>2, <1>3, <2>1 DEF Received
<1>5. Told(p)' /\ Growing(p)' /\ ListensOnce(p)'
  BY <1>0, <1>1, <1>2, <1>4, ToldReceived, GrowingReceived, ListensOnceReceived DEF SightInv
<1>6. PICK f : /\ AckIndex(s, n, f)
               /\ \A k \in 1..n : (s[f[k]].ok /\ puts[p][k].op = "put")
                                      => Covered(p, f[k], puts[p][k].id)
  BY <1>0 DEF SightInv, AcksCovered
<1>7. /\ n >= 1 /\ f[1] = 1 /\ s[f[1]] = Head(s)
      /\ \E g : /\ AckIndex(Tail(s), n - 1, g)
                /\ \A k \in 1..(n - 1) :
                      g[k] = f[k + 1] - 1 /\ Tail(s)[g[k]] = s[f[k + 1]]
  <2>1. s \in Seq(Answers) /\ n \in Nat /\ s # <<>> /\ AckIndex(s, n, f) /\ Head(s).kind = "ack"
    BY <1>1, <1>2, <1>6
  <2>2. QED
    BY ZenonT(60), <2>1, AckIndexTailAck
<1>8. PICK g : /\ AckIndex(Tail(s), n - 1, g)
               /\ \A k \in 1..(n - 1) :
                     g[k] = f[k + 1] - 1 /\ Tail(s)[g[k]] = s[f[k + 1]]
  BY <1>7
<1>9. /\ puts[p] # <<>> /\ Head(puts[p]) = puts[p][1]
      /\ \A k \in 1..(n - 1) : puts'[p][k] = puts[p][k + 1]
  <2>1. puts[p] # <<>>
    BY <1>1, <1>7
  <2>2. /\ Head(puts[p]) = puts[p][1]
        /\ \A k \in 1..(Len(puts[p]) - 1) : Tail(puts[p])[k] = puts[p][k + 1]
    BY <1>1, <2>1, HeadTailProperties
  <2>3. \A k \in 1..(n - 1) : k \in 1..(Len(puts[p]) - 1)
    BY <1>1
  <2>4. QED
    BY <1>2, <2>1, <2>2, <2>3
<1>10. ASSUME NEW k \in 1..(n - 1), answers'[p][g[k]].ok, puts'[p][k].op = "put"
       PROVE  Covered(p, g[k], puts[p][k].id)'
  <2>1. PICK i, j, m : i = f[k + 1] /\ j = g[k] /\ m = puts'[p][k].id
    OBVIOUS
  <2>2. k + 1 \in 1..n /\ i \in 1..Len(s) /\ j = i - 1
    <3>1. k + 1 \in 1..n
      BY <1>1
    <3>2. f[k + 1] \in 1..Len(s)
      BY <1>6, <3>1 DEF AckIndex
    <3>3. QED
      BY <1>8, <2>1, <3>1, <3>2
  <2>3. i \in 0..Len(answers[p]) /\ j \in Nat /\ j = i - 1
    BY <1>0, <1>4, <2>2
  <2>4. m = puts[p][k + 1].id /\ puts[p][k + 1].op = "put" /\ s[f[k + 1]].ok
    BY <1>2, <1>8, <1>9, <1>10, <2>1
  <2>5. Covered(p, i, m)
    BY <1>0, <1>6, <2>1, <2>2, <2>4
  <2>6. Covered(p, j, m)'
    BY <1>0, <1>1, <1>4, <2>3, <2>5, CoveredReceived DEF SightInv
  <2>7. QED
    BY <2>1, <2>6 DEF Covered, InSight, ListenAt, DataAt
<1>11. AcksCovered(p)'
  <2>1. AckIndex(answers[p], applied[p], g)'
    BY <1>0, <1>2, <1>8 DEF AckIndex
  <2>2. QED
    BY <1>0, <1>2, <1>10, <2>1 DEF AcksCovered
<1>12. ASSUME NEW i \in 1..Len(putsToAck[p]), putsToAck[p][i].ok,
              putsToAck[p][i].write.op = "put", NEW m, m = putsToAck[p][i].write.id
       PROVE  Covered(p, 0, m)'
  BY <1>0, <1>1, <1>4, <1>12, HeldReceived DEF SightInv
<1>13. HeldCovered(p)'
  <2>1. CASE link[p] = "on"
    <3>1. putsToAck' = putsToAck
      BY <2>1 DEF WriteAnswered
    <3>2. SUFFICES ASSUME NEW i \in 1..Len(putsToAck[p]), putsToAck[p][i].ok,
                          putsToAck[p][i].write.op = "put"
                   PROVE  Covered(p, 0, putsToAck[p][i].write.id)'
      BY <3>1 DEF HeldCovered
    <3>3. PICK m : m = putsToAck[p][i].write.id
      OBVIOUS
    <3>4. Covered(p, 0, m)'
      BY <1>12, <3>2, <3>3
    <3>5. QED
      BY <3>1, <3>3, <3>4 DEF Covered, InSight, ListenAt, DataAt
  <2>2. CASE link[p] # "on"
    <3>1. PICK a, held : a = NextAnswered(p) /\ held = putsToAck[p]
      OBVIOUS
    <3>2. a \in Answered /\ a.write = puts[p][1] /\ a.ok = answers[p][1].ok
      <4>1. Head(puts[p]) \in Writes /\ Head(s) \in Answers
        BY <1>1, <1>2, <1>9, TailTyped
      <4>2. Head(s).ok \in BOOLEAN
        BY <4>1 DEF Answers
      <4>3. QED
        BY <1>0, <1>4, <1>9, <3>1, <4>1, <4>2 DEF NextAnswered, Answered
    <3>3. putsToAck'[p] = Append(held, a)
      BY <1>1, <2>2, <3>1 DEF WriteAnswered, TypeOK
    <3>4. /\ Len(putsToAck'[p]) = Len(held) + 1 /\ Len(held) \in Nat
          /\ \A i \in 1..Len(held) : putsToAck'[p][i] = held[i]
          /\ putsToAck'[p][Len(held) + 1] = a
      BY <1>1, <3>1, <3>2, <3>3, AppendProperties
    <3>5. SUFFICES ASSUME NEW i \in 1..Len(putsToAck'[p]), putsToAck'[p][i].ok,
                          putsToAck'[p][i].write.op = "put"
                   PROVE  Covered(p, 0, putsToAck[p][i].write.id)'
      BY DEF HeldCovered
    <3>6. PICK m : m = putsToAck'[p][i].write.id
      OBVIOUS
    <3>7. CASE i \in 1..Len(held)
      <4>1. Covered(p, 0, m)'
        BY <1>12, <3>1, <3>4, <3>5, <3>6, <3>7
      <4>2. QED
        BY <3>6, <4>1 DEF Covered, InSight, ListenAt, DataAt
    <3>8. CASE i = Len(held) + 1
      <4>1. m = puts[p][1].id /\ puts[p][1].op = "put" /\ answers[p][1].ok
        BY <3>2, <3>4, <3>5, <3>6, <3>8
      <4>2. PICK j, k : j = 1 /\ k = 0
        OBVIOUS
      <4>3. Covered(p, j, m)
        BY <1>1, <4>1, <4>2, AnsweredCovered DEF SightInv
      <4>4. j \in 0..Len(answers[p]) /\ k \in Nat /\ k = j - 1
        BY <1>0, <1>4, <4>2
      <4>5. Covered(p, k, m)'
        BY <1>0, <1>1, <1>4, <4>3, <4>4, CoveredReceived DEF SightInv
      <4>6. QED
        BY <3>6, <4>2, <4>5 DEF Covered, InSight, ListenAt, DataAt
    <3>9. QED
      BY <3>4, <3>7, <3>8
  <2>3. QED
    BY <2>1, <2>2
<1>14. QED
  BY <1>5, <1>11, <1>13 DEF SightInv

\* One step of any phone, seen from q.
LEMMA SightNext ==
    ASSUME Step, NEW q \in Phones, SightInv(q)
    PROVE  SightInv(q)'
<1>1. /\ TypeOK /\ TypeOK' /\ Next /\ puts \in [Phones -> Seq(Writes)] /\ puts[q] \in Seq(Writes)
      /\ applied[q] \in Nat /\ applied[q] <= Len(puts[q]) /\ Len(puts[q]) \in Nat
  BY PhoneFacts, PhoneTypes
<1>2. ASSUME stored' = stored, removed' = removed, listened'[q] = listened[q],
             loaded'[q] = loaded[q], cache'[q] = cache[q], answers'[q] = answers[q],
             applied'[q] = applied[q], putsToAck'[q] = putsToAck[q],
             puts'[q] = puts[q] \/ \E t \in Seq(Writes) : puts'[q] = puts[q] \o t,
             link'[q] = link[q] \/ (link[q] = "off" /\ link'[q] = "waiting")
      PROVE  SightInv(q)'
  <2>1. \A k \in 1..applied[q] : puts'[q][k] = puts[q][k]
    <3>1. \A k \in 1..applied[q] : k \in 1..Len(puts[q])
      BY <1>1
    <3>2. ASSUME NEW t \in Seq(Writes), puts'[q] = puts[q] \o t
          PROVE  \A k \in 1..Len(puts[q]) : puts'[q][k] = puts[q][k]
      BY <1>1, <3>2, ConcatProperties
    <3>3. QED
      BY <1>2, <3>1, <3>2
  <2>2. QED
    BY <1>2, <2>1, SightUntouched
<1>3. ASSUME NEW p \in Phones, NEW m \in Messages, Send(p, m) PROVE SightInv(q)'
  <2>1. PICK w : w = [op |-> "put", id |-> m]
    OBVIOUS
  <2>2. w \in Writes /\ puts' = [puts EXCEPT ![p] = Append(@, w)]
    BY <1>3, <2>1 DEF Send, Writes
  <2>3. <<w>> \in Seq(Writes) /\ Append(puts[q], w) = puts[q] \o <<w>>
    BY <1>1, <2>2, AppendIsConcat
  <2>4. puts'[q] = puts[q] \/ puts'[q] = puts[q] \o <<w>>
    BY <1>1, <2>2, <2>3
  <2>5. /\ stored' = stored /\ removed' = removed /\ listened' = listened /\ loaded' = loaded
        /\ cache' = cache /\ answers' = answers /\ applied' = applied
        /\ putsToAck' = putsToAck /\ link' = link
    BY <1>3 DEF Send, historyVars
  <2>6. QED
    BY <1>2, <2>3, <2>4, <2>5
<1>4. ASSUME NEW p \in Phones, NEW m \in Messages, LongPress(p, m) PROVE SightInv(q)'
  BY <1>2, <1>4 DEF LongPress, historyVars
<1>5. ASSUME NEW p \in Phones, Delete(p) PROVE SightInv(q)'
  <2>1. Removals(p) \in Seq(Writes)
    BY <1>1, RemovalsTyped
  <2>2. puts'[q] = puts[q] \/ puts'[q] = puts[q] \o Removals(p)
    BY <1>1, <1>5 DEF Delete, Removals
  <2>3. /\ stored' = stored /\ removed' = removed /\ listened' = listened /\ loaded' = loaded
        /\ cache' = cache /\ answers' = answers /\ applied' = applied
        /\ putsToAck' = putsToAck /\ link' = link
    BY <1>5, Zenon DEF Delete, historyVars
  <2>4. QED
    BY <1>2, <2>1, <2>2, <2>3
<1>6. ASSUME NEW p \in Phones, Connect(p) PROVE SightInv(q)'
  BY <1>1, <1>2, <1>6 DEF Connect, historyVars, TypeOK
<1>7. ASSUME NEW p \in Phones, Lose(p) \/ Kill(p) PROVE SightInv(q)'
  <2>1. CASE q = p
    BY <1>1, <1>7, <2>1, SightLost
  <2>2. CASE q # p
    BY <1>1, <1>2, <1>7, <2>2 DEF Lose, Kill, Disconnected, historyVars, TypeOK
  <2>3. QED
    BY <2>1, <2>2
<1>8. ASSUME NEW p \in Phones, ServerListen(p) PROVE SightInv(q)'
  <2>1. CASE q = p
    BY <1>1, <1>8, <2>1, SightListen
  <2>2. CASE q # p
    BY <1>1, <1>2, <1>8, <2>2 DEF ServerListen, historyVars, TypeOK
  <2>3. QED
    BY <2>1, <2>2
<1>9. ASSUME NEW p \in Phones, NEW ok \in BOOLEAN, ServerWrite(p, ok) PROVE SightInv(q)'
  BY <1>1, <1>9, SightWrite
<1>10. ASSUME NEW p \in Phones, DataArrives(p) PROVE SightInv(q)'
  <2>1. CASE q = p
    BY <1>1, <1>10, <2>1, SightData
  <2>2. CASE q # p
    BY <1>1, <1>2, <1>10, <2>2 DEF DataArrives, historyVars, TypeOK
  <2>3. QED
    BY <2>1, <2>2
<1>11. ASSUME NEW p \in Phones, ListenAnswered(p) PROVE SightInv(q)'
  <2>1. CASE q = p
    BY <1>1, <1>11, <2>1, SightListening
  <2>2. CASE q # p
    <3>1. removed' = removed
      BY <1>11, CompleteHistory DEF ListenAnswered
    <3>2. QED
      BY <1>1, <1>2, <1>11, <2>2, <3>1 DEF ListenAnswered, TypeOK
  <2>3. QED
    BY <2>1, <2>2
<1>12. ASSUME NEW p \in Phones, WriteAnswered(p) PROVE SightInv(q)'
  <2>1. CASE q = p
    BY <1>12, <2>1, SightAnswered
  <2>2. CASE q # p
    <3>1. removed' = removed
      BY <1>12, CompleteHistory DEF WriteAnswered, historyVars
    <3>2. /\ stored' = stored /\ listened' = listened /\ loaded' = loaded /\ cache' = cache
          /\ link' = link /\ puts'[q] = puts[q] /\ applied'[q] = applied[q]
          /\ answers'[q] = answers[q]
      BY <1>1, <1>12, <2>2 DEF WriteAnswered, Answer, TypeOK
    <3>3. putsToAck'[q] = putsToAck[q]
      BY <1>1, <1>12, <2>2 DEF WriteAnswered, TypeOK
    <3>4. QED
      BY <1>2, <3>1, <3>2, <3>3
  <2>3. QED
    BY <2>1, <2>2
<1>13. QED
  BY <1>1, <1>3, <1>4, <1>5, <1>6, <1>7, <1>8, <1>9, <1>10, <1>11, <1>12 DEF Next

SightAlways == DeliveryInv /\ HeldWaits /\ \A p \in Phones : SightInv(p)

LEMMA SightInvariance == Spec => []SightAlways
<1>1. Init => SightAlways
  BY InvInit, HeldWaitsInit, SightInit DEF SightAlways
<1>2. SightAlways /\ [Next]_vars => SightAlways'
  <2> SUFFICES ASSUME SightAlways, [Next]_vars PROVE SightAlways'
    OBVIOUS
  <2>1. DeliveryInv' /\ HeldWaits'
    BY InvNext, HeldWaitsNext DEF SightAlways
  <2>2. CASE Next
    <3>1. Step
      BY <2>1, <2>2 DEF Step, SightAlways, DeliveryInv
    <3>2. QED
      BY <2>1, <3>1, SightNext DEF SightAlways
  <2>3. CASE UNCHANGED vars
    <3>1. /\ stored' = stored /\ removed' = removed /\ listened' = listened /\ loaded' = loaded
          /\ cache' = cache /\ answers' = answers /\ applied' = applied /\ puts' = puts
          /\ putsToAck' = putsToAck /\ link' = link
      BY <2>3 DEF vars, phoneVars, historyVars
    <3>2. QED
      BY <2>1, <3>1, SightUntouched DEF SightAlways
  <2>4. QED
    BY <2>2, <2>3
<1>3. QED
  BY <1>1, <1>2, PTL DEF Spec

(***************************************************************************)
(* A phone with a connection, nothing to receive and nothing to send shows *)
(* what the database has (RestingPhonesAgree): no change that happened     *)
(* while it was away, or before its listen was handled, is lost.           *)
(***************************************************************************)
THEOREM PhonesAgreeAtRest == Spec => []RestingPhonesAgree
<1>1. ASSUME SightAlways PROVE RestingPhonesAgree
  <2>1. SUFFICES ASSUME NEW p \in Phones, link[p] = "on", answers[p] = <<>>, puts[p] = <<>>
                 PROVE  Shown(p) = stored
    BY DEF RestingPhonesAgree
  <2>2. listened[p] /\ Len(answers[p]) = 0
    BY <1>1, <2>1 DEF SightAlways, SightInv, ListensOnce
  <2>3. loaded[p] /\ cache[p] = stored
    BY <1>1, <2>2 DEF SightAlways, SightInv, Told
  <2>4. putsToAck[p] = <<>>
    BY <1>1, <2>1 DEF SightAlways, HeldWaits
  <2>5. Len(Pending(p)) = 0
    <3>1. TypeOK
      BY <1>1 DEF SightAlways, DeliveryInv
    <3>2. PICK c : c = Pending(p)
      OBVIOUS
    <3>3. Len(c) = Len(putsToAck[p]) + Len(puts[p])
      BY <3>1, <3>2, PendingEntries
    <3>4. QED
      BY <2>1, <2>4, <3>2, <3>3
  <2>6. stored \subseteq Messages
    BY <1>1 DEF SightAlways, DeliveryInv, TypeOK
  <2>7. Client(p)!View = stored
    BY <2>3, <2>5, <2>6 DEF Client!View
  <2>8. QED
    BY <2>3, <2>7 DEF Shown
<1>2. SightAlways => RestingPhonesAgree
  BY <1>1
<1>3. QED
  BY <1>2, SightInvariance, PTL

----------------------------------------------------------------------------
(* A message that is shown is not lost when its write is answered. *)

\* m is shown when the writes c are laid over the data S.
Visible(c, S, m) ==
    \/ m \in S /\ \A i \in 1..Len(c) : c[i].id # m
    \/ \E i \in 1..Len(c) :
          /\ c[i].id = m /\ c[i].op = "put"
          /\ \A j \in (i + 1)..Len(c) : c[j].id # m

\* Its put is among the first n writes of c, and nothing else about m in d.
PutDropped(c, n, d, m) ==
    /\ \E i \in 1..n : c[i].id = m /\ c[i].op = "put"
    /\ \A j \in 1..Len(d) : d[j].id # m

LEMMA ShownVisible ==
    ASSUME NEW p \in Phones, NEW m \in Messages
    PROVE  m \in Shown(p) <=> loaded[p] /\ Visible(Pending(p), cache[p], m)
<1>1. m \in Client(p)!View <=> Visible(Pending(p), cache[p], m)
  BY DEF Client!View, Client!LastWrite, Visible
<1>2. QED
  BY <1>1 DEF Shown

LEMMA ShownVisibleNext ==
    ASSUME NEW p \in Phones, NEW m \in Messages, NEW d, d = Pending(p)', loaded'[p],
           Visible(d, cache'[p], m)
    PROVE  m \in Shown(p)'
<1>1. m \in Client(p)!View' <=> Visible(d, cache'[p], m)
  BY DEF Client!View, Client!LastWrite, Visible
<1>2. QED
  BY <1>1 DEF Shown

\* The writes that are answered leave the queue from its front.
LEMMA VisibleDrop ==
    ASSUME NEW c \in Seq(Writes), NEW n \in 0..Len(c), NEW d, d = SubSeq(c, n + 1, Len(c)),
           NEW S, NEW m, Visible(c, S, m)
    PROVE  \/ Visible(d, S, m)
           \/ PutDropped(c, n, d, m)
<1>1. Len(c) \in Nat /\ \A i \in 1..Len(c) : c[i] \in Writes
  BY ElementOfSeq
<1>2. /\ Len(d) = Len(c) - n
      /\ \A j \in 1..Len(d) : n + j \in 1..Len(c) /\ d[j] = c[n + j]
  <2>1. /\ \A i \in (n + 1)..Len(c) : c[i] \in Writes
        /\ n + 1 \in Int /\ Len(c) \in Int
    BY <1>1
  <2>2. /\ Len(d) = IF n + 1 <= Len(c) THEN Len(c) - (n + 1) + 1 ELSE 0
        /\ \A i \in 1..(Len(c) - (n + 1) + 1) : d[i] = c[(n + 1) + i - 1]
    BY <2>1, SubSeqProperties
  <2>3. Len(d) = Len(c) - n
    BY <1>1, <2>2
  <2>4. ASSUME NEW j \in 1..Len(d) PROVE n + j \in 1..Len(c) /\ d[j] = c[n + j]
    <3>1. j \in 1..(Len(c) - (n + 1) + 1) /\ (n + 1) + j - 1 = n + j /\ n + j \in 1..Len(c)
      BY <1>1, <2>3
    <3>2. QED
      BY <2>2, <3>1
  <2>5. QED
    BY <2>3, <2>4
<1>3. CASE m \in S /\ \A i \in 1..Len(c) : c[i].id # m
  BY <1>2, <1>3 DEF Visible
<1>4. ASSUME NEW i \in 1..Len(c), c[i].id = m, c[i].op = "put",
             \A j \in (i + 1)..Len(c) : c[j].id # m
      PROVE  \/ Visible(d, S, m)
             \/ PutDropped(c, n, d, m)
  <2>1. CASE i <= n
    <3>1. i \in 1..n
      BY <1>1, <2>1
    <3>2. ASSUME NEW j \in 1..Len(d) PROVE d[j].id # m
      <4>1. n + j \in (i + 1)..Len(c)
        BY <1>1, <1>2, <2>1
      <4>2. QED
        BY <1>2, <1>4, <4>1
    <3>3. QED
      BY <1>4, <3>1, <3>2 DEF PutDropped
  <2>2. CASE i > n
    <3>1. PICK k : k = i - n
      OBVIOUS
    <3>2. k \in 1..Len(d) /\ i = n + k
      BY <1>1, <1>2, <2>2, <3>1
    <3>3. d[k] = c[i]
      BY <1>2, <3>2
    <3>4. ASSUME NEW j \in (k + 1)..Len(d) PROVE d[j].id # m
      <4>1. j \in 1..Len(d) /\ n + j \in (i + 1)..Len(c)
        BY <1>1, <1>2, <3>2
      <4>2. QED
        BY <1>2, <1>4, <4>1
    <3>5. QED
      BY <1>4, <3>2, <3>3, <3>4 DEF Visible
  <2>3. QED
    BY <1>1, <2>1, <2>2
<1>5. QED
  BY <1>3, <1>4 DEF Visible

\* A step that touches neither the data nor the writes of q.
LEMMA EchoUntouched ==
    ASSUME NEW q \in Phones, loaded'[q] = loaded[q], cache'[q] = cache[q],
           puts'[q] = puts[q], putsToAck'[q] = putsToAck[q]
    PROVE  Shown(q)' = Shown(q)
<1>1. Pending(q)' = Pending(q)
  BY DEF Pending
<1>2. Client(q)!View' = Client(q)!View
  BY <1>1 DEF Client!View, Client!LastWrite
<1>3. QED
  BY <1>2 DEF Shown

\* One more message of the phone's own.
LEMMA VisibleSent ==
    ASSUME NEW d \in Seq(Writes), NEW c, NEW w, w.op = "put", Extends(d, c, <<w>>),
           NEW S, NEW m, Visible(c, S, m)
    PROVE  Visible(d, S, m)
<1>1. /\ Len(c) \in Nat /\ Len(d) = Len(c) + 1 /\ c = SubSeq(d, 1, Len(c))
      /\ d[Len(d)] = w
  <2>1. Len(<<w>>) = 1 /\ <<w>>[1] = w
    OBVIOUS
  <2>2. Len(c) \in Nat /\ Len(d) = Len(c) + 1 /\ c = SubSeq(d, 1, Len(c))
    BY <2>1 DEF Extends
  <2>3. Len(d) \in (Len(c) + 1)..Len(d) /\ Len(d) - Len(c) = 1
    BY <2>2
  <2>4. QED
    BY <2>1, <2>2, <2>3 DEF Extends
<1>2. \A i \in 1..Len(c) : d[i] = c[i]
  <2>1. PICK n : n = Len(c)
    OBVIOUS
  <2>2. \A i \in 1..Len(d) : d[i] \in Writes
    BY ElementOfSeq
  <2>3. \A i \in 1..n : d[i] \in Writes
    BY <1>1, <2>1, <2>2
  <2>4. n \in Int /\ 1 \in Int
    BY <1>1, <2>1
  <2>5. \A i \in 1..(n - 1 + 1) : SubSeq(d, 1, n)[i] = d[1 + i - 1]
    BY <2>3, <2>4, SubSeqProperties
  <2>6. ASSUME NEW i \in 1..n PROVE c[i] = d[i]
    <3>1. i \in 1..(n - 1 + 1) /\ 1 + i - 1 = i
      BY <1>1, <2>1
    <3>2. QED
      BY <1>1, <2>1, <2>5, <3>1
  <2>7. QED
    BY <2>1, <2>6
<1>3. CASE w.id = m
  <2>1. Len(d) \in 1..Len(d) /\ \A j \in (Len(d) + 1)..Len(d) : d[j].id # m
    BY <1>1
  <2>2. QED
    BY <1>1, <1>3, <2>1 DEF Visible
<1>4. CASE w.id # m
  <2>1. \A j \in 1..Len(d) : j \in 1..Len(c) \/ j = Len(d)
    BY <1>1
  <2>2. CASE m \in S /\ \A i \in 1..Len(c) : c[i].id # m
    BY <1>1, <1>2, <1>4, <2>1, <2>2 DEF Visible
  <2>3. ASSUME NEW i \in 1..Len(c), c[i].id = m, c[i].op = "put",
               \A j \in (i + 1)..Len(c) : c[j].id # m
        PROVE  Visible(d, S, m)
    <3>1. i \in 1..Len(d) /\ d[i] = c[i]
      BY <1>1, <1>2
    <3>2. ASSUME NEW j \in (i + 1)..Len(d) PROVE d[j].id # m
      <4>1. j \in 1..Len(d) /\ (j \in 1..Len(c) => j \in (i + 1)..Len(c))
        BY <1>1
      <4>2. QED
        BY <1>1, <1>2, <1>4, <2>1, <2>3, <4>1
    <3>3. QED
      BY <2>3, <3>1, <3>2 DEF Visible
  <2>4. QED
    BY <2>2, <2>3 DEF Visible
<1>5. QED
  BY <1>3, <1>4

LEMMA EchoSent ==
    ASSUME Step, NEW p \in Phones, NEW x \in Messages, Send(p, x),
           NEW q \in Phones, NEW m \in Messages, m \in Shown(q)
    PROVE  m \in Shown(q)'
<1>1. /\ TypeOK /\ puts[q] \in Seq(Writes) /\ putsToAck[q] \in Seq(Answered)
      /\ puts \in [Phones -> Seq(Writes)]
  BY PhoneFacts, PhoneTypes
<1>2. loaded' = loaded /\ cache' = cache /\ putsToAck' = putsToAck
  BY DEF Send
<1>3. CASE q # p
  BY <1>1, <1>2, <1>3, EchoUntouched DEF Send
<1>4. CASE q = p
  <2>1. PICK w : w = [op |-> "put", id |-> x]
    OBVIOUS
  <2>2. PICK held, sent, t : held = putsToAck[q] /\ sent = puts[q] /\ t = <<w>>
    OBVIOUS
  <2>3. /\ w \in Writes /\ w.op = "put" /\ t \in Seq(Writes)
        /\ held \in Seq(Answered) /\ sent \in Seq(Writes)
    BY <1>1, <2>1, <2>2 DEF Writes
  <2>4. puts'[q] = sent \o t
    <3>1. puts'[q] = Append(sent, w)
      BY <1>1, <1>4, <2>1, <2>2 DEF Send
    <3>2. QED
      BY <2>2, <2>3, <3>1, AppendIsConcat
  <2>5. PICK c, d : c = Pending(q) /\ d = Pending(q)'
    OBVIOUS
  <2>6. c = Laid(held, sent) /\ d = Laid(held, sent \o t)
    BY <1>2, <2>2, <2>4, <2>5 DEF Pending, Laid
  <2>7. Extends(d, c, t)
    BY <2>3, <2>6, LaidMore
  <2>8. d \in Seq(Writes)
    <3>1. sent \o t \in Seq(Writes)
      BY <2>3, ConcatProperties
    <3>2. QED
      BY <2>3, <2>6, <3>1, HeldThenSent
  <2>9. loaded[q] /\ Visible(c, cache[q], m)
    BY <2>5, ShownVisible
  <2>10. Visible(d, cache[q], m)
    BY <2>2, <2>3, <2>7, <2>8, <2>9, VisibleSent
  <2>11. QED
    BY <1>2, <2>5, <2>9, <2>10, ShownVisibleNext
<1>5. QED
  BY <1>3, <1>4

\* New data: only what was removed is missing from them.
LEMMA EchoData ==
    ASSUME Step, NEW p \in Phones, DataArrives(p), SightInv(p), NEW m \in Messages, m \in Shown(p)
    PROVE  m \in Shown(p)' \/ m \in removed'
<1>1. TypeOK /\ answers[p] # <<>> /\ Head(answers[p]).kind = "data" /\ removed' = removed
  BY PhoneFacts DEF DataArrives, FirstAnswer, historyVars
<1>2. /\ loaded'[p] = TRUE /\ cache'[p] = answers[p][1].snap /\ puts' = puts
      /\ putsToAck' = putsToAck /\ Len(answers[p]) \in Nat /\ Len(answers[p]) >= 1
      /\ answers[p][1].kind = "data"
  <2>1. answers[p] \in Seq(Answers)
    BY <1>1, PhoneTypes
  <2>2. Head(answers[p]) = answers[p][1] /\ Len(answers[p]) \in Nat /\ Len(answers[p]) >= 1
    BY <1>1, <2>1, TailTyped
  <2>3. QED
    BY <1>1, <2>2 DEF DataArrives, TypeOK
<1>3. cache[p] \subseteq cache'[p] \cup removed
  BY <1>2 DEF SightInv, Growing, DataAt
<1>4. PICK c : c = Pending(p)
  OBVIOUS
<1>5. c = Pending(p)'
  BY <1>2, <1>4 DEF Pending
<1>6. Visible(c, cache[p], m)
  BY <1>4, ShownVisible
<1>7. Visible(c, cache'[p], m) \/ m \in removed
  BY <1>3, <1>6 DEF Visible
<1>8. QED
  BY <1>1, <1>2, <1>5, <1>7, ShownVisibleNext

\* The first answer is to the oldest write, which its connection has handled.
LEMMA EchoAnswered ==
    ASSUME Step, HeldWaits, NEW p \in Phones, WriteAnswered(p), SightInv(p),
           NEW m \in Messages, m \in Shown(p)
    PROVE  m \in Shown(p)' \/ m \in removed' \cup refused'
<1>1. /\ TypeOK /\ loaded' = loaded /\ cache' = cache /\ answers[p] # <<>>
      /\ Head(answers[p]).kind = "ack" /\ answers[p] \in Seq(Answers)
  BY PhoneFacts, PhoneTypes DEF WriteAnswered, Answer, FirstAnswer
<1>2. PICK c, d : c = Pending(p) /\ d = Pending(p)'
  OBVIOUS
<1>3. loaded[p] /\ Visible(c, cache[p], m)
  BY <1>2, ShownVisible
<1>4. ASSUME Visible(d, cache[p], m) PROVE m \in Shown(p)'
  BY <1>1, <1>2, <1>3, <1>4, ShownVisibleNext
<1>5. CASE link[p] # "on"
  BY <1>2, <1>3, <1>4, <1>5, AnsweredQueue
<1>6. CASE link[p] = "on"
  <2>1. PICK n : n = 1
    OBVIOUS
  <2>2. /\ c \in Seq(Writes) /\ n \in 1..Len(c) /\ Len(c) \in Nat
        /\ c[1] = puts[p][1] /\ d = SubSeq(c, n + 1, Len(c))
    BY <1>2, <1>6, <2>1, AnsweredQueue
  <2>3. \/ Visible(d, cache[p], m)
        \/ PutDropped(c, n, d, m)
    <3>1. PICK S : S = cache[p]
      OBVIOUS
    <3>2. n \in 0..Len(c) /\ Visible(c, S, m)
      BY <1>3, <2>1, <2>2, <3>1
    <3>3. \/ Visible(d, S, m)
          \/ PutDropped(c, n, d, m)
      BY <2>2, <3>2, VisibleDrop
    <3>4. QED
      BY <3>1, <3>3
  <2>4. CASE PutDropped(c, n, d, m)
    <3>0. /\ puts[p][1].id = m /\ puts[p][1].op = "put"
          /\ m \in cache[p] => Visible(d, cache[p], m)
      BY <2>1, <2>2, <2>4 DEF PutDropped, Visible
    <3>1. CASE answers[p][1].ok
      <4>1. Covered(p, 1, m)
        BY <1>1, <3>0, <3>1, AnsweredCovered DEF SightInv
      <4>2. listened[p] /\ \A l \in 2..Len(answers[p]) : ~ListenAt(p, l)
        <5>1. \A l \in 2..Len(answers[p]) : l \in 1..Len(answers[p])
          BY <1>1, TailTyped
        <5>2. QED
          BY <1>6, <5>1 DEF SightInv, ListensOnce
      <4>3. InSight(p, 1, m)
        BY <4>1, <4>2 DEF Covered
      <4>4. m \in removed \cup cache[p]
        BY <4>3 DEF InSight
      <4>5. removed' = removed
        BY CompleteHistory DEF WriteAnswered, historyVars
      <4>6. QED
        BY <1>4, <3>0, <4>4, <4>5
    <3>2. CASE ~answers[p][1].ok
      <4>1. Head(puts[p]) = puts[p][1] /\ Head(answers[p]) = answers[p][1]
        BY <1>1, <2>2, TailTyped, FirstAck
      <4>2. ~NextAnswered(p).ok /\ NextAnswered(p).write = puts[p][1]
        BY <3>2, <4>1 DEF NextAnswered
      <4>3. Complete(p, {NextAnswered(p)})
        BY <1>6 DEF WriteAnswered
      <4>4. m \in refused'
        BY <3>0, <4>2, <4>3 DEF Complete
      <4>5. QED
        BY <4>4
    <3>3. QED
      BY <3>1, <3>2
  <2>5. QED
    BY <1>4, <2>1, <2>2, <2>3, <2>4
<1>7. QED
  BY <1>5, <1>6

\* The held writes complete with the answer to the listen.
LEMMA EchoReleased ==
    ASSUME Step, NEW p \in Phones, ListenAnswered(p), SightInv(p),
           NEW m \in Messages, m \in Shown(p)
    PROVE  m \in Shown(p)' \/ m \in removed' \cup refused'
<1>1. /\ TypeOK /\ loaded' = loaded /\ cache' = cache /\ puts' = puts
      /\ answers[p] # <<>> /\ Head(answers[p]).kind = "listening" /\ answers[p] \in Seq(Answers)
      /\ putsToAck'[p] = <<>>
  BY PhoneFacts, PhoneTypes DEF ListenAnswered, FirstAnswer, TypeOK
<1>2. PICK held, sent : held = putsToAck[p] /\ sent = puts[p]
  OBVIOUS
<1>3. held \in Seq(Answered) /\ sent \in Seq(Writes)
  BY <1>1, <1>2, PhoneTypes
<1>4. PICK c, d : c = Pending(p) /\ d = Pending(p)'
  OBVIOUS
<1>5. c = Laid(held, sent) /\ d = Laid(<<>>, sent)
  BY <1>1, <1>2, <1>4 DEF Pending, Laid
<1>6. PICK n : n = Len(held)
  OBVIOUS
<1>7. /\ c \in Seq(Writes) /\ n \in 0..Len(c) /\ d = SubSeq(c, n + 1, Len(c))
      /\ \A i \in 1..n : c[i] = held[i].write
  <2>1. c \in Seq(Writes) /\ \A i \in 1..n : c[i] = held[i].write
    BY <1>3, <1>5, <1>6, HeldThenSent
  <2>2. sent = SubSeq(c, n + 1, Len(c)) /\ n \in 0..Len(c)
    BY <1>3, <1>5, <1>6, LaidReleased
  <2>3. d = sent
    BY <1>3, <1>5, LaidNothing
  <2>4. QED
    BY <2>1, <2>2, <2>3
<1>8. loaded[p] /\ Visible(c, cache[p], m)
  BY <1>4, ShownVisible
<1>9. \/ Visible(d, cache[p], m)
      \/ PutDropped(c, n, d, m)
  <2>1. PICK S : S = cache[p]
    OBVIOUS
  <2>2. \/ Visible(d, S, m)
        \/ PutDropped(c, n, d, m)
    BY <1>7, <1>8, <2>1, VisibleDrop
  <2>3. QED
    BY <2>1, <2>2
<1>10. ASSUME Visible(d, cache[p], m) PROVE m \in Shown(p)'
  BY <1>1, <1>4, <1>8, <1>10, ShownVisibleNext
<1>11. ASSUME NEW i \in 1..n, c[i].id = m, c[i].op = "put", \A j \in 1..Len(d) : d[j].id # m
       PROVE  m \in Shown(p)' \/ m \in removed' \cup refused'
  <2>1. i \in 1..Len(putsToAck[p]) /\ held[i].write.id = m /\ held[i].write.op = "put"
    BY <1>2, <1>6, <1>7, <1>11
  <2>2. CASE held[i].ok
    <3>1. Covered(p, 0, m)
      BY <1>2, <2>1, <2>2 DEF SightInv, HeldCovered
    <3>2. 1 \in 1..Len(answers[p]) /\ ListenAt(p, 1)
      BY <1>1, TailTyped DEF ListenAt
    <3>3. InSight(p, 1, m)
      BY <3>1, <3>2 DEF Covered
    <3>4. m \in removed \cup cache[p]
      BY <3>3 DEF InSight
    <3>5. removed' = removed
      BY CompleteHistory DEF ListenAnswered
    <3>6. QED
      BY <1>10, <1>11, <3>4, <3>5 DEF Visible
  <2>3. CASE ~held[i].ok
    <3>1. held[i] \in ToSet(putsToAck[p])
      BY <1>2, <1>3, <2>1 DEF ToSet
    <3>2. m \in refused'
      BY <2>1, <2>3, <3>1 DEF ListenAnswered, Complete
    <3>3. QED
      BY <3>2
  <2>4. QED
    BY <2>2, <2>3
<1>12. QED
  BY <1>9, <1>10, <1>11 DEF PutDropped

\* One step of any phone, seen from q.
LEMMA EchoNext ==
    ASSUME Step, HeldWaits, NEW q \in Phones, SightInv(q), NEW m \in Messages, m \in Shown(q)
    PROVE  \/ m \in Shown(q)'
           \/ m \in removed' \cup refused'
           \/ Delete(q)
           \/ Kill(q)
<1>1. TypeOK /\ Next
  BY PhoneFacts
<1>2. ASSUME loaded'[q] = loaded[q], cache'[q] = cache[q], puts'[q] = puts[q],
             putsToAck'[q] = putsToAck[q]
      PROVE  m \in Shown(q)'
  BY <1>2, EchoUntouched
<1>3. ASSUME NEW p \in Phones, NEW x \in Messages, Send(p, x) PROVE m \in Shown(q)'
  BY <1>3, EchoSent
<1>4. ASSUME NEW p \in Phones, NEW x \in Messages, LongPress(p, x) PROVE m \in Shown(q)'
  BY <1>2, <1>4 DEF LongPress
<1>5. ASSUME NEW p \in Phones, Delete(p) \/ Kill(p), p # q PROVE m \in Shown(q)'
  BY <1>1, <1>2, <1>5 DEF Delete, Kill, TypeOK
<1>6. ASSUME NEW p \in Phones, Connect(p) \/ Lose(p) \/ ServerListen(p) PROVE m \in Shown(q)'
  BY <1>2, <1>6 DEF Connect, Lose, ServerListen
<1>7. ASSUME NEW p \in Phones, NEW ok \in BOOLEAN, ServerWrite(p, ok) PROVE m \in Shown(q)'
  BY <1>2, <1>7 DEF ServerWrite
<1>8. ASSUME NEW p \in Phones, DataArrives(p) PROVE m \in Shown(q)' \/ m \in removed'
  <2>1. CASE q = p
    BY <1>8, <2>1, EchoData
  <2>2. CASE q # p
    BY <1>1, <1>2, <1>8, <2>2 DEF DataArrives, TypeOK
  <2>3. QED
    BY <2>1, <2>2
<1>9. ASSUME NEW p \in Phones, ListenAnswered(p) PROVE m \in Shown(q)' \/ m \in removed' \cup refused'
  <2>1. CASE q = p
    BY <1>9, <2>1, EchoReleased
  <2>2. CASE q # p
    BY <1>1, <1>2, <1>9, <2>2 DEF ListenAnswered, TypeOK
  <2>3. QED
    BY <2>1, <2>2
<1>10. ASSUME NEW p \in Phones, WriteAnswered(p) PROVE m \in Shown(q)' \/ m \in removed' \cup refused'
  <2>1. CASE q = p
    BY <1>10, <2>1, EchoAnswered
  <2>2. CASE q # p
    <3>1. loaded' = loaded /\ cache' = cache /\ puts'[q] = puts[q]
      BY <1>1, <1>10, <2>2 DEF WriteAnswered, Answer, TypeOK
    <3>2. putsToAck'[q] = putsToAck[q]
      BY <1>1, <1>10, <2>2 DEF WriteAnswered, TypeOK
    <3>3. QED
      BY <1>2, <3>1, <3>2
  <2>3. QED
    BY <2>1, <2>2
<1>11. QED
  BY <1>1, <1>3, <1>4, <1>5, <1>6, <1>7, <1>8, <1>9, <1>10 DEF Next

(***************************************************************************)
(* A message that a phone shows leaves its snapshots only when somebody    *)
(* removes it, the server refuses it or the process ends (EchoStays): by   *)
(* the time its own write is answered and dropped, the data received hold  *)
(* it, also when the answer was lost and the write sent again.             *)
(***************************************************************************)
THEOREM SentStaysShown == Spec => EchoStays
<1>1. ASSUME SightAlways, SightAlways', [Next]_vars, NEW p \in Phones, NEW m \in Views[p]
      PROVE  \/ m \in Views'[p]
             \/ m \in removed' \cup refused'
             \/ Delete(p)
             \/ Kill(p)
             \/ UNCHANGED vars
  <2>1. m \in Shown(p) /\ Views'[p] = Shown(p)'
    BY <1>1 DEF Views
  <2>2. m \in Messages
    BY <2>1 DEF Shown, Client!View
  <2>3. CASE UNCHANGED vars
    BY <2>3
  <2>4. CASE Next
    <3>1. Step /\ HeldWaits /\ SightInv(p)
      BY <1>1, <2>4 DEF Step, SightAlways, DeliveryInv
    <3>2. QED
      BY <2>1, <2>2, <3>1, EchoNext
  <2>5. QED
    BY <1>1, <2>3, <2>4
<1>2. SightAlways /\ SightAlways' /\ [Next]_vars => [ShownUntilLost]_vars
  BY <1>1 DEF ShownUntilLost
<1>3. QED
  BY <1>2, SightInvariance, PTL DEF Spec, EchoStays

=============================================================================
