--------------------------- MODULE DeliveryProofs ---------------------------
(***************************************************************************)
(* Proofs about Delivery.  All of them come from one inductive invariant,  *)
(* DeliveryInv.  Its heart is AcksMatch: the answers on their way to a     *)
(* phone belong, in order, to the oldest of its outstanding writes, and    *)
(* what they report has happened in the database.  The rest of it says     *)
(* that a message is sent before its removal (PutsFirst) and that phones   *)
(* only speak of messages that exist (KnownIds).                           *)
(***************************************************************************)
EXTENDS Delivery, SequenceTheorems, TLAPS

\* m exists for p: it is p's own, or it has been in the database.
Known(p, m) == author[m] = p \/ arrivals[m] >= 1

\* What an accepted write of p has led to, for good.
Gone(p, m) == m \in stored => author[m] # p /\ arrivals[m] > 1

Happened(p, w) == IF w.op = "put" THEN w.id \in stored \cup removed ELSE Gone(p, w.id)

\* f lists the positions of the acknowledgements in s, n of them.
AckIndex(s, n, f) ==
    /\ f \in [1..n -> 1..Len(s)]
    /\ \A k \in 1..n : s[f[k]].kind = "ack"
    /\ \A i \in 1..Len(s) : s[i].kind = "ack" => \E k \in 1..n : f[k] = i
    /\ \A j, k \in 1..n : j < k => f[j] < f[k]

\* The k-th answer under way belongs to the k-th outstanding write.
AcksMatch(p) ==
    \E f : /\ AckIndex(answers[p], applied[p], f)
           /\ \A k \in 1..applied[p] : answers[p][f[k]].ok => Happened(p, puts[p][k])

\* So it is with answers that are held back, and with completions that have run.
HeldHappened(p) ==
    /\ \A i \in 1..Len(putsToAck[p]) :
          putsToAck[p][i].ok => Happened(p, putsToAck[p][i].write)
    /\ \A m \in deleted[p] : Gone(p, m)

\* A phone sends its own messages only, and none after its removal.
PutsFirst(p) ==
    /\ \A j \in 1..Len(puts[p]) : puts[p][j].op = "put" =>
          /\ author[puts[p][j].id] = p
          /\ puts[p][j].id \notin deleted[p]
          /\ \A i \in 1..Len(putsToAck[p]) :
                putsToAck[p][i].write # [op |-> "remove", id |-> puts[p][j].id]
          /\ \A i \in 1..(j - 1) : puts[p][i] # [op |-> "remove", id |-> puts[p][j].id]
    /\ \A i \in 1..Len(putsToAck[p]) : putsToAck[p][i].write.op = "put" =>
          author[putsToAck[p][i].write.id] = p

\* A phone speaks of no message that does not exist.
KnownIds(p) ==
    /\ \A m \in cache[p] : arrivals[m] >= 1
    /\ \A i \in 1..Len(answers[p]) : \A m \in answers[p][i].snap : arrivals[m] >= 1
    /\ \A i \in 1..Len(deletedMessageIds[p]) : Known(p, deletedMessageIds[p][i])
    /\ \A i \in 1..Len(puts[p]) : Known(p, puts[p][i].id)
    /\ \A i \in 1..Len(putsToAck[p]) : Known(p, putsToAck[p][i].write.id)
    /\ \A m \in deleted[p] : Known(p, m)

PhoneInv(p) == AcksMatch(p) /\ HeldHappened(p) /\ PutsFirst(p) /\ KnownIds(p)

ServerInv ==
    /\ \A m \in Messages : arrivals[m] >= 1 => author[m] # Nobody
    /\ \A m \in stored : arrivals[m] >= 1
    /\ confirmed \subseteq stored \cup removed

DeliveryInv == TypeOK /\ ServerInv /\ \A p \in Phones : PhoneInv(p)

----------------------------------------------------------------------------
(* Positions of acknowledgements when a sequence of answers changes. *)

LEMMA AckIndexAppend ==
    ASSUME NEW s \in Seq(Answers), NEW t \in Seq(Answers), NEW n \in Nat, NEW f,
           AckIndex(s, n, f), \A i \in 1..Len(t) : t[i].kind # "ack"
    PROVE  /\ AckIndex(s \o t, n, f)
           /\ \A k \in 1..n : f[k] \in 1..Len(s) /\ (s \o t)[f[k]] = s[f[k]]
<1>1. /\ Len(s \o t) = Len(s) + Len(t) /\ Len(s) \in Nat /\ Len(t) \in Nat
      /\ \A i \in 1..Len(s \o t) : (s \o t)[i] = IF i <= Len(s) THEN s[i] ELSE t[i - Len(s)]
  BY ConcatProperties
<1>2. f \in [1..n -> 1..Len(s \o t)] /\ \A k \in 1..n : f[k] \in 1..Len(s)
  BY <1>1 DEF AckIndex
<1>3. \A k \in 1..n : (s \o t)[f[k]] = s[f[k]]
  BY <1>1, <1>2
<1>4. ASSUME NEW i \in 1..Len(s \o t), (s \o t)[i].kind = "ack"
      PROVE  \E k \in 1..n : f[k] = i
  BY <1>1, <1>4 DEF AckIndex
<1>5. QED
  BY <1>2, <1>3, <1>4 DEF AckIndex

LEMMA AckIndexNext ==
    ASSUME NEW s \in Seq(Answers), NEW a \in Answers, NEW n \in Nat, NEW f,
           AckIndex(s, n, f), a.kind = "ack"
    PROVE  \E g : /\ AckIndex(Append(s, a), n + 1, g)
                  /\ \A k \in 1..n : g[k] = f[k]
                  /\ g[n + 1] = Len(s) + 1
<1> DEFINE g == [k \in 1..(n + 1) |-> IF k <= n THEN f[k] ELSE Len(s) + 1]
<1>1. /\ Len(Append(s, a)) = Len(s) + 1 /\ Len(s) \in Nat
      /\ \A i \in 1..Len(s) : Append(s, a)[i] = s[i]
      /\ Append(s, a)[Len(s) + 1] = a
  BY AppendProperties
<1>2. /\ \A k \in 1..n : k \in 1..(n + 1) /\ g[k] = f[k] /\ f[k] \in 1..Len(s)
      /\ n + 1 \in 1..(n + 1) /\ g[n + 1] = Len(s) + 1
  BY DEF AckIndex
<1>3. \A k \in 1..(n + 1) : k \in 1..n \/ k = n + 1
  OBVIOUS
<1> HIDE DEF g
<1>4. g \in [1..(n + 1) -> 1..Len(Append(s, a))]
  <2>1. ASSUME NEW k \in 1..(n + 1) PROVE g[k] \in 1..(Len(s) + 1)
    <3>1. CASE k \in 1..n
      BY <1>1, <1>2, <3>1
    <3>2. CASE k = n + 1
      BY <1>1, <1>2, <3>2
    <3>3. QED
      BY <1>3, <3>1, <3>2
  <2>2. QED
    BY <1>1, <2>1 DEF g
<1>5. \A k \in 1..(n + 1) : Append(s, a)[g[k]].kind = "ack"
  BY <1>1, <1>2, <1>3, ZenonT(30) DEF AckIndex
<1>6. ASSUME NEW i \in 1..Len(Append(s, a)), Append(s, a)[i].kind = "ack"
      PROVE  \E k \in 1..(n + 1) : g[k] = i
  <2>1. CASE i = Len(s) + 1
    BY <1>2, <2>1
  <2>2. CASE i \in 1..Len(s)
    BY <1>1, <1>2, <1>6, <2>2 DEF AckIndex
  <2>3. QED
    BY <1>1, <2>1, <2>2
<1>7. ASSUME NEW j \in 1..(n + 1), NEW k \in 1..(n + 1), j < k
      PROVE  g[j] < g[k]
  <2>1. j \in 1..n
    BY <1>3, <1>7
  <2>2. CASE k \in 1..n
    BY <1>2, <1>7, <2>1, <2>2 DEF AckIndex
  <2>3. CASE k = n + 1
    BY <1>1, <1>2, <2>1, <2>3
  <2>4. QED
    BY <1>3, <2>2, <2>3
<1>8. AckIndex(Append(s, a), n + 1, g)
  <2>1. \A i \in 1..Len(Append(s, a)) :
           Append(s, a)[i].kind = "ack" => \E k \in 1..(n + 1) : g[k] = i
    BY <1>6
  <2>2. QED
    BY <1>4, <1>5, <1>7, <2>1, Zenon DEF AckIndex
<1>9. QED
  BY <1>2, <1>8

LEMMA AckIndexTailOther ==
    ASSUME NEW s \in Seq(Answers), NEW n \in Nat, NEW f,
           s # <<>>, AckIndex(s, n, f), Head(s).kind # "ack"
    PROVE  \E g : /\ AckIndex(Tail(s), n, g)
                  /\ \A k \in 1..n : g[k] = f[k] - 1 /\ Tail(s)[g[k]] = s[f[k]]
<1> DEFINE g == [k \in 1..n |-> f[k] - 1]
<1>1. /\ Len(s) \in Nat \ {0} /\ Len(Tail(s)) = Len(s) - 1
      /\ \A i \in 1..Len(Tail(s)) : Tail(s)[i] = s[i + 1]
      /\ s[1].kind # "ack"
  BY HeadTailProperties, EmptySeq
<1>2. \A k \in 1..n : f[k] \in 2..Len(s) /\ g[k] = f[k] - 1 /\ g[k] \in 1..Len(Tail(s))
  BY <1>1 DEF AckIndex
<1>3. \A k \in 1..n : Tail(s)[g[k]] = s[f[k]]
  BY <1>1, <1>2
<1>4. g \in [1..n -> 1..Len(Tail(s))]
  BY <1>2
<1> HIDE DEF g
<1>5. ASSUME NEW i \in 1..Len(Tail(s)), Tail(s)[i].kind = "ack"
      PROVE  \E k \in 1..n : g[k] = i
  <2>1. i + 1 \in 1..Len(s) /\ s[i + 1].kind = "ack"
    BY <1>1, <1>5
  <2>2. PICK k \in 1..n : f[k] = i + 1
    BY <2>1 DEF AckIndex
  <2>3. g[k] = i
    BY <1>2, <2>2
  <2>4. QED
    BY <2>3
<1>6. \A j, k \in 1..n : j < k => g[j] < g[k]
  BY <1>2 DEF AckIndex
<1>7. \A k \in 1..n : Tail(s)[g[k]].kind = "ack"
  BY <1>3 DEF AckIndex
<1>8. AckIndex(Tail(s), n, g)
  BY <1>4, <1>5, <1>6, <1>7 DEF AckIndex
<1>9. QED
  BY <1>2, <1>3, <1>8

LEMMA AckIndexTailAck ==
    ASSUME NEW s \in Seq(Answers), NEW n \in Nat, NEW f,
           s # <<>>, AckIndex(s, n, f), Head(s).kind = "ack"
    PROVE  /\ n >= 1
           /\ f[1] = 1 /\ s[f[1]] = Head(s)
           /\ \E g : /\ AckIndex(Tail(s), n - 1, g)
                     /\ \A k \in 1..(n - 1) :
                           g[k] = f[k + 1] - 1 /\ Tail(s)[g[k]] = s[f[k + 1]]
<1> DEFINE g == [k \in 1..(n - 1) |-> f[k + 1] - 1]
<1>1. /\ Len(s) \in Nat \ {0} /\ Len(Tail(s)) = Len(s) - 1
      /\ \A i \in 1..Len(Tail(s)) : Tail(s)[i] = s[i + 1]
      /\ s[1].kind = "ack" /\ Head(s) = s[1]
  BY HeadTailProperties, EmptySeq
<1>2. PICK k1 \in 1..n : f[k1] = 1
  BY <1>1 DEF AckIndex
<1>3. n >= 1 /\ f[1] = 1
  <2>1. 1 \in 1..n /\ f[1] \in 1..Len(s)
    BY <1>2 DEF AckIndex
  <2>2. k1 = 1
    BY <1>2, <2>1 DEF AckIndex
  <2>3. QED
    BY <1>2, <2>1, <2>2
<1>4. \A k \in 1..(n - 1) :
         /\ k + 1 \in 1..n /\ f[k + 1] \in 2..Len(s)
         /\ g[k] = f[k + 1] - 1 /\ g[k] \in 1..Len(Tail(s))
  BY <1>1, <1>3 DEF AckIndex
<1>5. \A k \in 1..(n - 1) : Tail(s)[g[k]] = s[f[k + 1]]
  BY <1>1, <1>4
<1>6. g \in [1..(n - 1) -> 1..Len(Tail(s))]
  BY <1>4
<1> HIDE DEF g
<1>7. ASSUME NEW i \in 1..Len(Tail(s)), Tail(s)[i].kind = "ack"
      PROVE  \E k \in 1..(n - 1) : g[k] = i
  <2>1. i + 1 \in 1..Len(s) /\ s[i + 1].kind = "ack"
    BY <1>1, <1>7
  <2>2. PICK k \in 1..n : f[k] = i + 1
    BY <2>1 DEF AckIndex
  <2>3. k # 1 /\ k - 1 \in 1..(n - 1) /\ (k - 1) + 1 = k
    BY <1>3, <2>2
  <2>4. g[k - 1] = i
    BY <1>4, <2>2, <2>3
  <2>5. QED
    BY <2>3, <2>4
<1>8. \A j, k \in 1..(n - 1) : j < k => g[j] < g[k]
  BY <1>4 DEF AckIndex
<1>9. \A k \in 1..(n - 1) : Tail(s)[g[k]].kind = "ack"
  BY <1>4, <1>5, SMTT(30) DEF AckIndex
<1>10. AckIndex(Tail(s), n - 1, g)
  BY <1>6, <1>7, <1>8, <1>9 DEF AckIndex
<1>11. QED
  BY <1>1, <1>3, <1>4, <1>5, <1>10

----------------------------------------------------------------------------
(* Types. *)

LEMMA EmptyWritesTyped == <<>> \in Seq(Writes) /\ <<>> \in Seq(Answered) /\ <<>> \in Seq(Answers)
OBVIOUS

LEMMA AnswersTyped ==
    /\ \A S \in SUBSET Messages : Data(S) \in Answers
    /\ Listening \in Answers
    /\ \A ok \in BOOLEAN : Ack(ok) \in Answers
BY DEF Data, Listening, Ack, Answers

LEMMA TailTyped ==
    ASSUME NEW S, NEW s \in Seq(S), s # <<>>
    PROVE  /\ Tail(s) \in Seq(S) /\ Head(s) \in S /\ Head(s) = s[1]
           /\ Len(s) \in Nat /\ Len(s) >= 1 /\ Len(Tail(s)) = Len(s) - 1
           /\ \A i \in 1..Len(Tail(s)) : i + 1 \in 1..Len(s) /\ Tail(s)[i] = s[i + 1]
           /\ \A i \in 1..Len(s) : s[i] \in S
BY HeadTailProperties, EmptySeq, ElementOfSeq

\* What Delete appends to puts[p].
Removals(p) ==
    [i \in DOMAIN deletedMessageIds[p] |-> [op |-> "remove", id |-> deletedMessageIds[p][i]]]

LEMMA RemovalsTyped ==
    ASSUME TypeOK, NEW p \in Phones
    PROVE  /\ Removals(p) \in Seq(Writes)
           /\ Len(Removals(p)) = Len(deletedMessageIds[p])
           /\ \A i \in 1..Len(Removals(p)) :
                 Removals(p)[i] = [op |-> "remove", id |-> deletedMessageIds[p][i]]
<1>1. deletedMessageIds[p] \in Seq(Messages)
  BY DEF TypeOK
<1>2. \A i \in 1..Len(deletedMessageIds[p]) : deletedMessageIds[p][i] \in Messages
  BY <1>1, ElementOfSeq
<1>3. Len(deletedMessageIds[p]) \in Nat /\ DOMAIN deletedMessageIds[p] = 1..Len(deletedMessageIds[p])
  BY <1>1
<1>4. Removals(p) \in [1..Len(deletedMessageIds[p]) -> Writes]
  BY <1>2, <1>3 DEF Removals, Writes
<1>5. QED
  BY <1>3, <1>4 DEF Removals

LEMMA TypeInit == Init => TypeOK
BY EmptyWritesTyped DEF Init, TypeOK

\* Where most of the state stays the same.
LEMMA TypeSend ==
    ASSUME TypeOK, NEW p \in Phones, NEW m \in Messages, Send(p, m)
    PROVE  TypeOK'
<1>1. /\ Append(puts[p], [op |-> "put", id |-> m]) \in Seq(Writes)
      /\ Len(Append(puts[p], [op |-> "put", id |-> m])) = Len(puts[p]) + 1
  <2>1. [op |-> "put", id |-> m] \in Writes /\ puts[p] \in Seq(Writes)
    BY DEF TypeOK, Writes
  <2>2. QED
    BY <2>1, AppendProperties
<1>2. Len(puts[p]) \in Nat
  BY DEF TypeOK
<1>3. puts' \in [Phones -> Seq(Writes)]
  BY <1>1 DEF Send, TypeOK
<1>4. \A q \in Phones : applied'[q] <= Len(puts'[q])
  BY <1>1, <1>2 DEF Send, TypeOK
<1>5. author' \in [Messages -> Phones \cup {Nobody}]
  BY DEF Send, TypeOK
<1>6. QED
  BY <1>3, <1>4, <1>5 DEF Send, TypeOK, boundVars, historyVars

LEMMA TypeLongPress ==
    ASSUME TypeOK, NEW p \in Phones, NEW m \in Messages, LongPress(p, m)
    PROVE  TypeOK'
BY DEF LongPress, TypeOK, boundVars, historyVars

LEMMA TypeDelete ==
    ASSUME TypeOK, NEW p \in Phones, Delete(p)
    PROVE  TypeOK'
<1>1. puts' = [puts EXCEPT ![p] = puts[p] \o Removals(p)]
  BY DEF Delete, Removals, TypeOK
<1>2. /\ puts[p] \o Removals(p) \in Seq(Writes)
      /\ Len(puts[p] \o Removals(p)) = Len(puts[p]) + Len(Removals(p))
      /\ Len(puts[p]) \in Nat /\ Len(Removals(p)) \in Nat
  BY RemovalsTyped, ConcatProperties DEF TypeOK
<1>3. puts' \in [Phones -> Seq(Writes)]
  BY <1>1, <1>2 DEF TypeOK
<1>4. \A q \in Phones : applied'[q] <= Len(puts'[q])
  BY <1>1, <1>2 DEF Delete, TypeOK
<1>5. QED
  BY <1>3, <1>4 DEF Delete, TypeOK, historyVars

LEMMA TypeConnection ==
    ASSUME TypeOK, NEW p \in Phones, Connect(p) \/ Lose(p) \/ Kill(p)
    PROVE  TypeOK'
<1>1. CASE Connect(p)
  BY <1>1 DEF Connect, TypeOK, boundVars, historyVars
<1>2. CASE Lose(p)
  BY <1>2, EmptyWritesTyped DEF Lose, Disconnected, TypeOK, historyVars
<1>3. CASE Kill(p)
  <2>1. \A q \in Phones : applied'[q] <= Len(puts'[q])
    BY <1>3 DEF Kill, Disconnected, TypeOK
  <2>2. QED
    BY <1>3, <2>1, EmptyWritesTyped DEF Kill, Disconnected, TypeOK, historyVars
<1>4. QED
  BY <1>1, <1>2, <1>3

LEMMA TypeServerListen ==
    ASSUME TypeOK, NEW p \in Phones, ServerListen(p)
    PROVE  TypeOK'
<1>1. <<Data(stored), Listening>> \in Seq(Answers)
  BY AnswersTyped DEF TypeOK
<1>2. answers[p] \o <<Data(stored), Listening>> \in Seq(Answers)
  BY <1>1, ConcatProperties DEF TypeOK
<1>3. QED
  BY <1>2 DEF ServerListen, TypeOK, boundVars, historyVars

\* What p's next write is, and what its handling sends to q.
NextWrite(p) == puts[p][applied[p] + 1]
News(q) == IF listened[q] /\ stored' # stored THEN <<Data(stored')>> ELSE <<>>

LEMMA NextWriteTyped ==
    ASSUME TypeOK, NEW p \in Phones, applied[p] < Len(puts[p])
    PROVE  NextWrite(p) \in Writes /\ applied[p] + 1 \in 1..Len(puts[p])
<1>1. applied[p] + 1 \in 1..Len(puts[p]) /\ puts[p] \in Seq(Writes)
  BY DEF TypeOK
<1>2. QED
  BY <1>1, ElementOfSeq DEF NextWrite

LEMMA NewsTyped ==
    ASSUME NEW q \in Phones, stored' \subseteq Messages
    PROVE  /\ News(q) \in Seq(Answers)
           /\ \A i \in 1..Len(News(q)) : News(q)[i].kind # "ack" /\ News(q)[i].snap = stored'
<1>1. Data(stored') \in Answers /\ Data(stored').kind # "ack" /\ Data(stored').snap = stored'
  BY AnswersTyped DEF Data
<1>2. CASE News(q) = <<>>
  BY <1>2
<1>3. CASE News(q) = <<Data(stored')>>
  <2>1. Len(News(q)) = 1 /\ News(q)[1] = Data(stored') /\ News(q) \in Seq(Answers)
    BY <1>1, <1>3
  <2>2. \A i \in 1..1 : i = 1
    OBVIOUS
  <2>3. QED
    BY <1>1, <2>1, <2>2
<1>4. News(q) = <<>> \/ News(q) = <<Data(stored')>>
  BY DEF News
<1>5. QED
  BY <1>2, <1>3, <1>4

LEMMA ServerWriteEffect ==
    ASSUME NEW p \in Phones, NEW ok \in BOOLEAN, ServerWrite(p, ok)
    PROVE  /\ applied[p] < Len(puts[p])
           /\ stored' = IF ok THEN IF NextWrite(p).op = "put"
                                   THEN stored \cup {NextWrite(p).id}
                                   ELSE stored \ {NextWrite(p).id}
                              ELSE stored
           /\ removed' = IF ok /\ NextWrite(p).op = "remove"
                         THEN removed \cup {NextWrite(p).id} ELSE removed
           /\ arrivals' = IF ok /\ NextWrite(p).op = "put" /\ arrivals[NextWrite(p).id] < 2
                          THEN [arrivals EXCEPT ![NextWrite(p).id] = @ + 1] ELSE arrivals
           /\ applied' = [applied EXCEPT ![p] = @ + 1]
           /\ answers' = [q \in Phones |->
                            answers[q] \o News(q) \o (IF q = p THEN <<Ack(ok)>> ELSE <<>>)]
BY DEF ServerWrite, NextWrite, News

LEMMA TypeServerWrite ==
    ASSUME TypeOK, NEW p \in Phones, NEW ok \in BOOLEAN, ServerWrite(p, ok)
    PROVE  TypeOK'
<1>1. NextWrite(p) \in Writes /\ applied[p] + 1 \in 1..Len(puts[p])
  BY NextWriteTyped, ServerWriteEffect
<1>2. NextWrite(p).id \in Messages
  BY <1>1 DEF Writes
<1>3. stored' \subseteq Messages /\ removed' \subseteq Messages
  <2>1. /\ stored' \subseteq stored \cup {NextWrite(p).id}
        /\ removed' \subseteq removed \cup {NextWrite(p).id}
    BY ServerWriteEffect
  <2>2. QED
    BY <1>2, <2>1 DEF TypeOK
<1>4. arrivals' \in [Messages -> 0..2]
  <2>1. arrivals \in [Messages -> 0..2]
    BY DEF TypeOK
  <2>2. \/ arrivals' = arrivals
        \/ /\ arrivals' = [arrivals EXCEPT ![NextWrite(p).id] = @ + 1]
           /\ arrivals[NextWrite(p).id] < 2
    BY ServerWriteEffect
  <2>3. QED
    BY <1>2, <2>1, <2>2
<1>5. applied' \in [Phones -> Nat] /\ \A q \in Phones : applied'[q] <= Len(puts'[q])
  <2>1. applied' = [applied EXCEPT ![p] = @ + 1] /\ puts' = puts
    BY ServerWriteEffect DEF ServerWrite
  <2>2. QED
    BY <1>1, <2>1 DEF TypeOK
<1>6. ASSUME NEW q \in Phones
      PROVE  answers[q] \o News(q) \o (IF q = p THEN <<Ack(ok)>> ELSE <<>>) \in Seq(Answers)
  <2>1. answers[q] \o News(q) \in Seq(Answers)
    BY <1>3, NewsTyped, ConcatProperties DEF TypeOK
  <2>2. (IF q = p THEN <<Ack(ok)>> ELSE <<>>) \in Seq(Answers)
    BY AnswersTyped
  <2>3. QED
    BY <2>1, <2>2, ConcatProperties
<1>7. answers' \in [Phones -> Seq(Answers)]
  <2>1. answers' = [q \in Phones |->
                      answers[q] \o News(q) \o (IF q = p THEN <<Ack(ok)>> ELSE <<>>)]
    BY ServerWriteEffect
  <2>2. QED
    BY <1>6, <2>1
<1>8. QED
  BY <1>3, <1>4, <1>5, <1>7 DEF ServerWrite, TypeOK, boundVars

LEMMA CompleteTyped ==
    ASSUME TypeOK, NEW p \in Phones, NEW A \in SUBSET Answered, Complete(p, A)
    PROVE  /\ confirmed' \subseteq Messages /\ refused' \subseteq Messages
           /\ deleted' \in [Phones -> SUBSET Messages]
           /\ removed' = removed /\ arrivals' = arrivals
<1>1. \A a \in A : a.write.id \in Messages
  BY DEF Answered, Writes
<1>2. QED
  BY <1>1 DEF Complete, TypeOK

LEMMA TypeReceived ==
    ASSUME TypeOK, NEW p \in Phones, DataArrives(p) \/ ListenAnswered(p)
    PROVE  TypeOK'
<1>1. answers[p] \in Seq(Answers) /\ answers[p] # <<>>
  BY DEF DataArrives, ListenAnswered, FirstAnswer, TypeOK
<1>2. Tail(answers[p]) \in Seq(Answers) /\ Head(answers[p]) \in Answers
  BY <1>1, TailTyped
<1>3. answers' \in [Phones -> Seq(Answers)]
  BY <1>2 DEF DataArrives, ListenAnswered, TypeOK
<1>4. CASE DataArrives(p)
  <2>1. Head(answers[p]).snap \in SUBSET Messages
    BY <1>2 DEF Answers
  <2>2. cache' \in [Phones -> SUBSET Messages] /\ loaded' \in [Phones -> BOOLEAN]
    BY <1>4, <2>1 DEF DataArrives, TypeOK
  <2>3. QED
    BY <1>3, <1>4, <2>2 DEF DataArrives, TypeOK, boundVars, historyVars
<1>5. CASE ListenAnswered(p)
  <2>1. ToSet(putsToAck[p]) \in SUBSET Answered
    BY DEF ToSet, TypeOK
  <2>2. Complete(p, ToSet(putsToAck[p]))
    BY <1>5 DEF ListenAnswered
  <2>3. /\ confirmed' \subseteq Messages /\ refused' \subseteq Messages
        /\ deleted' \in [Phones -> SUBSET Messages]
        /\ removed' = removed /\ arrivals' = arrivals
    BY <2>1, <2>2, CompleteTyped
  <2>4. QED
    BY <1>3, <1>5, <2>3, EmptyWritesTyped DEF ListenAnswered, TypeOK, boundVars
<1>6. QED
  BY <1>4, <1>5

\* What is known when the first answer is an acknowledgement.
LEMMA TypeWriteAnswered ==
    ASSUME TypeOK, NEW p \in Phones, WriteAnswered(p), applied[p] >= 1
    PROVE  TypeOK' /\ NextAnswered(p) \in Answered
<1>1. answers[p] \in Seq(Answers) /\ answers[p] # <<>>
  BY DEF WriteAnswered, Answer, FirstAnswer, TypeOK
<1>2. Tail(answers[p]) \in Seq(Answers) /\ Head(answers[p]) \in Answers
  BY <1>1, TailTyped
<1>3. puts[p] \in Seq(Writes) /\ puts[p] # <<>> /\ applied[p] \in Nat /\ applied[p] <= Len(puts[p])
  BY DEF TypeOK
<1>4. Tail(puts[p]) \in Seq(Writes) /\ Head(puts[p]) \in Writes /\ Len(Tail(puts[p])) = Len(puts[p]) - 1
  BY <1>3, TailTyped
<1>5. NextAnswered(p) \in Answered
  BY <1>2, <1>4 DEF NextAnswered, Answered, Answers
<1>6. answers' \in [Phones -> Seq(Answers)] /\ puts' \in [Phones -> Seq(Writes)]
  BY <1>2, <1>4 DEF WriteAnswered, Answer, TypeOK
<1>7. applied' \in [Phones -> Nat] /\ \A q \in Phones : applied'[q] <= Len(puts'[q])
  <2>1. /\ applied' = [applied EXCEPT ![p] = @ - 1]
        /\ puts' = [puts EXCEPT ![p] = Tail(@)]
    BY DEF WriteAnswered, Answer
  <2>2. QED
    BY <1>3, <1>4, <2>1 DEF TypeOK
<1>8. CASE link[p] = "on"
  <2>1. Complete(p, {NextAnswered(p)}) /\ putsToAck' = putsToAck
    BY <1>8 DEF WriteAnswered
  <2>2. /\ confirmed' \subseteq Messages /\ refused' \subseteq Messages
        /\ deleted' \in [Phones -> SUBSET Messages]
        /\ removed' = removed /\ arrivals' = arrivals
    BY <1>5, <2>1, CompleteTyped
  <2>3. QED
    BY <1>5, <1>6, <1>7, <2>1, <2>2 DEF WriteAnswered, Answer, TypeOK, boundVars
<1>9. CASE link[p] # "on"
  <2>1. putsToAck' = [putsToAck EXCEPT ![p] = Append(@, NextAnswered(p))] /\ UNCHANGED historyVars
    BY <1>9 DEF WriteAnswered
  <2>2. Append(putsToAck[p], NextAnswered(p)) \in Seq(Answered)
    BY <1>5, AppendProperties DEF TypeOK
  <2>3. putsToAck' \in [Phones -> Seq(Answered)]
    BY <2>1, <2>2 DEF TypeOK
  <2>4. QED
    BY <1>5, <1>6, <1>7, <2>1, <2>3 DEF WriteAnswered, Answer, TypeOK, boundVars, historyVars
<1>10. QED
  BY <1>8, <1>9

----------------------------------------------------------------------------
(* What no step undoes. *)

LEMMA CompleteHistory ==
    ASSUME NEW p, NEW A, Complete(p, A)
    PROVE  removed' = removed /\ arrivals' = arrivals
BY DEF Complete

\* Steps that neither touch the database nor name or complete a write.
Quiet(p) ==
    \/ \E m \in Messages : LongPress(p, m)
    \/ Delete(p) \/ Connect(p) \/ Lose(p) \/ Kill(p)
    \/ ServerListen(p) \/ DataArrives(p)

LEMMA QuietSteps ==
    ASSUME NEW p \in Phones, Quiet(p)
    PROVE  /\ author' = author /\ stored' = stored
           /\ removed' = removed /\ arrivals' = arrivals
           /\ confirmed' = confirmed /\ deleted' = deleted
<1>1. CASE \E m \in Messages : LongPress(p, m)
  BY <1>1 DEF LongPress, historyVars
<1>2. CASE Delete(p)
  BY <1>2, Zenon DEF Delete, historyVars
<1>3. CASE Connect(p) \/ Lose(p) \/ Kill(p)
  BY <1>3, Zenon DEF Connect, Lose, Kill, historyVars
<1>4. CASE ServerListen(p) \/ DataArrives(p)
  BY <1>4, Zenon DEF ServerListen, DataArrives, historyVars
<1>5. QED
  BY <1>1, <1>2, <1>3, <1>4, Zenon DEF Quiet

LEMMA WorldMoves ==
    ASSUME TypeOK, Next
    PROVE  /\ \A m \in Messages : author[m] # Nobody => author'[m] = author[m]
           /\ \A m \in Messages : arrivals'[m] >= arrivals[m] /\ arrivals[m] \in 0..2
           /\ \A m \in stored \cup removed : m \in stored' \cup removed'
<1> DEFINE Moves ==
      /\ \A m \in Messages : author[m] # Nobody => author'[m] = author[m]
      /\ \A m \in Messages : arrivals'[m] >= arrivals[m]
      /\ \A m \in stored \cup removed : m \in stored' \cup removed'
<1>0. \A m \in Messages : arrivals[m] \in 0..2
  BY DEF TypeOK
<1>1. ASSUME NEW p \in Phones, NEW m \in Messages, Send(p, m) PROVE Moves
  <2>1. stored' = stored /\ removed' = removed /\ arrivals' = arrivals
    BY <1>1 DEF Send, historyVars
  <2>2. author' = [author EXCEPT ![m] = p] /\ author[m] = Nobody
    BY <1>1 DEF Send
  <2>3. \A k \in Messages : author[k] # Nobody => author'[k] = author[k]
    BY <2>2 DEF TypeOK
  <2>4. QED
    BY <1>0, <2>1, <2>3
<1>2. ASSUME NEW p \in Phones, Quiet(p) PROVE Moves
  BY <1>0, <1>2, QuietSteps
<1>3. ASSUME NEW p \in Phones, ListenAnswered(p) \/ WriteAnswered(p) PROVE Moves
  <2>1. removed' = removed /\ arrivals' = arrivals
    BY <1>3, CompleteHistory DEF ListenAnswered, WriteAnswered, historyVars
  <2>2. stored' = stored /\ author' = author
    BY <1>3 DEF ListenAnswered, WriteAnswered, Answer
  <2>3. QED
    BY <1>0, <2>1, <2>2
<1>4. ASSUME NEW p \in Phones, NEW ok \in BOOLEAN, ServerWrite(p, ok) PROVE Moves
  <2>1. author' = author
    BY <1>4 DEF ServerWrite
  <2>2. /\ stored' = IF ok THEN IF NextWrite(p).op = "put"
                                THEN stored \cup {NextWrite(p).id}
                                ELSE stored \ {NextWrite(p).id}
                           ELSE stored
        /\ removed' = IF ok /\ NextWrite(p).op = "remove"
                      THEN removed \cup {NextWrite(p).id} ELSE removed
        /\ NextWrite(p).op \in {"put", "remove"} /\ NextWrite(p).id \in Messages
    BY <1>4, ServerWriteEffect, NextWriteTyped DEF Writes
  <2>3. \/ arrivals' = arrivals
        \/ arrivals' = [arrivals EXCEPT ![NextWrite(p).id] = @ + 1]
    BY <1>4, ServerWriteEffect
  <2>4. \A m \in Messages : arrivals'[m] >= arrivals[m]
    <3>1. arrivals \in [Messages -> 0..2] /\ NextWrite(p).id \in Messages
      BY <2>2 DEF TypeOK
    <3>2. QED
      BY <2>3, <3>1
  <2>5. \A m \in stored \cup removed : m \in stored' \cup removed'
    BY <2>2
  <2>6. QED
    BY <2>1, <2>4, <2>5
<1>5. Moves
  BY <1>1, <1>2, <1>3, <1>4 DEF Next, Quiet
<1>6. QED
  BY <1>0, <1>5

LEMMA KnownStays ==
    ASSUME TypeOK, TypeOK', Next, NEW p \in Phones, NEW m \in Messages, Known(p, m)
    PROVE  Known(p, m)'
<1>1. arrivals'[m] >= arrivals[m] /\ arrivals[m] \in 0..2 /\ arrivals'[m] \in 0..2
  BY WorldMoves DEF TypeOK
<1>2. author[m] = p => author'[m] = p
  BY WorldMoves, NobodyAssumption
<1>3. QED
  BY <1>1, <1>2 DEF Known

\* A removal stays final, in a step that stores nothing: ...
LEMMA GoneStays ==
    ASSUME TypeOK, TypeOK', ServerInv, Next, stored' \subseteq stored,
           NEW p \in Phones, NEW m \in Messages, Gone(p, m)
    PROVE  Gone(p, m)'
<1>1. SUFFICES ASSUME m \in stored'
               PROVE  author'[m] # p /\ arrivals'[m] > 1
  BY DEF Gone
<1>2. author[m] # p /\ arrivals[m] > 1
  BY <1>1 DEF Gone
<1>3. arrivals'[m] >= arrivals[m] /\ arrivals[m] \in 0..2 /\ arrivals'[m] \in 0..2
  BY WorldMoves DEF TypeOK
<1>4. author[m] # Nobody /\ author'[m] = author[m]
  BY <1>2, <1>3, WorldMoves DEF ServerInv
<1>5. QED
  BY <1>2, <1>3, <1>4

\* ... and when the server takes a write of r: a message of p's own is stored by
\* no one else, another's is stored a second time.
LEMMA GoneStaysWrite ==
    ASSUME TypeOK, TypeOK', ServerInv, Next,
           NEW r \in Phones, NEW ok \in BOOLEAN, ServerWrite(r, ok), PutsFirst(r),
           NEW p \in Phones, NEW m \in Messages, Gone(p, m), Known(p, m),
           p = r => NextWrite(r) # [op |-> "put", id |-> m]
    PROVE  Gone(p, m)'
<1>1. CASE m \in stored \/ m \notin stored'
  <2>1. SUFFICES ASSUME m \in stored'
                 PROVE  author'[m] # p /\ arrivals'[m] > 1
    BY DEF Gone
  <2>2. author[m] # p /\ arrivals[m] > 1
    BY <1>1, <2>1 DEF Gone
  <2>3. arrivals'[m] >= arrivals[m] /\ arrivals[m] \in 0..2 /\ arrivals'[m] \in 0..2
    BY WorldMoves DEF TypeOK
  <2>4. author' = author
    BY DEF ServerWrite
  <2>5. QED
    BY <2>2, <2>3, <2>4
<1>2. CASE m \notin stored /\ m \in stored'
  <2>1. NextWrite(r) \in Writes /\ applied[r] + 1 \in 1..Len(puts[r])
    BY NextWriteTyped, ServerWriteEffect
  <2>2. ok /\ NextWrite(r).op = "put" /\ NextWrite(r).id = m
    BY <1>2, ServerWriteEffect
  <2>3. NextWrite(r) = [op |-> "put", id |-> m]
    BY <2>1, <2>2 DEF Writes
  <2>4. author[m] = r
    BY <2>1, <2>2 DEF PutsFirst, NextWrite
  <2>5. p # r /\ arrivals[m] >= 1 /\ arrivals[m] \in 0..2
    BY <2>3, <2>4 DEF Known, TypeOK
  <2>6. arrivals' = IF arrivals[m] < 2 THEN [arrivals EXCEPT ![m] = @ + 1] ELSE arrivals
    BY <2>2, ServerWriteEffect
  <2>7. arrivals'[m] > 1
    <3>1. arrivals \in [Messages -> 0..2]
      BY DEF TypeOK
    <3>2. CASE arrivals[m] < 2
      BY <2>5, <2>6, <3>1, <3>2
    <3>3. CASE arrivals[m] = 2
      BY <2>6, <3>3
    <3>4. QED
      BY <2>5, <3>2, <3>3
  <2>8. author'[m] = r
    BY <2>4 DEF ServerWrite
  <2>9. QED
    BY <2>5, <2>7, <2>8 DEF Gone
<1>3. QED
  BY <1>1, <1>2

\* No message of w is put again by one of p's writes that are still to be taken.
NotPutAgain(p, w) ==
    w.op = "remove" =>
        \A i \in (applied[p] + 1)..Len(puts[p]) : puts[p][i] # [op |-> "put", id |-> w.id]

LEMMA GoneStaysAny ==
    ASSUME TypeOK, TypeOK', ServerInv, Next, \A q \in Phones : PutsFirst(q),
           NEW p \in Phones, NEW m \in Messages, Gone(p, m), Known(p, m),
           NotPutAgain(p, [op |-> "remove", id |-> m])
    PROVE  Gone(p, m)'
<1>1. ASSUME NEW r \in Phones, NEW ok \in BOOLEAN, ServerWrite(r, ok) PROVE Gone(p, m)'
  <2>1. applied[r] < Len(puts[r]) /\ Len(puts[r]) \in Nat /\ applied[r] \in Nat
    <3>1. applied[r] < Len(puts[r])
      BY <1>1, ServerWriteEffect
    <3>2. QED
      BY <3>1 DEF TypeOK
  <2>2. p = r => NextWrite(r) # [op |-> "put", id |-> m]
    BY <2>1 DEF NotPutAgain, NextWrite
  <2>3. QED
    BY <1>1, <2>2, GoneStaysWrite
<1>2. CASE ~\E r \in Phones, ok \in BOOLEAN : ServerWrite(r, ok)
  <2>1. stored' = stored
    <3>1. ASSUME NEW q \in Phones, Quiet(q) PROVE stored' = stored
      BY <3>1, QuietSteps
    <3>2. ASSUME NEW q \in Phones, NEW k \in Messages, Send(q, k) PROVE stored' = stored
      BY <3>2 DEF Send
    <3>3. ASSUME NEW q \in Phones, ListenAnswered(q) \/ WriteAnswered(q) PROVE stored' = stored
      BY <3>3 DEF ListenAnswered, WriteAnswered, Answer
    <3>4. QED
      BY <1>2, <3>1, <3>2, <3>3 DEF Next, Quiet
  <2>2. QED
    BY <2>1, GoneStays
<1>3. QED
  BY <1>1, <1>2

LEMMA HappenedStays ==
    ASSUME TypeOK, TypeOK', ServerInv, Next, \A q \in Phones : PutsFirst(q),
           NEW p \in Phones, NEW w \in Writes, Happened(p, w), Known(p, w.id), NotPutAgain(p, w)
    PROVE  Happened(p, w)'
<1>1. CASE w.op = "put"
  BY <1>1, WorldMoves DEF Happened
<1>2. CASE w.op # "put"
  <2>1. w.id \in Messages /\ w.op = "remove"
    BY <1>2 DEF Writes
  <2>2. NotPutAgain(p, [op |-> "remove", id |-> w.id])
    BY <2>1 DEF NotPutAgain
  <2>3. Gone(p, w.id)'
    BY <1>2, <2>1, <2>2, GoneStaysAny DEF Happened
  <2>4. QED
    BY <1>2, <2>3 DEF Happened
<1>3. QED
  BY <1>1, <1>2

----------------------------------------------------------------------------
(* A step, and what it leaves to each phone. *)

Step == DeliveryInv /\ TypeOK' /\ Next

LEMMA HappenedAll ==
    ASSUME Step, NEW p \in Phones
    PROVE  /\ \A w \in Writes :
                 Happened(p, w) /\ Known(p, w.id) /\ NotPutAgain(p, w) => Happened(p, w)'
           /\ \A m \in Messages : Known(p, m) => Known(p, m)'
<1>1. TypeOK /\ TypeOK' /\ ServerInv /\ Next /\ \A q \in Phones : PutsFirst(q)
  BY DEF Step, DeliveryInv, PhoneInv
<1>2. QED
  BY <1>1, HappenedStays, KnownStays

\* The writes the server has handled.
LEMMA AppliedStay ==
    ASSUME Step, NEW p \in Phones, NEW k \in 1..applied[p], NEW w, w = puts[p][k],
           Happened(p, w)
    PROVE  Happened(p, w)'
<1>1. /\ applied[p] \in Nat /\ applied[p] <= Len(puts[p]) /\ puts[p] \in Seq(Writes)
      /\ Len(puts[p]) \in Nat /\ PutsFirst(p) /\ KnownIds(p)
  BY DEF Step, DeliveryInv, PhoneInv, TypeOK
<1>2. k \in 1..Len(puts[p]) /\ w \in Writes /\ Known(p, w.id)
  <2>1. k \in 1..Len(puts[p])
    BY <1>1
  <2>2. QED
    BY <1>1, <2>1, ElementOfSeq DEF KnownIds
<1>3. NotPutAgain(p, w)
  <2>1. SUFFICES ASSUME w.op = "remove", NEW i \in (applied[p] + 1)..Len(puts[p]),
                        puts[p][i] = [op |-> "put", id |-> w.id]
                 PROVE  FALSE
    BY DEF NotPutAgain
  <2>2. i \in 1..Len(puts[p]) /\ k \in 1..(i - 1)
    BY <1>1
  <2>3. puts[p][i].op = "put" /\ puts[p][i].id = w.id /\ w = [op |-> "remove", id |-> w.id]
    BY <1>2, <2>1 DEF Writes
  <2>4. QED
    BY <1>1, <2>2, <2>3 DEF PutsFirst
<1>4. QED
  BY <1>2, <1>3, HappenedAll

LEMMA HeldStay ==
    ASSUME Step, NEW p \in Phones
    PROVE  /\ \A i \in 1..Len(putsToAck[p]) :
                 \A w : w = putsToAck[p][i].write /\ putsToAck[p][i].ok => Happened(p, w)'
           /\ \A m \in deleted[p] : Gone(p, m)'
<1>1. /\ putsToAck[p] \in Seq(Answered) /\ puts[p] \in Seq(Writes)
      /\ applied[p] \in Nat /\ Len(puts[p]) \in Nat /\ deleted[p] \subseteq Messages
      /\ HeldHappened(p) /\ PutsFirst(p) /\ KnownIds(p)
  BY DEF Step, DeliveryInv, PhoneInv, TypeOK
<1>2. ASSUME NEW i \in 1..Len(putsToAck[p]), NEW w, w = putsToAck[p][i].write,
             putsToAck[p][i].ok
      PROVE  Happened(p, w)'
  <2>1. w \in Writes
    <3>1. putsToAck[p][i] \in Answered
      BY <1>1, ElementOfSeq
    <3>2. QED
      BY <1>2, <3>1 DEF Answered
  <2>2. Happened(p, w) /\ Known(p, w.id)
    BY <1>1, <1>2 DEF HeldHappened, KnownIds
  <2>3. NotPutAgain(p, w)
    <3>1. SUFFICES ASSUME w.op = "remove", NEW j \in (applied[p] + 1)..Len(puts[p]),
                          puts[p][j] = [op |-> "put", id |-> w.id]
                   PROVE  FALSE
      BY DEF NotPutAgain
    <3>2. j \in 1..Len(puts[p]) /\ puts[p][j].op = "put" /\ puts[p][j].id = w.id
      BY <1>1, <3>1
    <3>3. w = [op |-> "remove", id |-> w.id]
      BY <2>1, <3>1 DEF Writes
    <3>4. QED
      BY <1>1, <1>2, <3>2, <3>3 DEF PutsFirst
  <2>4. QED
    BY <2>1, <2>2, <2>3, HappenedAll
<1>3. ASSUME NEW m \in deleted[p]
      PROVE  Gone(p, m)'
  <2>1. m \in Messages /\ Gone(p, m) /\ Known(p, m)
    BY <1>1 DEF HeldHappened, KnownIds
  <2>2. NotPutAgain(p, [op |-> "remove", id |-> m])
    <3>1. SUFFICES ASSUME NEW j \in (applied[p] + 1)..Len(puts[p]),
                          puts[p][j] = [op |-> "put", id |-> m]
                   PROVE  FALSE
      BY DEF NotPutAgain
    <3>2. j \in 1..Len(puts[p]) /\ puts[p][j].op = "put" /\ puts[p][j].id = m
      BY <1>1, <3>1
    <3>3. QED
      BY <1>1, <3>2 DEF PutsFirst
  <2>3. QED
    BY <2>1, <2>2, GoneStaysAny DEF Step, DeliveryInv, PhoneInv
<1>4. QED
  BY <1>2, <1>3

LEMMA AcksKept ==
    ASSUME Step, NEW p \in Phones, NEW t \in Seq(Answers), \A i \in 1..Len(t) : t[i].kind # "ack",
           answers'[p] = answers[p] \o t, applied'[p] = applied[p],
           \A k \in 1..applied[p] : puts'[p][k] = puts[p][k]
    PROVE  AcksMatch(p)'
<1>1. applied[p] \in Nat /\ answers[p] \in Seq(Answers) /\ AcksMatch(p)
  BY DEF Step, DeliveryInv, PhoneInv, TypeOK
<1>2. PICK f : /\ AckIndex(answers[p], applied[p], f)
               /\ \A k \in 1..applied[p] : answers[p][f[k]].ok => Happened(p, puts[p][k])
  BY <1>1 DEF AcksMatch
<1>3. /\ AckIndex(answers[p] \o t, applied[p], f)
      /\ \A k \in 1..applied[p] : (answers[p] \o t)[f[k]] = answers[p][f[k]]
  BY <1>1, <1>2, AckIndexAppend
<1>4. ASSUME NEW k \in 1..applied[p], answers'[p][f[k]].ok
      PROVE  Happened(p, puts[p][k])'
  <2>1. PICK w : w = puts[p][k]
    OBVIOUS
  <2>2. Happened(p, w)
    BY <1>2, <1>3, <1>4, <2>1
  <2>3. Happened(p, w)'
    BY <2>1, <2>2, AppliedStay
  <2>4. QED
    BY <2>1, <2>3 DEF Happened, Gone
<1>5. AckIndex(answers[p], applied[p], f)'
  BY <1>3 DEF AckIndex
<1>6. QED
  BY <1>4, <1>5 DEF AcksMatch

LEMMA HeldKept ==
    ASSUME Step, NEW p \in Phones, putsToAck'[p] = putsToAck[p], deleted'[p] = deleted[p]
    PROVE  HeldHappened(p)'
<1>1. ASSUME NEW i \in 1..Len(putsToAck[p]), putsToAck[p][i].ok
      PROVE  Happened(p, putsToAck[p][i].write)'
  <2>1. PICK w : w = putsToAck[p][i].write
    OBVIOUS
  <2>2. Happened(p, w)'
    BY <1>1, <2>1, HeldStay
  <2>3. QED
    BY <2>1, <2>2 DEF Happened, Gone
<1>2. \A m \in deleted'[p] : Gone(p, m)'
  BY HeldStay
<1>3. QED
  BY <1>1, <1>2 DEF HeldHappened

LEMMA PutsFirstKept ==
    ASSUME Step, NEW p \in Phones,
           puts'[p] = puts[p], putsToAck'[p] = putsToAck[p], deleted'[p] = deleted[p]
    PROVE  PutsFirst(p)'
<1>1. /\ PutsFirst(p) /\ puts[p] \in Seq(Writes) /\ putsToAck[p] \in Seq(Answered)
      /\ \A m \in Messages : author[m] = p => author'[m] = p
  BY WorldMoves, NobodyAssumption DEF Step, DeliveryInv, PhoneInv, TypeOK
<1>2. /\ \A j \in 1..Len(puts[p]) : puts[p][j].id \in Messages
      /\ \A i \in 1..Len(putsToAck[p]) : putsToAck[p][i].write.id \in Messages
  <2>1. \A j \in 1..Len(puts[p]) : puts[p][j] \in Writes
    BY <1>1, ElementOfSeq
  <2>2. \A i \in 1..Len(putsToAck[p]) : putsToAck[p][i] \in Answered
    BY <1>1, ElementOfSeq
  <2>3. QED
    BY <2>1, <2>2 DEF Writes, Answered
<1>3. QED
  BY <1>1, <1>2 DEF PutsFirst

LEMMA KnownKept ==
    ASSUME Step, NEW p \in Phones,
           puts'[p] = puts[p], putsToAck'[p] = putsToAck[p], deleted'[p] = deleted[p],
           deletedMessageIds'[p] = deletedMessageIds[p], cache'[p] = cache[p],
           \A i \in 1..Len(answers'[p]) : \A m \in answers'[p][i].snap : arrivals'[m] >= 1
    PROVE  KnownIds(p)'
<1>1. /\ KnownIds(p) /\ puts[p] \in Seq(Writes) /\ putsToAck[p] \in Seq(Answered)
      /\ deletedMessageIds[p] \in Seq(Messages) /\ cache[p] \subseteq Messages
      /\ deleted[p] \subseteq Messages
  BY DEF Step, DeliveryInv, PhoneInv, TypeOK
<1>2. /\ \A j \in 1..Len(puts[p]) : puts[p][j].id \in Messages
      /\ \A i \in 1..Len(putsToAck[p]) : putsToAck[p][i].write.id \in Messages
      /\ \A i \in 1..Len(deletedMessageIds[p]) : deletedMessageIds[p][i] \in Messages
  <2>1. \A j \in 1..Len(puts[p]) : puts[p][j] \in Writes
    BY <1>1, ElementOfSeq
  <2>2. \A i \in 1..Len(putsToAck[p]) : putsToAck[p][i] \in Answered
    BY <1>1, ElementOfSeq
  <2>3. QED
    BY <1>1, <2>1, <2>2, ElementOfSeq DEF Writes, Answered
<1>3. \A m \in Messages : Known(p, m) => Known(p, m)'
  BY HappenedAll
<1>4. \A m \in Messages : arrivals[m] >= 1 => arrivals'[m] >= 1
  <2>1. TypeOK /\ Next /\ arrivals' \in [Messages -> 0..2]
    BY DEF Step, DeliveryInv, TypeOK
  <2>2. \A m \in Messages : arrivals'[m] >= arrivals[m] /\ arrivals[m] \in 0..2
    BY <2>1, WorldMoves
  <2>3. QED
    BY <2>1, <2>2
<1>5. QED
  BY <1>1, <1>2, <1>3, <1>4 DEF KnownIds, Known

\* A phone that at most receives news.
LEMMA Bystander ==
    ASSUME Step, NEW p \in Phones, NEW t \in Seq(Answers),
           puts'[p] = puts[p], putsToAck'[p] = putsToAck[p], deleted'[p] = deleted[p],
           deletedMessageIds'[p] = deletedMessageIds[p], cache'[p] = cache[p],
           applied'[p] = applied[p], answers'[p] = answers[p] \o t,
           \A i \in 1..Len(t) : t[i].kind # "ack" /\ \A m \in t[i].snap : arrivals'[m] >= 1
    PROVE  PhoneInv(p)'
<1>1. AcksMatch(p)'
  BY AcksKept
<1>2. HeldHappened(p)' /\ PutsFirst(p)'
  BY HeldKept, PutsFirstKept
<1>3. /\ answers[p] \in Seq(Answers) /\ KnownIds(p) /\ TypeOK /\ TypeOK' /\ Next
      /\ arrivals' \in [Messages -> 0..2]
  BY DEF Step, DeliveryInv, PhoneInv, TypeOK
<1>4. ASSUME NEW i \in 1..Len(answers'[p]), NEW m \in answers'[p][i].snap
      PROVE  arrivals'[m] >= 1
  <2>1. /\ Len(answers[p]) \in Nat /\ Len(t) \in Nat
        /\ i \in 1..(Len(answers[p]) + Len(t))
        /\ answers'[p][i] = IF i <= Len(answers[p]) THEN answers[p][i] ELSE t[i - Len(answers[p])]
    BY <1>3, ConcatProperties
  <2>2. CASE i <= Len(answers[p])
    <3>1. i \in 1..Len(answers[p]) /\ m \in answers[p][i].snap
      BY <2>1, <2>2
    <3>2. arrivals[m] >= 1 /\ answers[p][i] \in Answers
      BY <1>3, <3>1, ElementOfSeq DEF KnownIds
    <3>3. m \in Messages
      BY <3>1, <3>2 DEF Answers
    <3>4. arrivals'[m] >= arrivals[m] /\ arrivals[m] \in 0..2
      BY <1>3, <3>3, WorldMoves
    <3>5. QED
      BY <1>3, <3>2, <3>3, <3>4
  <2>3. CASE ~(i <= Len(answers[p]))
    <3>1. i - Len(answers[p]) \in 1..Len(t) /\ m \in t[i - Len(answers[p])].snap
      BY <2>1, <2>3
    <3>2. QED
      BY <3>1
  <2>4. QED
    BY <2>2, <2>3
<1>5. KnownIds(p)'
  BY <1>4, KnownKept
<1>6. QED
  BY <1>1, <1>2, <1>5 DEF PhoneInv

LEMMA Unaffected ==
    ASSUME Step, NEW p \in Phones,
           puts'[p] = puts[p], putsToAck'[p] = putsToAck[p], deleted'[p] = deleted[p],
           deletedMessageIds'[p] = deletedMessageIds[p], cache'[p] = cache[p],
           applied'[p] = applied[p], answers'[p] = answers[p]
    PROVE  PhoneInv(p)'
<1>1. answers[p] \in Seq(Answers) /\ <<>> \in Seq(Answers)
  BY DEF Step, DeliveryInv, TypeOK
<1>2. answers'[p] = answers[p] \o <<>>
  BY <1>1, ConcatEmptySeq
<1>3. \A i \in 1..Len(<<>>) : <<>>[i].kind # "ack" /\ \A m \in <<>>[i].snap : arrivals'[m] >= 1
  OBVIOUS
<1>4. QED
  BY <1>1, <1>2, <1>3, Bystander

----------------------------------------------------------------------------
(* The user's steps. *)

LEMMA PhoneFacts ==
    ASSUME Step, NEW p \in Phones
    PROVE  /\ TypeOK /\ TypeOK' /\ ServerInv /\ Next
           /\ AcksMatch(p) /\ HeldHappened(p) /\ PutsFirst(p) /\ KnownIds(p)
BY DEF Step, DeliveryInv, PhoneInv

LEMMA PhoneTypes ==
    ASSUME TypeOK, NEW p \in Phones
    PROVE  /\ puts \in [Phones -> Seq(Writes)] /\ puts[p] \in Seq(Writes)
           /\ putsToAck[p] \in Seq(Answered) /\ answers[p] \in Seq(Answers)
           /\ deletedMessageIds[p] \in Seq(Messages)
           /\ cache[p] \subseteq Messages /\ deleted[p] \subseteq Messages
           /\ applied[p] \in Nat /\ applied[p] <= Len(puts[p]) /\ Len(puts[p]) \in Nat
           /\ \A j \in 1..Len(puts[p]) : puts[p][j] \in Writes /\ puts[p][j].id \in Messages
           /\ \A i \in 1..Len(putsToAck[p]) :
                 putsToAck[p][i] \in Answered /\ putsToAck[p][i].write.id \in Messages
           /\ \A i \in 1..Len(deletedMessageIds[p]) : deletedMessageIds[p][i] \in Messages
<1>1. /\ puts \in [Phones -> Seq(Writes)] /\ puts[p] \in Seq(Writes)
      /\ putsToAck[p] \in Seq(Answered) /\ answers[p] \in Seq(Answers)
      /\ deletedMessageIds[p] \in Seq(Messages)
      /\ cache[p] \subseteq Messages /\ deleted[p] \subseteq Messages
      /\ applied[p] \in Nat /\ applied[p] <= Len(puts[p]) /\ Len(puts[p]) \in Nat
  BY DEF TypeOK
<1>2. /\ \A j \in 1..Len(puts[p]) : puts[p][j] \in Writes
      /\ \A i \in 1..Len(putsToAck[p]) : putsToAck[p][i] \in Answered
      /\ \A i \in 1..Len(deletedMessageIds[p]) : deletedMessageIds[p][i] \in Messages
  BY <1>1, ElementOfSeq
<1>3. /\ \A w \in Writes : w.id \in Messages
      /\ \A a \in Answered : a.write.id \in Messages
  BY DEF Writes, Answered
<1>4. QED
  BY <1>1, <1>2, <1>3

LEMMA SendStep ==
    ASSUME Step, NEW p \in Phones, NEW m \in Messages, Send(p, m), NEW q \in Phones
    PROVE  PhoneInv(q)'
<1>1. /\ author' = [author EXCEPT ![m] = p] /\ author[m] = Nobody
      /\ puts' = [puts EXCEPT ![p] = Append(@, [op |-> "put", id |-> m])]
      /\ putsToAck' = putsToAck /\ deleted' = deleted /\ applied' = applied
      /\ deletedMessageIds' = deletedMessageIds /\ cache' = cache /\ answers' = answers
      /\ arrivals' = arrivals
  BY DEF Send, historyVars
<1>2. /\ TypeOK /\ TypeOK' /\ ServerInv /\ Next /\ PutsFirst(p) /\ KnownIds(p)
      /\ puts[p] \in Seq(Writes) /\ Len(puts[p]) \in Nat /\ putsToAck[p] \in Seq(Answered)
      /\ puts \in [Phones -> Seq(Writes)] /\ deleted[p] \subseteq Messages
  BY PhoneFacts, PhoneTypes
<1>3. CASE q # p
  BY <1>1, <1>2, <1>3, Unaffected
<1>4. CASE q = p
  <2> DEFINE w == [op |-> "put", id |-> m]
  <2>1. /\ w \in Writes /\ puts'[p] = Append(puts[p], w)
        /\ Len(Append(puts[p], w)) = Len(puts[p]) + 1
        /\ \A i \in 1..Len(puts[p]) : Append(puts[p], w)[i] = puts[p][i]
        /\ Append(puts[p], w)[Len(puts[p]) + 1] = w
    BY <1>1, <1>2, AppendProperties DEF Writes
  <2>2. applied[p] <= Len(puts[p]) /\ applied[p] \in Nat
    BY <1>2 DEF TypeOK
  <2>3. AcksMatch(p)'
    <3>1. \A k \in 1..applied[p] : puts'[p][k] = puts[p][k]
      BY <1>2, <2>1, <2>2
    <3>2. answers'[p] = answers[p] \o <<>> /\ <<>> \in Seq(Answers)
      BY <1>1, ConcatEmptySeq DEF Step, DeliveryInv, TypeOK
    <3>3. \A i \in 1..Len(<<>>) : <<>>[i].kind # "ack"
      OBVIOUS
    <3>4. QED
      BY <1>1, <3>1, <3>2, <3>3, AcksKept
  <2>4. HeldHappened(p)'
    BY <1>1, HeldKept
  <2>5. /\ \A k \in Messages : author[k] = p => author'[k] = p
        /\ author'[m] = p
        /\ \A k \in Messages : Known(p, k) => k # m /\ Known(p, k)'
    <3>1. arrivals[m] \in 0..2 /\ (arrivals[m] >= 1 => author[m] # Nobody)
      BY <1>2 DEF ServerInv, TypeOK
    <3>2. ~Known(p, m)
      BY <1>1, <3>1, NobodyAssumption DEF Known
    <3>3. \A k \in Messages : author[k] = p => author'[k] = p
      BY <1>2, WorldMoves, NobodyAssumption
    <3>4. author'[m] = p
      BY <1>1, <1>2 DEF TypeOK
    <3>5. QED
      BY <3>2, <3>3, <3>4, HappenedAll
  <2>6. \A j \in 1..Len(puts[p]) : puts[p][j] \in Writes /\ puts[p][j].id \in Messages
    BY <1>2, PhoneTypes
  <2>7. \A i \in 1..Len(putsToAck[p]) : putsToAck[p][i].write.id \in Messages
    BY <1>2, PhoneTypes
  <2>8. \A j \in 1..Len(puts'[p]) : \/ j \in 1..Len(puts[p]) /\ puts'[p][j] = puts[p][j]
                                    \/ j = Len(puts[p]) + 1 /\ puts'[p][j] = w
    BY <1>2, <2>1
  <2> HIDE DEF w
  <2>9. w.op = "put" /\ w.id = m
    BY DEF w
  <2>10. PutsFirst(p)'
    <3>1. ASSUME NEW j \in 1..Len(puts'[p]), puts'[p][j].op = "put"
          PROVE  /\ author'[puts'[p][j].id] = p
                 /\ puts'[p][j].id \notin deleted'[p]
                 /\ \A i \in 1..Len(putsToAck'[p]) :
                       putsToAck'[p][i].write # [op |-> "remove", id |-> puts'[p][j].id]
                 /\ \A i \in 1..(j - 1) :
                       puts'[p][i] # [op |-> "remove", id |-> puts'[p][j].id]
      <4>1. CASE j \in 1..Len(puts[p]) /\ puts'[p][j] = puts[p][j]
        <5>1. \A i \in 1..(j - 1) : puts'[p][i] = puts[p][i]
          BY <1>2, <2>1, <4>1
        <5>2. /\ author[puts[p][j].id] = p
              /\ puts[p][j].id \notin deleted[p]
              /\ \A i \in 1..Len(putsToAck[p]) :
                    putsToAck[p][i].write # [op |-> "remove", id |-> puts[p][j].id]
              /\ \A i \in 1..(j - 1) : puts[p][i] # [op |-> "remove", id |-> puts[p][j].id]
          BY <1>2, <3>1, <4>1 DEF PutsFirst
        <5>3. author'[puts[p][j].id] = p
          BY <2>5, <2>6, <4>1, <5>2
        <5>4. QED
          BY <1>1, <4>1, <5>1, <5>2, <5>3
      <4>2. CASE j = Len(puts[p]) + 1 /\ puts'[p][j] = w
        <5>1. author'[m] = p /\ m \notin deleted'[p]
          BY <1>1, <1>2, <2>5 DEF KnownIds
        <5>2. \A i \in 1..Len(putsToAck[p]) : putsToAck[p][i].write.id # m
          BY <1>2, <2>5, <2>7 DEF KnownIds
        <5>3. \A i \in 1..Len(puts[p]) : puts'[p][i].id # m
          BY <1>2, <2>1, <2>5, <2>6 DEF KnownIds
        <5>4. \A i \in 1..(j - 1) : i \in 1..Len(puts[p])
          BY <1>2, <4>2
        <5>5. [op |-> "remove", id |-> m].id = m
          OBVIOUS
        <5>6. QED
          BY <1>1, <2>9, <4>2, <5>1, <5>2, <5>3, <5>4, <5>5
      <4>3. QED
        BY <2>8, <4>1, <4>2
    <3>2. \A i \in 1..Len(putsToAck'[p]) : putsToAck'[p][i].write.op = "put" =>
             author'[putsToAck'[p][i].write.id] = p
      BY <1>1, <1>2, <2>5, <2>7 DEF PutsFirst
    <3>3. QED
      BY <3>1, <3>2 DEF PutsFirst
  <2>11. KnownIds(p)'
    <3>1. \A i \in 1..Len(puts'[p]) : Known(p, puts[p][i].id)'
      <4>1. \A i \in 1..Len(puts[p]) : author'[puts[p][i].id] = p \/ arrivals'[puts[p][i].id] >= 1
        BY <1>2, <2>5, <2>6 DEF KnownIds, Known
      <4>2. ASSUME NEW i \in 1..Len(puts'[p])
            PROVE  author'[puts'[p][i].id] = p \/ arrivals'[puts'[p][i].id] >= 1
        BY <2>5, <2>8, <2>9, <4>1
      <4>3. QED
        BY <4>2 DEF Known
    <3>2. \A i \in 1..Len(deletedMessageIds[p]) : deletedMessageIds[p][i] \in Messages
      BY <1>2, PhoneTypes
    <3>3. \A i \in 1..Len(deletedMessageIds'[p]) : Known(p, deletedMessageIds[p][i])'
      BY <1>1, <1>2, <2>5, <3>2 DEF KnownIds, Known
    <3>4. \A i \in 1..Len(putsToAck'[p]) : Known(p, putsToAck[p][i].write.id)'
      BY <1>1, <1>2, <2>5, <2>7 DEF KnownIds, Known
    <3>5. \A k \in deleted'[p] : Known(p, k)'
      BY <1>1, <1>2, <2>5 DEF KnownIds
    <3>6. /\ \A k \in cache'[p] : arrivals'[k] >= 1
          /\ \A i \in 1..Len(answers'[p]) : \A k \in answers'[p][i].snap : arrivals'[k] >= 1
      BY <1>1, <1>2 DEF KnownIds
    <3>7. QED
      BY <3>1, <3>3, <3>4, <3>5, <3>6 DEF KnownIds, Known
  <2>12. QED
    BY <1>4, <2>3, <2>4, <2>10, <2>11 DEF PhoneInv
<1>5. QED
  BY <1>3, <1>4

Laid(held, sent) == [i \in 1..Len(held) |-> held[i].write] \o sent

LEMMA HeldThenSent ==
    ASSUME NEW held \in Seq(Answered), NEW sent \in Seq(Writes), NEW c, c = Laid(held, sent)
    PROVE  /\ c \in Seq(Writes) /\ Len(c) = Len(held) + Len(sent)
           /\ \A i \in 1..Len(held) : c[i] = held[i].write
           /\ \A i \in 1..Len(sent) : c[Len(held) + i] = sent[i]
           /\ \A i \in 1..Len(c) :
                 \/ i \in 1..Len(held) /\ c[i] = held[i].write
                 \/ i - Len(held) \in 1..Len(sent) /\ c[i] = sent[i - Len(held)]
<1>1. Len(held) \in Nat /\ Len(sent) \in Nat /\ \A i \in 1..Len(held) : held[i] \in Answered
  BY ElementOfSeq
<1>2. \A i \in 1..Len(held) : held[i].write \in Writes
  BY <1>1 DEF Answered
<1> DEFINE h == [i \in 1..Len(held) |-> held[i].write]
<1>3. /\ h \in Seq(Writes) /\ Len(h) = Len(held)
      /\ \A i \in 1..Len(held) : h[i] = held[i].write
      /\ c = h \o sent
  BY <1>1, <1>2 DEF Laid
<1> HIDE DEF h
<1>4. /\ c \in Seq(Writes) /\ Len(c) = Len(held) + Len(sent)
      /\ \A i \in 1..Len(c) : c[i] = IF i <= Len(held) THEN h[i] ELSE sent[i - Len(held)]
  <2>1. h \in Seq(Writes) /\ sent \in Seq(Writes)
    BY <1>3
  <2>2. /\ h \o sent \in Seq(Writes) /\ Len(h \o sent) = Len(h) + Len(sent)
        /\ \A i \in 1..(Len(h) + Len(sent)) :
              (h \o sent)[i] = IF i <= Len(h) THEN h[i] ELSE sent[i - Len(h)]
    BY <2>1, ConcatProperties
  <2>3. QED
    BY <1>3, <2>2
<1>5. \A i \in 1..Len(held) : c[i] = held[i].write
  BY <1>1, <1>3, <1>4
<1>6. ASSUME NEW i \in 1..Len(sent) PROVE c[Len(held) + i] = sent[i]
  <2>1. Len(held) + i \in 1..Len(c) /\ ~(Len(held) + i <= Len(held)) /\ (Len(held) + i) - Len(held) = i
    BY <1>1, <1>4
  <2>2. QED
    BY <1>4, <2>1
<1>7. ASSUME NEW i \in 1..Len(c)
      PROVE  \/ i \in 1..Len(held) /\ c[i] = held[i].write
             \/ i - Len(held) \in 1..Len(sent) /\ c[i] = sent[i - Len(held)]
  BY <1>1, <1>3, <1>4
<1>8. QED
  BY <1>3, <1>4, <1>5, <1>6, <1>7

\* The writes a phone lays over its data: its held ones, then its outstanding ones.
LEMMA PendingEntries ==
    ASSUME TypeOK, NEW p \in Phones, NEW c, c = Pending(p)
    PROVE  /\ c \in Seq(Writes) /\ Len(c) = Len(putsToAck[p]) + Len(puts[p])
           /\ \A i \in 1..Len(putsToAck[p]) : c[i] = putsToAck[p][i].write
           /\ \A i \in 1..Len(puts[p]) : c[Len(putsToAck[p]) + i] = puts[p][i]
           /\ \A i \in 1..Len(c) :
                 \/ i \in 1..Len(putsToAck[p]) /\ c[i] = putsToAck[p][i].write
                 \/ /\ i - Len(putsToAck[p]) \in 1..Len(puts[p])
                    /\ c[i] = puts[p][i - Len(putsToAck[p])]
<1>1. puts[p] \in Seq(Writes) /\ putsToAck[p] \in Seq(Answered)
  BY PhoneTypes
<1>2. PICK held, sent : held = putsToAck[p] /\ sent = puts[p]
  OBVIOUS
<1>3. c = Laid(held, sent) /\ held \in Seq(Answered) /\ sent \in Seq(Writes)
  BY <1>1, <1>2 DEF Pending, Laid
<1>4. /\ c \in Seq(Writes) /\ Len(c) = Len(held) + Len(sent)
      /\ \A i \in 1..Len(held) : c[i] = held[i].write
      /\ \A i \in 1..Len(sent) : c[Len(held) + i] = sent[i]
      /\ \A i \in 1..Len(c) :
            \/ i \in 1..Len(held) /\ c[i] = held[i].write
            \/ i - Len(held) \in 1..Len(sent) /\ c[i] = sent[i - Len(held)]
  BY <1>3, HeldThenSent
<1>5. QED
  BY <1>2, <1>4

LEMMA ShownKnown ==
    ASSUME Step, NEW p \in Phones, NEW m \in Shown(p)
    PROVE  m \in Messages /\ Known(p, m)
<1>1. TypeOK /\ KnownIds(p)
  BY PhoneFacts
<1>2. loaded[p] /\ m \in Client(p)!View
  BY DEF Shown
<1>3. \/ m \in cache[p]
      \/ \E i \in 1..Len(Pending(p)) : Pending(p)[i].id = m
  BY <1>2 DEF Client!View, Client!LastWrite
<1>4. m \in Messages
  BY <1>2 DEF Client!View
<1>5. CASE m \in cache[p]
  BY <1>1, <1>4, <1>5 DEF KnownIds, Known
<1>6. CASE \E i \in 1..Len(Pending(p)) : Pending(p)[i].id = m
  <2>1. PICK c : c = Pending(p)
    OBVIOUS
  <2>2. PICK i \in 1..Len(c) : c[i].id = m
    BY <1>6, <2>1
  <2>3. \/ i \in 1..Len(putsToAck[p]) /\ c[i] = putsToAck[p][i].write
        \/ /\ i - Len(putsToAck[p]) \in 1..Len(puts[p])
           /\ c[i] = puts[p][i - Len(putsToAck[p])]
    BY <1>1, <2>1, PendingEntries
  <2>4. QED
    BY <1>1, <1>4, <2>2, <2>3 DEF KnownIds
<1>7. QED
  BY <1>3, <1>4, <1>5, <1>6

LEMMA LongPressStep ==
    ASSUME Step, NEW p \in Phones, NEW m \in Messages, LongPress(p, m), NEW q \in Phones
    PROVE  PhoneInv(q)'
<1>1. /\ deletedMessageIds' = [deletedMessageIds EXCEPT ![p] = Append(@, m)]
      /\ puts' = puts /\ putsToAck' = putsToAck /\ deleted' = deleted /\ applied' = applied
      /\ cache' = cache /\ answers' = answers /\ author' = author /\ arrivals' = arrivals
      /\ m \in Shown(p)
  BY DEF LongPress, historyVars
<1>2. /\ TypeOK /\ PutsFirst(p) /\ KnownIds(p)
      /\ deletedMessageIds \in [Phones -> Seq(Messages)] /\ deletedMessageIds[p] \in Seq(Messages)
  BY PhoneFacts DEF TypeOK
<1>3. CASE q # p
  BY <1>1, <1>2, <1>3, Unaffected
<1>4. CASE q = p
  <2>1. AcksMatch(p)'
    <3>1. answers'[p] = answers[p] \o <<>> /\ <<>> \in Seq(Answers)
      BY <1>1, <1>2, PhoneTypes, ConcatEmptySeq
    <3>2. \A i \in 1..Len(<<>>) : <<>>[i].kind # "ack"
      OBVIOUS
    <3>3. QED
      BY <1>1, <3>1, <3>2, AcksKept
  <2>2. HeldHappened(p)' /\ PutsFirst(p)'
    BY <1>1, HeldKept, PutsFirstKept
  <2>3. \A i \in 1..Len(deletedMessageIds'[p]) :
           author[deletedMessageIds'[p][i]] = p \/ arrivals[deletedMessageIds'[p][i]] >= 1
    <3>1. author[m] = p \/ arrivals[m] >= 1
      BY <1>1, ShownKnown DEF Known
    <3>2. deletedMessageIds'[p] = Append(deletedMessageIds[p], m)
      BY <1>1, <1>2
    <3>3. \A i \in 1..Len(deletedMessageIds'[p]) :
             \/ i \in 1..Len(deletedMessageIds[p]) /\ deletedMessageIds'[p][i] = deletedMessageIds[p][i]
             \/ deletedMessageIds'[p][i] = m
      BY <1>2, <3>2, AppendProperties
    <3>4. QED
      BY <1>2, <3>1, <3>3 DEF KnownIds, Known
  <2>4. KnownIds(p)'
    BY <1>1, <1>2, <2>3 DEF KnownIds, Known
  <2>5. QED
    BY <1>4, <2>1, <2>2, <2>4 DEF PhoneInv
<1>5. QED
  BY <1>3, <1>4

LEMMA DeleteStep ==
    ASSUME Step, NEW p \in Phones, Delete(p), NEW q \in Phones
    PROVE  PhoneInv(q)'
<1>1. /\ deletedMessageIds' = deletedMessageIds /\ putsToAck' = putsToAck
      /\ deleted' = deleted /\ applied' = applied /\ cache' = cache /\ answers' = answers
      /\ author' = author /\ arrivals' = arrivals
  BY DEF Delete, historyVars
<1>2. puts' = [puts EXCEPT ![p] = @ \o Removals(p)]
  BY DEF Delete, Removals
<1>3. /\ TypeOK /\ PutsFirst(p) /\ KnownIds(p)
      /\ puts \in [Phones -> Seq(Writes)] /\ puts[p] \in Seq(Writes) /\ Len(puts[p]) \in Nat
      /\ applied[p] \in Nat /\ applied[p] <= Len(puts[p])
  BY PhoneFacts, PhoneTypes
<1>4. CASE q # p
  BY <1>1, <1>2, <1>3, <1>4, Unaffected
<1>5. CASE q = p
  <2>1. /\ Removals(p) \in Seq(Writes)
        /\ Len(Removals(p)) = Len(deletedMessageIds[p])
        /\ \A i \in 1..Len(Removals(p)) :
              Removals(p)[i] = [op |-> "remove", id |-> deletedMessageIds[p][i]]
    BY <1>3, RemovalsTyped
  <2>2. puts'[p] = puts[p] \o Removals(p)
    BY <1>2, <1>3
  <2>3. /\ \A i \in 1..Len(puts[p]) : puts'[p][i] = puts[p][i]
        /\ \A i \in 1..Len(puts'[p]) :
              \/ i \in 1..Len(puts[p])
              \/ i - Len(puts[p]) \in 1..Len(Removals(p)) /\ puts'[p][i] = Removals(p)[i - Len(puts[p])]
    BY <1>3, <2>1, <2>2, ConcatProperties
  <2>4. \A i \in 1..Len(puts'[p]) :
           \/ i \in 1..Len(puts[p]) /\ puts'[p][i] = puts[p][i]
           \/ /\ puts'[p][i].op = "remove"
              /\ \E j \in 1..Len(deletedMessageIds[p]) : puts'[p][i].id = deletedMessageIds[p][j]
    <3>1. ASSUME NEW i \in 1..Len(Removals(p))
          PROVE  /\ Removals(p)[i].op = "remove"
                 /\ \E j \in 1..Len(deletedMessageIds[p]) : Removals(p)[i].id = deletedMessageIds[p][j]
      <4>1. Removals(p)[i] = [op |-> "remove", id |-> deletedMessageIds[p][i]]
        BY <2>1
      <4>2. i \in 1..Len(deletedMessageIds[p])
        BY <2>1
      <4>3. Removals(p)[i].op = "remove" /\ Removals(p)[i].id = deletedMessageIds[p][i]
        BY <4>1
      <4>4. QED
        BY <4>2, <4>3
    <3>2. QED
      BY <2>3, <3>1
  <2>5. AcksMatch(p)'
    <3>1. answers'[p] = answers[p] \o <<>> /\ <<>> \in Seq(Answers)
      BY <1>1, <1>3, PhoneTypes, ConcatEmptySeq
    <3>2. \A i \in 1..Len(<<>>) : <<>>[i].kind # "ack"
      OBVIOUS
    <3>3. \A k \in 1..applied[p] : puts'[p][k] = puts[p][k]
      BY <1>3, <2>3
    <3>4. QED
      BY <1>1, <3>1, <3>2, <3>3, AcksKept
  <2>6. HeldHappened(p)'
    BY <1>1, HeldKept
  <2>7. PutsFirst(p)'
    <3>1. ASSUME NEW j \in 1..Len(puts'[p]), puts'[p][j].op = "put"
          PROVE  /\ author'[puts'[p][j].id] = p
                 /\ puts'[p][j].id \notin deleted'[p]
                 /\ \A i \in 1..Len(putsToAck'[p]) :
                       putsToAck'[p][i].write # [op |-> "remove", id |-> puts'[p][j].id]
                 /\ \A i \in 1..(j - 1) :
                       puts'[p][i] # [op |-> "remove", id |-> puts'[p][j].id]
      <4>1. j \in 1..Len(puts[p]) /\ puts'[p][j] = puts[p][j]
        BY <2>4, <3>1
      <4>2. \A i \in 1..(j - 1) : puts'[p][i] = puts[p][i]
        BY <1>3, <2>3, <4>1
      <4>3. /\ author[puts[p][j].id] = p
            /\ puts[p][j].id \notin deleted[p]
            /\ \A i \in 1..Len(putsToAck[p]) :
                  putsToAck[p][i].write # [op |-> "remove", id |-> puts[p][j].id]
            /\ \A i \in 1..(j - 1) : puts[p][i] # [op |-> "remove", id |-> puts[p][j].id]
        BY <1>3, <3>1, <4>1 DEF PutsFirst
      <4>4. QED
        BY <1>1, <4>1, <4>2, <4>3
    <3>2. QED
      BY <1>1, <1>3, <3>1 DEF PutsFirst
  <2>8. KnownIds(p)'
    <3>1. ASSUME NEW i \in 1..Len(puts'[p])
          PROVE  author[puts'[p][i].id] = p \/ arrivals[puts'[p][i].id] >= 1
      BY <1>3, <2>4 DEF KnownIds, Known
    <3>2. QED
      BY <1>1, <1>3, <3>1 DEF KnownIds, Known
  <2>9. QED
    BY <1>5, <2>5, <2>6, <2>7, <2>8 DEF PhoneInv
<1>6. QED
  BY <1>4, <1>5

----------------------------------------------------------------------------
(* The connection. *)

\* On a new connection no answer is under way.
LEMMA NoAcks ==
    ASSUME NEW p \in Phones, applied'[p] = 0, answers'[p] = <<>>
    PROVE  AcksMatch(p)'
<1> DEFINE f == [k \in 1..0 |-> 1]
<1>1. 1..0 = {}
  OBVIOUS
<1>2. f \in [1..0 -> 1..Len(<<>>)]
  BY <1>1
<1>3. /\ \A i \in 1..Len(<<>>) : FALSE
      /\ \A k \in 1..0 : FALSE
  OBVIOUS
<1> HIDE DEF f
<1>4. AckIndex(answers[p], applied[p], f)'
  BY <1>2, <1>3 DEF AckIndex
<1>5. QED
  BY <1>3, <1>4 DEF AcksMatch

LEMMA ConnectionStep ==
    ASSUME Step, NEW p \in Phones, Connect(p) \/ Lose(p) \/ Kill(p), NEW q \in Phones
    PROVE  PhoneInv(q)'
<1>1. TypeOK /\ PutsFirst(p) /\ KnownIds(p)
  BY PhoneFacts
<1>2. CASE Connect(p)
  BY <1>2, Unaffected DEF Connect, historyVars
<1>3. ASSUME Lose(p) \/ Kill(p), q # p PROVE PhoneInv(q)'
  <2>1. /\ puts'[q] = puts[q] /\ putsToAck'[q] = putsToAck[q] /\ deleted' = deleted
        /\ deletedMessageIds'[q] = deletedMessageIds[q] /\ cache'[q] = cache[q]
    <3>1. CASE Lose(p)
      BY <3>1 DEF Lose, historyVars
    <3>2. CASE Kill(p)
      BY <1>3, <3>2, <1>1 DEF Kill, historyVars, TypeOK
    <3>3. QED
      BY <1>3, <3>1, <3>2
  <2>2. applied'[q] = applied[q] /\ answers'[q] = answers[q]
    BY <1>1, <1>3 DEF Lose, Kill, Disconnected, TypeOK
  <2>3. QED
    BY <2>1, <2>2, Unaffected
<1>4. ASSUME Lose(p) \/ Kill(p) PROVE AcksMatch(p)'
  <2>1. applied'[p] = 0 /\ answers'[p] = <<>>
    BY <1>1, <1>4 DEF Lose, Kill, Disconnected, TypeOK
  <2>2. QED
    BY <2>1, NoAcks
<1>5. ASSUME Lose(p) PROVE PhoneInv(p)'
  <2>1. /\ puts' = puts /\ putsToAck' = putsToAck /\ deleted' = deleted /\ cache' = cache
        /\ deletedMessageIds' = deletedMessageIds
    BY <1>5 DEF Lose, historyVars
  <2>2. answers'[p] = <<>>
    BY <1>1, <1>5 DEF Lose, Disconnected, TypeOK
  <2>3. HeldHappened(p)' /\ PutsFirst(p)'
    BY <2>1, HeldKept, PutsFirstKept
  <2>4. KnownIds(p)'
    BY <2>1, <2>2, KnownKept
  <2>5. QED
    BY <1>4, <1>5, <2>3, <2>4 DEF PhoneInv
<1>6. ASSUME Kill(p) PROVE PhoneInv(p)'
  <2>1. /\ puts'[p] = <<>> /\ putsToAck'[p] = <<>> /\ cache'[p] = {}
        /\ deletedMessageIds'[p] = <<>> /\ answers'[p] = <<>>
    BY <1>1, <1>6 DEF Kill, Disconnected, TypeOK
  <2>2. deleted' = deleted
    BY <1>6 DEF Kill, historyVars
  <2>3. \A m \in deleted'[p] : Gone(p, m)'
    BY <2>2, HeldStay
  <2>4. \A m \in deleted'[p] : Known(p, m)'
    BY <1>1, <2>2, PhoneTypes, HappenedAll DEF KnownIds
  <2>5. HeldHappened(p)'
    BY <2>1, <2>3 DEF HeldHappened
  <2>6. PutsFirst(p)'
    BY <2>1 DEF PutsFirst
  <2>7. KnownIds(p)'
    BY <2>1, <2>4 DEF KnownIds
  <2>8. QED
    BY <1>4, <1>6, <2>5, <2>6, <2>7 DEF PhoneInv
<1>7. QED
  BY <1>2, <1>3, <1>5, <1>6

LEMMA ServerListenStep ==
    ASSUME Step, NEW p \in Phones, ServerListen(p), NEW q \in Phones
    PROVE  PhoneInv(q)'
<1>1. /\ puts' = puts /\ putsToAck' = putsToAck /\ deleted' = deleted /\ cache' = cache
      /\ deletedMessageIds' = deletedMessageIds /\ applied' = applied /\ arrivals' = arrivals
      /\ answers' = [answers EXCEPT ![p] = @ \o <<Data(stored), Listening>>]
  BY DEF ServerListen, historyVars
<1>2. TypeOK /\ ServerInv
  BY PhoneFacts
<1>3. CASE q # p
  BY <1>1, <1>2, <1>3, Unaffected DEF TypeOK
<1>4. CASE q = p
  <2> DEFINE t == <<Data(stored), Listening>>
  <2>1. t \in Seq(Answers) /\ answers'[p] = answers[p] \o t
    BY <1>1, <1>2, AnswersTyped, SMTT(30) DEF TypeOK
  <2>2. \A i \in 1..Len(t) : t[i].kind # "ack" /\ \A m \in t[i].snap : arrivals'[m] >= 1
    <3>1. /\ Len(t) = 2 /\ t[1] = Data(stored) /\ t[2] = Listening
          /\ \A i \in 1..2 : i = 1 \/ i = 2
      OBVIOUS
    <3>2. /\ Data(stored).kind # "ack" /\ Data(stored).snap = stored
          /\ Listening.kind # "ack" /\ Listening.snap = {}
      BY DEF Data, Listening
    <3>3. \A m \in stored : arrivals'[m] >= 1
      BY <1>1, <1>2 DEF ServerInv
    <3>4. QED
      BY <3>1, <3>2, <3>3
  <2> HIDE DEF t
  <2>3. QED
    BY <1>1, <1>4, <2>1, <2>2, Bystander
<1>5. QED
  BY <1>3, <1>4

----------------------------------------------------------------------------
(* A write at the server. *)

LEMMA ArrivedWhenStored ==
    ASSUME Step, NEW p \in Phones, NEW ok \in BOOLEAN, ServerWrite(p, ok)
    PROVE  \A m \in stored' : arrivals'[m] >= 1
<1>1. /\ TypeOK /\ ServerInv /\ Next
      /\ arrivals \in [Messages -> 0..2] /\ arrivals' \in [Messages -> 0..2]
      /\ stored' \subseteq Messages
  BY PhoneFacts DEF TypeOK
<1>2. SUFFICES ASSUME NEW m \in stored' PROVE arrivals'[m] >= 1
  OBVIOUS
<1>3. CASE m \in stored
  <2>1. arrivals[m] >= 1 /\ arrivals'[m] >= arrivals[m]
    BY <1>1, <1>2, <1>3, WorldMoves DEF ServerInv
  <2>2. QED
    BY <1>1, <1>2, <2>1
<1>4. CASE m \notin stored
  <2>1. ok /\ NextWrite(p).op = "put" /\ NextWrite(p).id = m
    BY <1>2, <1>4, ServerWriteEffect
  <2>2. arrivals' = IF arrivals[m] < 2 THEN [arrivals EXCEPT ![m] = @ + 1] ELSE arrivals
    BY <2>1, ServerWriteEffect
  <2>3. CASE arrivals[m] < 2
    BY <1>1, <1>2, <2>2, <2>3
  <2>4. CASE ~(arrivals[m] < 2)
    BY <1>1, <1>2, <2>2, <2>4
  <2>5. QED
    BY <2>3, <2>4
<1>5. QED
  BY <1>3, <1>4

LEMMA ServerWriteOther ==
    ASSUME Step, NEW p \in Phones, NEW ok \in BOOLEAN, ServerWrite(p, ok),
           NEW q \in Phones, q # p
    PROVE  PhoneInv(q)'
<1>1. /\ puts' = puts /\ putsToAck' = putsToAck /\ deleted' = deleted /\ cache' = cache
      /\ deletedMessageIds' = deletedMessageIds
  BY DEF ServerWrite
<1>2. /\ applied' = [applied EXCEPT ![p] = @ + 1]
      /\ answers' = [r \in Phones |->
                       answers[r] \o News(r) \o (IF r = p THEN <<Ack(ok)>> ELSE <<>>)]
  BY ServerWriteEffect
<1>3. TypeOK /\ TypeOK' /\ ServerInv /\ answers[q] \in Seq(Answers)
  BY PhoneFacts, PhoneTypes
<1>4. applied'[q] = applied[q]
  BY <1>2, <1>3 DEF TypeOK
<1>5. /\ News(q) \in Seq(Answers)
      /\ \A i \in 1..Len(News(q)) : News(q)[i].kind # "ack" /\ News(q)[i].snap = stored'
  BY <1>3, NewsTyped DEF TypeOK
<1>6. answers'[q] = answers[q] \o News(q)
  <2>1. answers[q] \o News(q) \in Seq(Answers)
    BY <1>3, <1>5, ConcatProperties
  <2>2. answers'[q] = (answers[q] \o News(q)) \o <<>>
    BY <1>2
  <2>3. QED
    BY <2>1, <2>2, ConcatEmptySeq
<1>7. \A m \in stored' : arrivals'[m] >= 1
  BY ArrivedWhenStored
<1>8. \A i \in 1..Len(News(q)) : News(q)[i].kind # "ack" /\ \A m \in News(q)[i].snap : arrivals'[m] >= 1
  BY <1>5, <1>7
<1>9. QED
  BY <1>1, <1>4, <1>5, <1>6, <1>8, Bystander

\* What the handling of a write reports has happened.
LEMMA WriteHappened ==
    ASSUME Step, NEW p \in Phones, ServerWrite(p, TRUE), NEW w, w = NextWrite(p)
    PROVE  Happened(p, w)'
<1>1. w \in Writes
  BY PhoneFacts, NextWriteTyped, ServerWriteEffect
<1>2. CASE w.op = "put"
  BY <1>2, ServerWriteEffect DEF Happened
<1>3. CASE w.op # "put"
  BY <1>3, ServerWriteEffect DEF Happened, Gone
<1>4. QED
  BY <1>2, <1>3

LEMMA ServerWriteSelf ==
    ASSUME Step, NEW p \in Phones, NEW ok \in BOOLEAN, ServerWrite(p, ok)
    PROVE  PhoneInv(p)'
<1>1. /\ puts' = puts /\ putsToAck' = putsToAck /\ deleted' = deleted /\ cache' = cache
      /\ deletedMessageIds' = deletedMessageIds
  BY DEF ServerWrite
<1>2. /\ TypeOK /\ TypeOK' /\ answers[p] \in Seq(Answers) /\ AcksMatch(p) /\ KnownIds(p)
      /\ applied[p] \in Nat
  BY PhoneFacts, PhoneTypes
<1>3. applied'[p] = applied[p] + 1
  <2>1. applied' = [applied EXCEPT ![p] = @ + 1]
    BY ServerWriteEffect
  <2>2. QED
    BY <1>2, <2>1 DEF TypeOK
<1>4. PICK t : t = News(p)
  OBVIOUS
<1>5. /\ t \in Seq(Answers)
      /\ \A i \in 1..Len(t) : t[i].kind # "ack" /\ t[i].snap = stored'
  BY <1>2, <1>4, NewsTyped DEF TypeOK
<1>6. PICK s : s = answers[p] \o t
  OBVIOUS
<1>7. /\ s \in Seq(Answers) /\ Len(s) = Len(answers[p]) + Len(t) /\ Len(answers[p]) \in Nat /\ Len(t) \in Nat
      /\ \A i \in 1..Len(s) : s[i] = IF i <= Len(answers[p]) THEN answers[p][i] ELSE t[i - Len(answers[p])]
  BY <1>2, <1>5, <1>6, ConcatProperties
<1> PICK a : a = Ack(ok)
  OBVIOUS
<1>8. /\ answers'[p] = Append(s, a) /\ a \in Answers
      /\ a.kind = "ack" /\ a.ok = ok /\ a.snap = {}
  <2>1. answers'[p] = (answers[p] \o News(p)) \o <<Ack(ok)>>
    BY ServerWriteEffect
  <2>2. answers'[p] = s \o <<a>>
    BY <1>4, <1>6, <2>1
  <2>3. a \in Answers
    BY AnswersTyped
  <2>4. s \o <<a>> = Append(s, a)
    BY <1>7, <2>3, AppendIsConcat
  <2>5. QED
    BY <2>2, <2>3, <2>4 DEF Ack
<1>9. /\ Len(Append(s, a)) = Len(s) + 1 /\ Len(s) \in Nat
      /\ \A i \in 1..Len(s) : Append(s, a)[i] = s[i]
      /\ Append(s, a)[Len(s) + 1] = a
  BY <1>7, <1>8, AppendProperties, SMTT(30)
<1>10. PICK f : /\ AckIndex(answers[p], applied[p], f)
                /\ \A k \in 1..applied[p] : answers[p][f[k]].ok => Happened(p, puts[p][k])
  BY <1>2 DEF AcksMatch
<1>11. /\ AckIndex(s, applied[p], f)
       /\ \A k \in 1..applied[p] : f[k] \in 1..Len(answers[p]) /\ s[f[k]] = answers[p][f[k]]
  <2>1. \A i \in 1..Len(t) : t[i].kind # "ack"
    BY <1>5
  <2>2. /\ AckIndex(answers[p] \o t, applied[p], f)
        /\ \A k \in 1..applied[p] : f[k] \in 1..Len(answers[p]) /\ (answers[p] \o t)[f[k]] = answers[p][f[k]]
    BY <1>2, <1>5, <1>10, <2>1, AckIndexAppend
  <2>3. QED
    BY <1>6, <2>2
<1> PICK n : n = applied[p]
  OBVIOUS
<1>12. PICK g : /\ AckIndex(Append(s, a), n + 1, g)
                /\ \A k \in 1..n : g[k] = f[k]
                /\ g[n + 1] = Len(s) + 1
  <2>1. n \in Nat /\ s \in Seq(Answers) /\ a \in Answers /\ a.kind = "ack" /\ AckIndex(s, n, f)
    BY <1>2, <1>7, <1>8, <1>11
  <2>2. QED
    BY <2>1, AckIndexNext
<1>13. ASSUME NEW k \in 1..(applied[p] + 1), answers'[p][g[k]].ok
       PROVE  Happened(p, puts[p][k])'
  <2>1. PICK w : w = puts[p][k]
    OBVIOUS
  <2>2. CASE k \in 1..applied[p]
    <3>1. f[k] \in 1..Len(s)
      BY <1>7, <1>11, <2>2
    <3>2. answers'[p][g[k]] = answers[p][f[k]]
      BY <1>8, <1>9, <1>11, <1>12, <2>2, <3>1
    <3>3. Happened(p, w)
      BY <1>10, <1>13, <2>1, <2>2, <3>2
    <3>4. Happened(p, w)'
      BY <2>1, <2>2, <3>3, AppliedStay
    <3>5. QED
      BY <1>1, <2>1, <3>4 DEF Happened, Gone
  <2>3. CASE k = applied[p] + 1
    <3>1. answers'[p][g[k]] = a
      BY <1>8, <1>9, <1>12, <2>3
    <3>2. ok = TRUE
      BY <1>8, <1>13, <3>1
    <3>3. w = NextWrite(p)
      BY <2>1, <2>3 DEF NextWrite
    <3>4. Happened(p, w)'
      BY <3>2, <3>3, WriteHappened
    <3>5. QED
      BY <1>1, <2>1, <3>4 DEF Happened, Gone
  <2>4. QED
    BY <1>2, <2>2, <2>3
<1>14. AcksMatch(p)'
  <2>1. AckIndex(answers[p], applied[p], g)'
    BY <1>3, <1>8, <1>12 DEF AckIndex
  <2>2. QED
    BY <1>3, <1>13, <2>1 DEF AcksMatch
<1>15. HeldHappened(p)' /\ PutsFirst(p)'
  BY <1>1, HeldKept, PutsFirstKept
<1>16. ASSUME NEW i \in 1..Len(answers'[p]), NEW m \in answers'[p][i].snap
       PROVE  arrivals'[m] >= 1
  <2>1. answers'[p] = Append(s, a)
    BY <1>8
  <2>2. i \in 1..Len(s) /\ m \in s[i].snap
    <3>1. CASE i = Len(s) + 1
      BY <1>8, <1>9, <1>16, <3>1
    <3>2. CASE i \in 1..Len(s)
      BY <1>9, <1>16, <2>1, <3>2
    <3>3. QED
      BY <1>9, <2>1, <3>1, <3>2
  <2>3. CASE i <= Len(answers[p])
    <3>1. i \in 1..Len(answers[p]) /\ m \in answers[p][i].snap
      BY <1>7, <2>2, <2>3
    <3>2. arrivals[m] >= 1 /\ answers[p][i] \in Answers
      BY <1>2, <3>1, ElementOfSeq DEF KnownIds
    <3>3. m \in Messages
      BY <3>1, <3>2 DEF Answers
    <3>4. arrivals'[m] >= arrivals[m] /\ arrivals[m] \in 0..2 /\ arrivals'[m] \in 0..2
      BY <1>2, <3>3, PhoneFacts, WorldMoves DEF TypeOK
    <3>5. QED
      BY <3>2, <3>4
  <2>4. CASE ~(i <= Len(answers[p]))
    <3>1. i - Len(answers[p]) \in 1..Len(t) /\ m \in t[i - Len(answers[p])].snap
      BY <1>7, <2>2, <2>4, SMTT(30)
    <3>2. m \in stored'
      BY <1>5, <3>1
    <3>3. QED
      BY <3>2, ArrivedWhenStored
  <2>5. QED
    BY <2>3, <2>4
<1>17. KnownIds(p)'
  BY <1>1, <1>16, KnownKept
<1>18. QED
  BY <1>14, <1>15, <1>17 DEF PhoneInv

LEMMA ServerWriteStep ==
    ASSUME Step, NEW p \in Phones, NEW ok \in BOOLEAN, ServerWrite(p, ok), NEW q \in Phones
    PROVE  PhoneInv(q)'
BY ServerWriteSelf, ServerWriteOther

----------------------------------------------------------------------------
(* What a phone receives. *)

\* The answers left after the first one still tell of messages that exist.
LEMMA TailSnaps ==
    ASSUME Step, NEW p \in Phones, answers[p] # <<>>, answers'[p] = Tail(answers[p])
    PROVE  \A i \in 1..Len(answers'[p]) : \A m \in answers'[p][i].snap : arrivals'[m] >= 1
<1>1. /\ TypeOK /\ TypeOK' /\ Next /\ KnownIds(p) /\ answers[p] \in Seq(Answers)
      /\ arrivals' \in [Messages -> 0..2]
  BY PhoneFacts, PhoneTypes DEF TypeOK
<1>2. SUFFICES ASSUME NEW i \in 1..Len(Tail(answers[p])), NEW m \in Tail(answers[p])[i].snap
               PROVE  arrivals'[m] >= 1
  OBVIOUS
<1>3. i + 1 \in 1..Len(answers[p]) /\ Tail(answers[p])[i] = answers[p][i + 1]
  BY <1>1, TailTyped
<1>4. arrivals[m] >= 1 /\ answers[p][i + 1] \in Answers
  BY <1>1, <1>2, <1>3, ElementOfSeq DEF KnownIds
<1>5. m \in Messages
  BY <1>2, <1>3, <1>4 DEF Answers
<1>6. arrivals'[m] >= arrivals[m] /\ arrivals[m] \in 0..2
  BY <1>1, <1>5, WorldMoves
<1>7. QED
  BY <1>1, <1>4, <1>5, <1>6

\* Receiving something that is not an acknowledgement.
LEMMA AcksAfterOther ==
    ASSUME Step, NEW p \in Phones, answers[p] # <<>>, Head(answers[p]).kind # "ack",
           answers'[p] = Tail(answers[p]), applied'[p] = applied[p], puts'[p] = puts[p]
    PROVE  AcksMatch(p)'
<1>1. /\ TypeOK /\ AcksMatch(p) /\ answers[p] \in Seq(Answers) /\ applied[p] \in Nat
  BY PhoneFacts, PhoneTypes
<1>2. PICK f : /\ AckIndex(answers[p], applied[p], f)
               /\ \A k \in 1..applied[p] : answers[p][f[k]].ok => Happened(p, puts[p][k])
  BY <1>1 DEF AcksMatch
<1>3. PICK g : /\ AckIndex(Tail(answers[p]), applied[p], g)
               /\ \A k \in 1..applied[p] :
                     g[k] = f[k] - 1 /\ Tail(answers[p])[g[k]] = answers[p][f[k]]
  BY <1>1, <1>2, AckIndexTailOther
<1>4. ASSUME NEW k \in 1..applied[p], answers'[p][g[k]].ok
      PROVE  Happened(p, puts[p][k])'
  <2>1. PICK w : w = puts[p][k]
    OBVIOUS
  <2>2. Happened(p, w)
    BY <1>2, <1>3, <1>4, <2>1
  <2>3. Happened(p, w)'
    BY <2>1, <2>2, AppliedStay
  <2>4. QED
    BY <2>1, <2>3 DEF Happened, Gone
<1>5. AckIndex(answers[p], applied[p], g)'
  BY <1>3 DEF AckIndex
<1>6. QED
  BY <1>4, <1>5 DEF AcksMatch

LEMMA DataArrivesStep ==
    ASSUME Step, NEW p \in Phones, DataArrives(p), NEW q \in Phones
    PROVE  PhoneInv(q)'
<1>1. /\ puts' = puts /\ putsToAck' = putsToAck /\ deleted' = deleted /\ applied' = applied
      /\ deletedMessageIds' = deletedMessageIds /\ author' = author /\ arrivals' = arrivals
      /\ cache' = [cache EXCEPT ![p] = Head(answers[p]).snap]
      /\ answers' = [answers EXCEPT ![p] = Tail(@)]
      /\ answers[p] # <<>> /\ Head(answers[p]).kind = "data"
  BY DEF DataArrives, FirstAnswer, historyVars
<1>2. TypeOK /\ KnownIds(p) /\ answers[p] \in Seq(Answers)
  BY PhoneFacts, PhoneTypes
<1>3. CASE q # p
  BY <1>1, <1>2, <1>3, Unaffected DEF TypeOK
<1>4. CASE q = p
  <2>1. answers'[p] = Tail(answers[p]) /\ cache'[p] = Head(answers[p]).snap
    BY <1>1, <1>2 DEF TypeOK
  <2>2. AcksMatch(p)'
    BY <1>1, <2>1, AcksAfterOther
  <2>3. HeldHappened(p)' /\ PutsFirst(p)'
    BY <1>1, HeldKept, PutsFirstKept
  <2>4. \A i \in 1..Len(answers'[p]) : \A m \in answers'[p][i].snap : arrivals'[m] >= 1
    BY <1>1, <2>1, TailSnaps
  <2>5. \A m \in cache'[p] : arrivals'[m] >= 1
    <3>1. 1 \in 1..Len(answers[p]) /\ Head(answers[p]) = answers[p][1]
      BY <1>1, <1>2, TailTyped
    <3>2. QED
      BY <1>1, <1>2, <2>1, <3>1 DEF KnownIds
  <2>6. KnownIds(p)'
    BY <1>1, <1>2, <2>4, <2>5 DEF KnownIds, Known
  <2>7. QED
    BY <1>4, <2>2, <2>3, <2>6 DEF PhoneInv
<1>5. QED
  BY <1>3, <1>4

LEMMA ListenAnsweredStep ==
    ASSUME Step, NEW p \in Phones, ListenAnswered(p), NEW q \in Phones
    PROVE  PhoneInv(q)'
<1>1. /\ puts' = puts /\ applied' = applied /\ cache' = cache
      /\ deletedMessageIds' = deletedMessageIds /\ author' = author
      /\ putsToAck' = [putsToAck EXCEPT ![p] = <<>>]
      /\ answers' = [answers EXCEPT ![p] = Tail(@)]
      /\ answers[p] # <<>> /\ Head(answers[p]).kind = "listening"
      /\ Complete(p, ToSet(putsToAck[p]))
  BY DEF ListenAnswered, FirstAnswer
<1>2. /\ arrivals' = arrivals
      /\ deleted' = [deleted EXCEPT ![p] =
           @ \cup {a.write.id : a \in {x \in ToSet(putsToAck[p]) : x.ok /\ x.write.op = "remove"}}]
  BY <1>1 DEF Complete
<1>3. /\ TypeOK /\ TypeOK' /\ PutsFirst(p) /\ KnownIds(p) /\ answers[p] \in Seq(Answers)
      /\ putsToAck[p] \in Seq(Answered)
  BY PhoneFacts, PhoneTypes
<1>4. CASE q # p
  BY <1>1, <1>2, <1>3, <1>4, Unaffected DEF TypeOK
<1>5. CASE q = p
  <2>1. answers'[p] = Tail(answers[p]) /\ putsToAck'[p] = <<>>
    BY <1>1, <1>3 DEF TypeOK
  <2>2. deleted'[p] = deleted[p] \cup
           {a.write.id : a \in {x \in ToSet(putsToAck[p]) : x.ok /\ x.write.op = "remove"}}
    BY <1>2, <1>3 DEF TypeOK
  <2>3. ASSUME NEW m \in deleted'[p]
        PROVE  \/ m \in deleted[p]
               \/ \E i \in 1..Len(putsToAck[p]) :
                     /\ putsToAck[p][i].ok /\ putsToAck[p][i].write.op = "remove"
                     /\ putsToAck[p][i].write.id = m
    BY <1>3, <2>2 DEF ToSet
  <2>4. AcksMatch(p)'
    BY <1>1, <2>1, AcksAfterOther
  <2>5. ASSUME NEW m \in deleted'[p]
        PROVE  Gone(p, m)'
    <3>1. CASE m \in deleted[p]
      BY <3>1, HeldStay
    <3>2. ASSUME NEW i \in 1..Len(putsToAck[p]),
                 putsToAck[p][i].ok, putsToAck[p][i].write.op = "remove",
                 putsToAck[p][i].write.id = m
          PROVE  Gone(p, m)'
      <4>1. PICK w : w = putsToAck[p][i].write
        OBVIOUS
      <4>2. Happened(p, w)'
        BY <3>2, <4>1, HeldStay
      <4>3. w.op # "put" /\ w.id = m
        BY <3>2, <4>1
      <4>4. QED
        BY <4>2, <4>3 DEF Happened
    <3>3. QED
      BY <2>3, <3>1, <3>2
  <2>6. HeldHappened(p)'
    BY <2>1, <2>5 DEF HeldHappened
  <2>7. PutsFirst(p)'
    <3>1. ASSUME NEW j \in 1..Len(puts[p]), puts[p][j].op = "put"
          PROVE  puts[p][j].id \notin deleted'[p]
      <4>1. /\ puts[p][j].id \notin deleted[p]
            /\ \A i \in 1..Len(putsToAck[p]) :
                  putsToAck[p][i].write # [op |-> "remove", id |-> puts[p][j].id]
        BY <1>3, <3>1 DEF PutsFirst
      <4>2. ASSUME NEW i \in 1..Len(putsToAck[p]), putsToAck[p][i].write.op = "remove",
                   putsToAck[p][i].write.id = puts[p][j].id
            PROVE  FALSE
        <5>1. putsToAck[p][i].write \in Writes
          BY <1>3, PhoneTypes DEF Answered
        <5>2. putsToAck[p][i].write = [op |-> "remove", id |-> puts[p][j].id]
          BY <4>2, <5>1 DEF Writes
        <5>3. QED
          BY <4>1, <5>2
      <4>3. QED
        BY <2>3, <4>1, <4>2
    <3>2. QED
      BY <1>1, <1>3, <2>1, <3>1 DEF PutsFirst
  <2>8. \A i \in 1..Len(answers'[p]) : \A m \in answers'[p][i].snap : arrivals'[m] >= 1
    BY <1>1, <2>1, TailSnaps
  <2>9. \A m \in deleted'[p] : Known(p, m)'
    BY <1>1, <1>2, <1>3, <2>3 DEF KnownIds, Known
  <2>10. KnownIds(p)'
    BY <1>1, <1>2, <1>3, <2>1, <2>8, <2>9 DEF KnownIds, Known
  <2>11. QED
    BY <1>5, <2>4, <2>6, <2>7, <2>10 DEF PhoneInv
<1>6. QED
  BY <1>4, <1>5

\* The first answer belongs to the oldest write.
LEMMA FirstAck ==
    ASSUME Step, NEW p \in Phones, WriteAnswered(p)
    PROVE  /\ applied[p] >= 1
           /\ \A w : w = puts[p][1] /\ Head(answers[p]).ok => Happened(p, w)'
           /\ AcksMatch(p)'
<1>1. /\ TypeOK /\ AcksMatch(p) /\ answers[p] \in Seq(Answers) /\ applied[p] \in Nat
      /\ applied[p] <= Len(puts[p]) /\ puts[p] \in Seq(Writes) /\ Len(puts[p]) \in Nat
  BY PhoneFacts, PhoneTypes
<1>2. /\ answers[p] # <<>> /\ Head(answers[p]).kind = "ack"
      /\ puts' = [puts EXCEPT ![p] = Tail(@)]
      /\ applied' = [applied EXCEPT ![p] = @ - 1]
      /\ answers' = [answers EXCEPT ![p] = Tail(@)]
  BY DEF WriteAnswered, Answer, FirstAnswer
<1>3. /\ puts'[p] = Tail(puts[p]) /\ applied'[p] = applied[p] - 1
      /\ answers'[p] = Tail(answers[p])
  BY <1>1, <1>2 DEF TypeOK
<1>4. PICK f : /\ AckIndex(answers[p], applied[p], f)
               /\ \A k \in 1..applied[p] : answers[p][f[k]].ok => Happened(p, puts[p][k])
  BY <1>1 DEF AcksMatch
<1>5. /\ applied[p] >= 1 /\ answers[p][f[1]] = Head(answers[p])
      /\ \E g : /\ AckIndex(Tail(answers[p]), applied[p] - 1, g)
                /\ \A k \in 1..(applied[p] - 1) : Tail(answers[p])[g[k]] = answers[p][f[k + 1]]
  <2>1. PICK s, n : s = answers[p] /\ n = applied[p]
    OBVIOUS
  <2>2. s \in Seq(Answers) /\ n \in Nat /\ s # <<>> /\ AckIndex(s, n, f) /\ Head(s).kind = "ack"
    BY <1>1, <1>2, <1>4, <2>1
  <2>3. /\ n >= 1 /\ f[1] = 1 /\ s[f[1]] = Head(s)
        /\ \E g : /\ AckIndex(Tail(s), n - 1, g)
                  /\ \A k \in 1..(n - 1) :
                        g[k] = f[k + 1] - 1 /\ Tail(s)[g[k]] = s[f[k + 1]]
    BY ZenonT(60), <2>2, AckIndexTailAck
  <2>4. QED
    BY <2>1, <2>3
<1>6. PICK g : /\ AckIndex(Tail(answers[p]), applied[p] - 1, g)
               /\ \A k \in 1..(applied[p] - 1) : Tail(answers[p])[g[k]] = answers[p][f[k + 1]]
  BY <1>5
<1>7. ASSUME NEW w, w = puts[p][1], Head(answers[p]).ok
      PROVE  Happened(p, w)'
  <2>1. 1 \in 1..applied[p]
    BY <1>1, <1>5
  <2>2. Happened(p, w)
    BY <1>4, <1>5, <1>7, <2>1
  <2>3. QED
    BY <1>7, <2>1, <2>2, AppliedStay
<1>8. puts[p] # <<>>
  BY <1>1, <1>5
<1>9. ASSUME NEW k \in 1..(applied[p] - 1), answers'[p][g[k]].ok
      PROVE  Happened(p, puts[p][k])'
  <2>1. k + 1 \in 1..applied[p] /\ k \in 1..Len(Tail(puts[p]))
    BY <1>1, <1>5, <1>8, TailTyped
  <2>2. PICK w : w = puts[p][k + 1]
    OBVIOUS
  <2>3. PICK k1 : k1 = k + 1
    OBVIOUS
  <2>4. Happened(p, w)
    BY <1>3, <1>4, <1>6, <1>9, <2>1, <2>2
  <2>5. Happened(p, w)'
    BY <2>1, <2>2, <2>3, <2>4, AppliedStay
  <2>6. puts'[p][k] = w
    BY <1>1, <1>3, <1>8, <2>1, <2>2, TailTyped
  <2>7. QED
    BY <2>5, <2>6 DEF Happened, Gone
<1>10. AcksMatch(p)'
  <2>1. AckIndex(answers[p], applied[p], g)'
    BY <1>3, <1>6 DEF AckIndex
  <2>2. QED
    BY <1>3, <1>9, <2>1 DEF AcksMatch
<1>11. QED
  BY <1>5, <1>7, <1>10

LEMMA WriteAnsweredOther ==
    ASSUME Step, NEW p \in Phones, WriteAnswered(p), NEW q \in Phones, q # p
    PROVE  PhoneInv(q)'
<1>1. /\ puts' = [puts EXCEPT ![p] = Tail(@)]
      /\ applied' = [applied EXCEPT ![p] = @ - 1]
      /\ answers' = [answers EXCEPT ![p] = Tail(@)]
      /\ cache' = cache /\ deletedMessageIds' = deletedMessageIds
  BY DEF WriteAnswered, Answer
<1>2. putsToAck'[q] = putsToAck[q] /\ deleted'[q] = deleted[q]
  <2>1. CASE link[p] = "on"
    BY <2>1, PhoneFacts DEF WriteAnswered, Complete, TypeOK
  <2>2. CASE link[p] # "on"
    BY <2>2, PhoneFacts DEF WriteAnswered, historyVars, TypeOK
  <2>3. QED
    BY <2>1, <2>2
<1>3. puts'[q] = puts[q] /\ applied'[q] = applied[q] /\ answers'[q] = answers[q]
  BY <1>1, PhoneFacts DEF TypeOK
<1>4. QED
  BY <1>1, <1>2, <1>3, Unaffected

\* A write that has been answered is held back or has completed; either way it
\* counts among the held and completed ones.
LEMMA WriteAnsweredSelf ==
    ASSUME Step, NEW p \in Phones, WriteAnswered(p)
    PROVE  PhoneInv(p)'
<1>1. /\ TypeOK /\ TypeOK' /\ PutsFirst(p) /\ KnownIds(p) /\ answers[p] \in Seq(Answers)
      /\ puts[p] \in Seq(Writes) /\ Len(puts[p]) \in Nat /\ putsToAck[p] \in Seq(Answered)
      /\ applied[p] \in Nat /\ applied[p] <= Len(puts[p]) /\ applied[p] >= 1
      /\ AcksMatch(p)'
  BY PhoneFacts, PhoneTypes, FirstAck
<1>2. /\ puts' = [puts EXCEPT ![p] = Tail(@)]
      /\ answers' = [answers EXCEPT ![p] = Tail(@)]
      /\ cache' = cache /\ deletedMessageIds' = deletedMessageIds /\ author' = author
      /\ answers[p] # <<>>
  BY DEF WriteAnswered, Answer, FirstAnswer
<1>3. puts[p] # <<>> /\ 1 \in 1..Len(puts[p])
  BY <1>1
<1>4. /\ puts'[p] = Tail(puts[p]) /\ answers'[p] = Tail(answers[p])
      /\ Head(puts[p]) = puts[p][1] /\ Len(Tail(puts[p])) = Len(puts[p]) - 1
      /\ \A i \in 1..Len(puts'[p]) : i + 1 \in 1..Len(puts[p]) /\ puts'[p][i] = puts[p][i + 1]
  BY <1>1, <1>2, <1>3, TailTyped DEF TypeOK
<1>5. PICK w : w = puts[p][1]
  OBVIOUS
<1>6. /\ w \in Writes /\ w.id \in Messages /\ Known(p, w.id)
      /\ w.op = "put" => author[w.id] = p
      /\ Head(answers[p]).ok => Happened(p, w)'
  BY <1>1, <1>3, <1>5, PhoneTypes, FirstAck DEF PutsFirst, KnownIds
<1>7. NextAnswered(p).write = w /\ NextAnswered(p).ok = Head(answers[p]).ok
  BY <1>4, <1>5 DEF NextAnswered
<1>8. /\ arrivals' = arrivals
      /\ \A i \in 1..Len(putsToAck'[p]) :
            \/ i \in 1..Len(putsToAck[p]) /\ putsToAck'[p][i] = putsToAck[p][i]
            \/ putsToAck'[p][i] = NextAnswered(p)
      /\ \A m \in deleted'[p] :
            \/ m \in deleted[p]
            \/ Head(answers[p]).ok /\ w.op = "remove" /\ w.id = m
  <2>1. CASE link[p] = "on"
    <3>1. putsToAck' = putsToAck /\ Complete(p, {NextAnswered(p)})
      BY <2>1 DEF WriteAnswered
    <3>2. deleted'[p] = deleted[p] \cup
             {a.write.id : a \in {x \in {NextAnswered(p)} : x.ok /\ x.write.op = "remove"}}
      BY <1>1, <3>1 DEF Complete, TypeOK
    <3>3. arrivals' = arrivals
      BY <3>1 DEF Complete
    <3>4. QED
      BY <1>7, <3>1, <3>2, <3>3
  <2>2. CASE link[p] # "on"
    <3>1. /\ putsToAck' = [putsToAck EXCEPT ![p] = Append(@, NextAnswered(p))]
          /\ deleted' = deleted /\ arrivals' = arrivals
      BY <2>2 DEF WriteAnswered, historyVars
    <3>2. PICK a : a = NextAnswered(p)
      OBVIOUS
    <3>3. a \in Answered /\ putsToAck'[p] = Append(putsToAck[p], a)
      BY <1>1, <3>1, <3>2, TypeWriteAnswered DEF TypeOK
    <3>4. /\ Len(putsToAck[p]) \in Nat /\ Len(putsToAck'[p]) = Len(putsToAck[p]) + 1
          /\ \A i \in 1..Len(putsToAck[p]) : putsToAck'[p][i] = putsToAck[p][i]
          /\ putsToAck'[p][Len(putsToAck[p]) + 1] = a
      BY <1>1, <3>3, AppendProperties
    <3>5. QED
      BY <3>1, <3>2, <3>4
  <2>3. QED
    BY <2>1, <2>2
<1>9. HeldHappened(p)'
  <2>1. ASSUME NEW i \in 1..Len(putsToAck'[p]), putsToAck'[p][i].ok
        PROVE  Happened(p, putsToAck[p][i].write)'
    <3>1. PICK v : v = putsToAck'[p][i].write
      OBVIOUS
    <3>2. Happened(p, v)'
      <4>1. CASE i \in 1..Len(putsToAck[p]) /\ putsToAck'[p][i] = putsToAck[p][i]
        BY <2>1, <3>1, <4>1, HeldStay
      <4>2. CASE putsToAck'[p][i] = NextAnswered(p)
        <5>1. v = w /\ Head(answers[p]).ok
          BY <1>7, <2>1, <3>1, <4>2
        <5>2. QED
          BY <1>6, <5>1
      <4>3. QED
        BY <1>8, <4>1, <4>2
    <3>3. QED
      BY <3>1, <3>2 DEF Happened, Gone
  <2>2. ASSUME NEW m \in deleted'[p] PROVE Gone(p, m)'
    <3>1. CASE m \in deleted[p]
      BY <3>1, HeldStay
    <3>2. CASE Head(answers[p]).ok /\ w.op = "remove" /\ w.id = m
      <4>1. Happened(p, w)'
        BY <1>6, <3>2
      <4>2. QED
        BY <3>2, <4>1 DEF Happened
    <3>3. QED
      BY <1>8, <3>1, <3>2
  <2>3. QED
    BY <2>1, <2>2 DEF HeldHappened
<1>10. PutsFirst(p)'
  <2>1. ASSUME NEW j \in 1..Len(puts'[p]), puts'[p][j].op = "put"
        PROVE  /\ author'[puts'[p][j].id] = p
               /\ puts'[p][j].id \notin deleted'[p]
               /\ \A i \in 1..Len(putsToAck'[p]) :
                     putsToAck'[p][i].write # [op |-> "remove", id |-> puts'[p][j].id]
               /\ \A i \in 1..(j - 1) :
                     puts'[p][i] # [op |-> "remove", id |-> puts'[p][j].id]
    <3>1. PICK j1 : j1 = j + 1
      OBVIOUS
    <3>2. j1 \in 1..Len(puts[p]) /\ puts'[p][j] = puts[p][j1] /\ 1 \in 1..(j1 - 1)
      BY <1>1, <1>4, <3>1
    <3>3. /\ author[puts[p][j1].id] = p
          /\ puts[p][j1].id \notin deleted[p]
          /\ \A i \in 1..Len(putsToAck[p]) :
                putsToAck[p][i].write # [op |-> "remove", id |-> puts[p][j1].id]
          /\ \A i \in 1..(j1 - 1) : puts[p][i] # [op |-> "remove", id |-> puts[p][j1].id]
      BY <1>1, <2>1, <3>2 DEF PutsFirst
    <3>4. w # [op |-> "remove", id |-> puts[p][j1].id]
      BY <1>5, <3>2, <3>3
    <3>5. ~(w.op = "remove" /\ w.id = puts[p][j1].id)
      BY <1>6, <3>4 DEF Writes
    <3>6. puts'[p][j].id \notin deleted'[p]
      BY <1>8, <3>2, <3>3, <3>5
    <3>7. ASSUME NEW i \in 1..Len(putsToAck'[p])
          PROVE  putsToAck'[p][i].write # [op |-> "remove", id |-> puts'[p][j].id]
      <4>1. CASE i \in 1..Len(putsToAck[p]) /\ putsToAck'[p][i] = putsToAck[p][i]
        BY <3>2, <3>3, <4>1
      <4>2. CASE putsToAck'[p][i] = NextAnswered(p)
        BY <1>7, <3>2, <3>4, <4>2
      <4>3. QED
        BY <1>8, <4>1, <4>2
    <3>8. ASSUME NEW i \in 1..(j - 1)
          PROVE  puts'[p][i] # [op |-> "remove", id |-> puts'[p][j].id]
      <4>1. PICK i1 : i1 = i + 1
        OBVIOUS
      <4>2. i \in 1..Len(puts'[p]) /\ i1 \in 1..(j1 - 1)
        BY <1>1, <1>4, <3>1, <4>1
      <4>3. puts'[p][i] = puts[p][i1]
        BY <1>4, <4>1, <4>2
      <4>4. QED
        BY <3>2, <3>3, <4>2, <4>3
    <3>9. QED
      BY <1>2, <3>2, <3>3, <3>6, <3>7, <3>8
  <2>2. ASSUME NEW i \in 1..Len(putsToAck'[p]), putsToAck'[p][i].write.op = "put"
        PROVE  author'[putsToAck'[p][i].write.id] = p
    <3>1. CASE i \in 1..Len(putsToAck[p]) /\ putsToAck'[p][i] = putsToAck[p][i]
      BY <1>1, <1>2, <2>2, <3>1 DEF PutsFirst
    <3>2. CASE putsToAck'[p][i] = NextAnswered(p)
      BY <1>2, <1>6, <1>7, <2>2, <3>2
    <3>3. QED
      BY <1>8, <3>1, <3>2
  <2>3. QED
    BY <2>1, <2>2 DEF PutsFirst
<1>11. KnownIds(p)'
  <2>1. \A i \in 1..Len(answers'[p]) : \A m \in answers'[p][i].snap : arrivals'[m] >= 1
    BY <1>2, <1>4, TailSnaps
  <2>2. \A i \in 1..Len(puts'[p]) : Known(p, puts[p][i].id)'
    <3>1. \A i \in 1..Len(puts[p]) : author[puts[p][i].id] = p \/ arrivals[puts[p][i].id] >= 1
      BY <1>1 DEF KnownIds, Known
    <3>2. ASSUME NEW i \in 1..Len(puts'[p])
          PROVE  author[puts'[p][i].id] = p \/ arrivals[puts'[p][i].id] >= 1
      BY <1>4, <3>1
    <3>3. QED
      BY <1>2, <1>8, <3>2 DEF Known
  <2>3. \A i \in 1..Len(putsToAck'[p]) : Known(p, putsToAck[p][i].write.id)'
    <3>1. ASSUME NEW i \in 1..Len(putsToAck'[p])
          PROVE  \/ author[putsToAck'[p][i].write.id] = p
                 \/ arrivals[putsToAck'[p][i].write.id] >= 1
      BY <1>1, <1>6, <1>7, <1>8 DEF KnownIds, Known
    <3>2. QED
      BY <1>2, <1>8, <3>1 DEF Known
  <2>4. \A m \in deleted'[p] : Known(p, m)'
    BY <1>1, <1>2, <1>6, <1>8 DEF KnownIds, Known
  <2>5. /\ \A m \in cache'[p] : arrivals'[m] >= 1
        /\ \A i \in 1..Len(deletedMessageIds'[p]) : Known(p, deletedMessageIds[p][i])'
    BY <1>1, <1>2, <1>8 DEF KnownIds, Known
  <2>6. QED
    BY <2>1, <2>2, <2>3, <2>4, <2>5 DEF KnownIds
<1>12. QED
  BY <1>1, <1>9, <1>10, <1>11 DEF PhoneInv

LEMMA WriteAnsweredStep ==
    ASSUME Step, NEW p \in Phones, WriteAnswered(p), NEW q \in Phones
    PROVE  PhoneInv(q)'
BY WriteAnsweredSelf, WriteAnsweredOther

----------------------------------------------------------------------------
(* The invariant. *)

LEMMA ServerStep ==
    ASSUME Step
    PROVE  ServerInv'
<1>1. /\ TypeOK /\ TypeOK' /\ ServerInv /\ Next
      /\ arrivals \in [Messages -> 0..2] /\ arrivals' \in [Messages -> 0..2]
      /\ author \in [Messages -> Phones \cup {Nobody}]
  BY DEF Step, DeliveryInv, TypeOK
<1>2. \A m \in Messages : author[m] # Nobody => author'[m] # Nobody
  BY <1>1, WorldMoves
<1>3. confirmed \subseteq stored' \cup removed'
  BY <1>1, WorldMoves DEF ServerInv
<1>4. ASSUME NEW p \in Phones, Quiet(p) PROVE ServerInv'
  BY <1>1, <1>4, QuietSteps DEF ServerInv
<1>5. ASSUME NEW p \in Phones, NEW m \in Messages, Send(p, m) PROVE ServerInv'
  <2>1. stored' = stored /\ arrivals' = arrivals /\ confirmed' = confirmed
    BY <1>5 DEF Send, historyVars
  <2>2. QED
    BY <1>1, <1>2, <1>3, <2>1 DEF ServerInv
<1>6. ASSUME NEW p \in Phones, NEW ok \in BOOLEAN, ServerWrite(p, ok) PROVE ServerInv'
  <2>1. author' = author /\ confirmed' = confirmed
    BY <1>6 DEF ServerWrite
  <2>2. \A m \in stored' : arrivals'[m] >= 1
    BY <1>6, ArrivedWhenStored
  <2>3. ASSUME NEW m \in Messages, arrivals'[m] >= 1 PROVE author'[m] # Nobody
    <3>1. CASE arrivals[m] >= 1
      BY <1>1, <2>1, <3>1 DEF ServerInv
    <3>2. CASE ~(arrivals[m] >= 1)
      <4>1. NextWrite(p).id = m /\ NextWrite(p).op = "put"
        <5>1. \/ arrivals' = arrivals
              \/ /\ NextWrite(p).op = "put"
                 /\ arrivals' = [arrivals EXCEPT ![NextWrite(p).id] = @ + 1]
          BY <1>6, ServerWriteEffect
        <5>2. NextWrite(p).id # m => arrivals'[m] = arrivals[m]
          BY <1>1, <5>1
        <5>3. QED
          BY <2>3, <3>2, <5>1, <5>2
      <4>2. applied[p] + 1 \in 1..Len(puts[p])
        BY <1>1, <1>6, NextWriteTyped, ServerWriteEffect
      <4>3. author[m] = p
        BY <4>1, <4>2, PhoneFacts DEF PutsFirst, NextWrite
      <4>4. QED
        BY <2>1, <4>3, NobodyAssumption
    <3>3. QED
      BY <3>1, <3>2
  <2>4. QED
    BY <1>3, <2>1, <2>2, <2>3 DEF ServerInv
<1>7. ASSUME NEW p \in Phones, ListenAnswered(p) PROVE ServerInv'
  <2>1. /\ stored' = stored /\ author' = author /\ Complete(p, ToSet(putsToAck[p]))
    BY <1>7 DEF ListenAnswered
  <2>2. /\ arrivals' = arrivals /\ removed' = removed
        /\ confirmed' = confirmed \cup
             {a.write.id : a \in {x \in ToSet(putsToAck[p]) : x.ok /\ x.write.op = "put"}}
    BY <2>1 DEF Complete
  <2>3. ASSUME NEW i \in 1..Len(putsToAck[p]), putsToAck[p][i].ok,
               putsToAck[p][i].write.op = "put"
        PROVE  putsToAck[p][i].write.id \in stored \cup removed
    BY <2>3, PhoneFacts DEF HeldHappened, Happened
  <2>4. putsToAck[p] \in Seq(Answered)
    BY <1>1, PhoneTypes
  <2>5. confirmed' \subseteq stored \cup removed
    BY <1>1, <2>2, <2>3, <2>4 DEF ServerInv, ToSet
  <2>6. QED
    BY <1>1, <2>1, <2>2, <2>5 DEF ServerInv
<1>8. ASSUME NEW p \in Phones, WriteAnswered(p) PROVE ServerInv'
  <2>1. /\ stored' = stored /\ author' = author
        /\ \/ Complete(p, {NextAnswered(p)})
           \/ UNCHANGED historyVars
    BY <1>8 DEF WriteAnswered, Answer
  <2>2. CASE UNCHANGED historyVars
    BY <1>1, <2>1, <2>2 DEF ServerInv, historyVars
  <2>3. CASE Complete(p, {NextAnswered(p)})
    <3>1. /\ arrivals' = arrivals /\ removed' = removed
          /\ confirmed' = confirmed \cup
               {a.write.id : a \in {x \in {NextAnswered(p)} : x.ok /\ x.write.op = "put"}}
      BY <2>3 DEF Complete
    <3>2. PICK w : w = puts[p][1]
      OBVIOUS
    <3>3. NextAnswered(p).write = w /\ NextAnswered(p).ok = Head(answers[p]).ok
      <4>1. puts[p] \in Seq(Writes) /\ puts[p] # <<>>
        BY <1>1, <1>8, PhoneTypes, FirstAck
      <4>2. Head(puts[p]) = puts[p][1]
        BY <4>1, TailTyped
      <4>3. QED
        BY <3>2, <4>2 DEF NextAnswered
    <3>4. Head(answers[p]).ok => Happened(p, w)'
      BY <1>8, <3>2, FirstAck
    <3>5. Head(answers[p]).ok /\ w.op = "put" => w.id \in stored' \cup removed'
      BY <3>4 DEF Happened
    <3>6. confirmed' \subseteq stored' \cup removed'
      BY <1>3, <3>1, <3>3, <3>5
    <3>7. QED
      BY <1>1, <2>1, <3>1, <3>6 DEF ServerInv
  <2>4. QED
    BY <2>1, <2>2, <2>3
<1>9. QED
  BY <1>1, <1>4, <1>5, <1>6, <1>7, <1>8 DEF Next, Quiet

LEMMA TypeStep ==
    ASSUME DeliveryInv, Next
    PROVE  TypeOK'
<1>1. TypeOK
  BY DEF DeliveryInv
<1>2. ASSUME NEW p \in Phones, WriteAnswered(p) PROVE TypeOK'
  <2>1. applied[p] >= 1
    <3>1. /\ AcksMatch(p) /\ answers[p] \in Seq(Answers) /\ applied[p] \in Nat
          /\ answers[p] # <<>> /\ Head(answers[p]).kind = "ack"
      BY <1>1, <1>2, PhoneTypes DEF DeliveryInv, PhoneInv, WriteAnswered, Answer, FirstAnswer
    <3>2. PICK s, n : s = answers[p] /\ n = applied[p]
      OBVIOUS
    <3>3. PICK f : AckIndex(s, n, f)
      BY <3>1, <3>2 DEF AcksMatch
    <3>4. n >= 1
      BY <3>1, <3>2, <3>3, AckIndexTailAck
    <3>5. QED
      BY <3>2, <3>4
  <2>2. QED
    BY <1>1, <1>2, <2>1, TypeWriteAnswered
<1>3. QED
  BY <1>1, <1>2, TypeSend, TypeLongPress, TypeDelete, TypeConnection, TypeServerListen,
     TypeServerWrite, TypeReceived DEF Next

LEMMA InvInit == Init => DeliveryInv
<1> SUFFICES ASSUME Init PROVE DeliveryInv
  OBVIOUS
<1>1. TypeOK
  BY TypeInit
<1>2. ServerInv
  BY DEF Init, ServerInv
<1>3. ASSUME NEW p \in Phones PROVE PhoneInv(p)
  <2>1. /\ cache[p] = {} /\ puts[p] = <<>> /\ applied[p] = 0 /\ putsToAck[p] = <<>>
        /\ answers[p] = <<>> /\ deletedMessageIds[p] = <<>> /\ deleted[p] = {}
    BY DEF Init
  <2>2. AcksMatch(p)
    <3> DEFINE f == [k \in 1..0 |-> 1]
    <3>1. 1..0 = {}
      OBVIOUS
    <3>2. f \in [1..0 -> 1..Len(<<>>)]
      BY <3>1
    <3>3. /\ \A i \in 1..Len(<<>>) : FALSE
          /\ \A k \in 1..0 : FALSE
      OBVIOUS
    <3> HIDE DEF f
    <3>4. AckIndex(answers[p], applied[p], f)
      BY <2>1, <3>2, <3>3 DEF AckIndex
    <3>5. QED
      BY <2>1, <3>3, <3>4 DEF AcksMatch
  <2>3. HeldHappened(p) /\ PutsFirst(p)
    BY <2>1 DEF HeldHappened, PutsFirst
  <2>4. KnownIds(p)
    BY <2>1 DEF KnownIds
  <2>5. QED
    BY <2>2, <2>3, <2>4 DEF PhoneInv
<1>4. QED
  BY <1>1, <1>2, <1>3 DEF DeliveryInv

LEMMA InvNext == DeliveryInv /\ [Next]_vars => DeliveryInv'
<1> SUFFICES ASSUME DeliveryInv, [Next]_vars PROVE DeliveryInv'
  OBVIOUS
<1>1. CASE Next
  <2>1. TypeOK' /\ Step
    BY <1>1, TypeStep DEF Step
  <2>2. ASSUME NEW q \in Phones PROVE PhoneInv(q)'
    BY <1>1, <2>1, SendStep, LongPressStep, DeleteStep, ConnectionStep, ServerListenStep,
       ServerWriteStep, DataArrivesStep, ListenAnsweredStep, WriteAnsweredStep DEF Next
  <2>3. QED
    BY <2>1, <2>2, ServerStep DEF DeliveryInv
<1>2. CASE UNCHANGED vars
  <2>1. /\ stored' = stored /\ author' = author /\ link' = link /\ listened' = listened
        /\ loaded' = loaded /\ cache' = cache /\ puts' = puts /\ applied' = applied
        /\ putsToAck' = putsToAck /\ answers' = answers /\ deletedMessageIds' = deletedMessageIds
        /\ troubles' = troubles /\ deletes' = deletes /\ confirmed' = confirmed
        /\ deleted' = deleted /\ removed' = removed /\ refused' = refused /\ arrivals' = arrivals
    BY <1>2 DEF vars, phoneVars, boundVars, historyVars
  <2>2. TypeOK'
    BY <2>1 DEF DeliveryInv, TypeOK
  <2>3. ServerInv'
    BY <2>1 DEF DeliveryInv, ServerInv
  <2>4. ASSUME NEW p \in Phones PROVE PhoneInv(p)'
    <3>1. PhoneInv(p)
      BY DEF DeliveryInv
    <3>2. AcksMatch(p)'
      BY <2>1, <3>1, ZenonT(30) DEF PhoneInv, AcksMatch, AckIndex, Happened, Gone
    <3>3. HeldHappened(p)'
      BY <2>1, <3>1 DEF PhoneInv, HeldHappened, Happened, Gone
    <3>4. PutsFirst(p)'
      BY <2>1, <3>1 DEF PhoneInv, PutsFirst
    <3>5. KnownIds(p)'
      BY <2>1, <3>1 DEF PhoneInv, KnownIds, Known
    <3>6. QED
      BY <3>2, <3>3, <3>4, <3>5 DEF PhoneInv
  <2>5. QED
    BY <2>2, <2>3, <2>4 DEF DeliveryInv
<1>3. QED
  BY <1>1, <1>2

LEMMA Invariance == Spec => []DeliveryInv
BY InvInit, InvNext, PTL DEF Spec

\* The phones, the connections and the database keep their types; above all, no
\* more writes count as handled than are outstanding.
THEOREM TypeCorrect == Spec => []TypeOK
<1>1. DeliveryInv => TypeOK
  BY DEF DeliveryInv
<1>2. QED
  BY <1>1, Invariance, PTL

\* A send whose completion ran without an error is in the database, or was
\* until somebody removed it: for any number of phones, messages and losses.
THEOREM SentIsStored == Spec => []ConfirmedIsStored
<1>1. DeliveryInv => ConfirmedIsStored
  BY DEF DeliveryInv, ServerInv, ConfirmedIsStored
<1>2. QED
  BY <1>1, Invariance, PTL

\* A confirmed removal of an own message is final, for the message and its
\* removal go to the server in order, also when they are sent again.
THEOREM RemovedIsGone == Spec => []DeletedStaysDeleted
<1>1. DeliveryInv => DeletedStaysDeleted
  BY DEF DeliveryInv, PhoneInv, HeldHappened, Gone, DeletedStaysDeleted
<1>2. QED
  BY <1>1, Invariance, PTL

=============================================================================
