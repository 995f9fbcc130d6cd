------------------------- MODULE ConversationProofs -------------------------
(***************************************************************************)
(* Proofs about the chat screen, for any set of messages, any timestamps   *)
(* and any bounds.                                                         *)
(***************************************************************************)
EXTENDS Conversation, FiniteSetTheorems, SequenceTheorems, TLAPS

----------------------------------------------------------------------------
(* Sequences of sorted messages. *)

\* A function on 1..n is a sequence.
LEMMA FunctionIsSequence ==
    ASSUME NEW S, NEW n \in Nat, NEW f \in [1..n -> S]
    PROVE  f \in Seq(S)
BY SeqDef

\* What messages.sort leaves is a sequence of messages of the snapshot.
LEMMA SortingsAreSequences ==
    ASSUME NEW S \in SUBSET Messages, NEW q \in Sortings(S)
    PROVE  q \in Seq(Messages) /\ Range(q) \subseteq S
<1>1. Cardinality(S) \in Nat
    BY MessagesAssumption, FS_Subset, FS_CardinalityType
<1>2. q \in [1..Cardinality(S) -> S]
    BY DEF Sortings
<1> QED
    BY <1>1, <1>2 DEF Range

\* A snapshot holds messages of the conversation.
LEMMA ViewType == View \in SUBSET Messages
BY DEF View

----------------------------------------------------------------------------
(* Type correctness. *)

\* The screen as viewDidLoad leaves it has its types.
LEMMA InitTypeOK == Init => TypeOK
<1> SUFFICES ASSUME Init PROVE TypeOK
    OBVIOUS
<1>1. Operation("observe", NoMessage) \in Operations /\ Closure("reload", {}) \in Closures
    BY DEF Operation, Operations, Writes, Closure, Closures, Kinds
<1>2. dbQueue \in Seq(Operations) /\ mainQueue \in Seq(Closures)
    BY <1>1 DEF Init
<1>3. /\ puts \in Seq(Writes)
      /\ conversationData \in Seq(Messages)
      /\ cells \in Seq(Messages \cup {NoMessage})
      /\ deletedMessageIds \in Seq(Messages)
    BY EmptySeq DEF Init, ClientInit
<1> QED
    BY <1>2, <1>3 DEF Init, TypeOK, ClientInit, ClientTypeOK

\* Raising an event, or none, keeps the main queue a queue of closures.
LEMMA NotifyType ==
    ASSUME TypeOK, NotifyIfChanged
    PROVE  mainQueue' \in Seq(Closures)
<1>1. Closure("event", View') \in Closures
    BY DEF Closure, Closures, Kinds, View
<1> QED
    BY <1>1 DEF TypeOK, NotifyIfChanged

\* Every closure the screen queues is one of the four kinds.
LEMMA ClosureTypes ==
    ASSUME NEW k \in Kinds, NEW s \in SUBSET Messages
    PROVE  Closure(k, s) \in Closures
BY DEF Closure, Closures

\* One step per action: every step of the screen keeps the types.
LEMMA NextTypeOK == TypeOK /\ [Next]_vars => TypeOK'
<1> SUFFICES ASSUME TypeOK, [Next]_vars PROVE TypeOK'
    OBVIOUS
<1> USE DEF TypeOK, ClientTypeOK
<1>1. CASE RunEvent
    <2>1. Closure("getAll", {}) \in Closures
        BY ClosureTypes DEF Kinds
    <2> QED
        BY <1>1, <2>1 DEF RunEvent, clientVars
<1>2. CASE RunGetAll
    <2>1. Operation("fetch", NoMessage) \in Operations
        BY DEF Operation, Operations, Writes
    <2> QED
        BY <1>2, <2>1 DEF RunGetAll, clientVars, viewVars
<1>3. CASE RunFetched
    <2>1. Closure("reload", {}) \in Closures
        BY ClosureTypes DEF Kinds
    <2>2. Head(mainQueue) \in Closures
        BY <1>3, HeadTailProperties DEF RunFetched
    <2>3. PICK q \in Sortings(Head(mainQueue).snap) : conversationData' = conversationData \o q
        BY <1>3 DEF RunFetched
    <2>4. q \in Seq(Messages)
        BY <2>2, SortingsAreSequences DEF Closures
    <2>5. conversationData' \in Seq(Messages)
        BY <2>3, <2>4, ConcatProperties
    <2> QED
        BY <1>3, <2>1, <2>5 DEF RunFetched, clientVars
<1>4. CASE RunReload
    BY <1>4 DEF RunReload, clientVars
<1>5. ASSUME NEW R \in SUBSET DOMAIN cells, DrawRows(R) PROVE TypeOK'
    <2>1. CASE \E i \in R : i > Len(conversationData)
        BY <1>5, <2>1 DEF DrawRows, clientVars
    <2>2. CASE ~ \E i \in R : i > Len(conversationData)
        <3>1. \A i \in DOMAIN cells : cells[i] \in Messages \cup {NoMessage}
            BY LenProperties
        <3>2. \A i \in R : conversationData[i] \in Messages
            BY <2>2, LenProperties
        <3>3. cells' \in [1..Len(cells) -> Messages \cup {NoMessage}]
            BY <1>5, <2>2, <3>1, <3>2, LenProperties DEF DrawRows
        <3>4. cells' \in Seq(Messages \cup {NoMessage})
            BY <3>3, LenProperties, FunctionIsSequence
        <3> QED
            BY <1>5, <2>2, <3>4 DEF DrawRows, clientVars
    <2> QED
        BY <2>1, <2>2
<1>6. CASE Layout
    BY <1>5, <1>6 DEF Layout
<1>7. ASSUME NEW i \in DOMAIN cells, Scroll(i) PROVE TypeOK'
    BY <1>5, <1>7 DEF Scroll
<1>8. ASSUME NEW i \in DOMAIN cells, LongPress(i) PROVE TypeOK'
    <2>1. i \in Nat \ {0}
        BY LenProperties
    <2>2. CASE i > Len(conversationData)
        BY <1>8, <2>2 DEF LongPress, clientVars
    <2>3. CASE ~(i > Len(conversationData))
        <3>1. conversationData[i] \in Messages
            BY <2>1, <2>3, ElementOfSeq
        <3>2. /\ deletedMessageIds' = Append(deletedMessageIds, conversationData[i])
              /\ crashed' = crashed
            BY <1>8, <2>3 DEF LongPress
        <3>3. deletedMessageIds' \in Seq(Messages)
            BY <3>1, <3>2, AppendProperties
        <3> QED
            BY <1>8, <3>2, <3>3 DEF LongPress, clientVars
    <2> QED
        BY <2>2, <2>3
<1>9. ASSUME NEW m \in Messages, Send(m) PROVE TypeOK'
    <2>1. Operation("put", m) \in Operations
        BY DEF Operation, Operations, Writes
    <2> QED
        BY <1>9, <2>1 DEF Send, viewVars
<1>10. CASE Delete
    <2>1. [i \in 1..Len(deletedMessageIds) |-> Operation("remove", deletedMessageIds[i])]
              \in Seq(Operations)
        BY DEF Operation, Operations, Writes
    <2> QED
        BY <1>10, <2>1 DEF Delete, clientVars, viewVars
<1>11. CASE DbObserveWarm
    BY <1>11, ViewType, ClosureTypes
       DEF DbObserveWarm, FirstOperation, clientVars, viewVars, Kinds
<1>12. CASE DbObserveCold
    BY <1>12 DEF DbObserveCold, FirstOperation, clientVars, viewVars
<1>13. CASE FirstData
    BY <1>13, ViewType, ClosureTypes DEF FirstData, clientVars, viewVars, Kinds
<1>14. CASE DbFetch
    BY <1>14, ViewType, ClosureTypes DEF DbFetch, FirstOperation, clientVars, viewVars, Kinds
<1>15. CASE DbWrite
    <2>1. dbQueue # <<>> /\ Head(dbQueue).op \in {"put", "remove"}
        BY <1>15 DEF DbWrite, FirstOperation
    <2>2. mainQueue' \in Seq(Closures)
        BY <1>15, NotifyType DEF DbWrite
    <2>3. Head(dbQueue) \in Operations /\ Head(dbQueue).id \in Messages
        BY <2>1, HeadTailProperties DEF Operations, Writes
    <2> QED
        BY <1>15, <2>1, <2>2, <2>3 DEF DbWrite, Write, Writes, viewVars
<1>16. CASE ServerStep
    <2>1. mainQueue' \in Seq(Closures)
        BY <1>16, NotifyType DEF ServerStep
    <2>2. ClientTypeOK'
        <3>1. CASE puts # <<>> /\ Answered(1)
            <4>1. puts' = SubSeq(puts, 2, Len(puts))
                BY <3>1 DEF Answered
            <4>2. puts' \in Seq(Writes)
                BY <3>1, <4>1
            <4> QED
                BY <3>1, <4>2 DEF Answered
        <3>2. ASSUME NEW S \in SUBSET Messages, Update(S) PROVE ClientTypeOK'
            BY <3>2 DEF Update
        <3> QED
            BY <1>16, <3>1, <3>2 DEF ServerStep
    <2> QED
        BY <1>16, <2>1, <2>2 DEF ServerStep, viewVars
<1>17. CASE OtherConversationChanges
    BY <1>17, ViewType, ClosureTypes DEF OtherConversationChanges, clientVars, viewVars, Kinds
<1>18. CASE ForcedSignOut
    BY <1>18 DEF ForcedSignOut, clientVars, viewVars
<1>19. CASE UNCHANGED vars
    BY <1>19 DEF vars, clientVars, viewVars
<1> QED
    BY <1>1, <1>2, <1>3, <1>4, <1>6, <1>7, <1>8, <1>9, <1>10, <1>11, <1>12, <1>13,
       <1>14, <1>15, <1>16, <1>17, <1>18, <1>19 DEF Next, MainStep, DbStep

(***************************************************************************)
(* The screen's state keeps its shape: in particular only identifiers of   *)
(* messages ever reach deletedMessageIds and the removals made from it     *)
(* (lines 194-196 and 222).                                                *)
(***************************************************************************)
THEOREM TypeCorrect == Spec => []TypeOK
BY InitTypeOK, NextTypeOK, PTL DEF Spec

----------------------------------------------------------------------------
(* The table and its data source. *)

\* A closure or an operation stays in its queue until it is at the head.
\* Queueing something behind it leaves it in its place.
LEMMA AppendKeeps ==
    ASSUME NEW S, NEW q \in Seq(S), NEW e \in S
    PROVE  /\ Len(Append(q, e)) = Len(q) + 1
           /\ Append(q, e)[Len(q) + 1] = e
           /\ \A i \in 1..Len(q) : Append(q, e)[i] = q[i]
BY AppendProperties

\* What is not at the head stays when the head is taken.
LEMMA TailKeeps ==
    ASSUME NEW S, NEW q \in Seq(S), q # <<>>
    PROVE  /\ Len(Tail(q)) = Len(q) - 1
           /\ \A i \in 1..Len(Tail(q)) : Tail(q)[i] = q[i + 1]
           /\ Head(q) = q[1]
BY HeadTailProperties

\* What a step does to the refresh in progress when it leaves the data alone.
LEMMA RefreshGoesOn ==
    ASSUME TypeOK, TypeOK', Refreshing,
           \/ mainQueue' = mainQueue
           \/ \E c \in Closures : mainQueue' = Append(mainQueue, c),
           \/ dbQueue' = dbQueue
           \/ \E s \in Seq(Operations) : dbQueue' = dbQueue \o s
           \/ dbQueue # <<>> /\ Head(dbQueue).op # "fetch" /\ dbQueue' = Tail(dbQueue)
    PROVE  Refreshing'
<1>1. CASE \E i \in 1..Len(mainQueue) : mainQueue[i].kind \in {"getAll", "fetched", "reload"}
    <2>1. PICK i \in 1..Len(mainQueue) : mainQueue[i].kind \in {"getAll", "fetched", "reload"}
        BY <1>1
    <2>2. CASE mainQueue' = mainQueue
        BY <2>1, <2>2 DEF Refreshing
    <2>3. ASSUME NEW c \in Closures, mainQueue' = Append(mainQueue, c) PROVE Refreshing'
        <3>1. i \in 1..Len(mainQueue') /\ mainQueue'[i] = mainQueue[i]
            BY <2>3, AppendKeeps DEF TypeOK
        <3> QED
            BY <2>1, <3>1 DEF Refreshing
    <2> QED
        BY <2>2, <2>3
<1>2. CASE \E i \in 1..Len(dbQueue) : dbQueue[i].op = "fetch"
    <2>1. PICK i \in 1..Len(dbQueue) : dbQueue[i].op = "fetch"
        BY <1>2
    <2>2. CASE dbQueue' = dbQueue
        BY <2>1, <2>2 DEF Refreshing
    <2>3. ASSUME NEW s \in Seq(Operations), dbQueue' = dbQueue \o s PROVE Refreshing'
        <3>1. i \in 1..Len(dbQueue') /\ dbQueue'[i] = dbQueue[i]
            BY <2>3, ConcatProperties DEF TypeOK
        <3> QED
            BY <2>1, <3>1 DEF Refreshing
    <2>4. CASE dbQueue # <<>> /\ Head(dbQueue).op # "fetch" /\ dbQueue' = Tail(dbQueue)
        <3>1. i # 1
            BY <2>1, <2>4, TailKeeps DEF TypeOK
        <3>2. i - 1 \in 1..Len(dbQueue') /\ dbQueue'[i - 1] = dbQueue[i]
            BY <2>1, <2>4, <3>1, TailKeeps DEF TypeOK
        <3> QED
            BY <2>1, <3>2 DEF Refreshing
    <2> QED
        BY <2>2, <2>3, <2>4
<1> QED
    BY <1>1, <1>2 DEF Refreshing

\* An empty table matches empty data.
LEMMA InitTable == Init => TableMatchesData
BY DEF Init, TableMatchesData, Refreshing, Closure

\* One step per action: the table matches the data whenever no refresh is on its way.
LEMMA NextTable == TypeOK /\ TypeOK' /\ TableMatchesData /\ [Next]_vars => TableMatchesData'
<1> SUFFICES ASSUME TypeOK, TypeOK', TableMatchesData, [Next]_vars,
                    signedIn', ~crashed', ~Refreshing'
             PROVE  /\ Len(cells') = Len(conversationData')
                    /\ \A i \in 1..Len(cells') : cells'[i] \in {NoMessage, conversationData'[i]}
    BY DEF TableMatchesData
\* A refresh started by the step itself is under way after it.
<1>1. ~RunEvent
    <2> SUFFICES ASSUME RunEvent PROVE Refreshing'
        OBVIOUS
    <2>1. Closure("getAll", {}) \in Closures
        BY ClosureTypes DEF Kinds
    <2>2. Len(mainQueue') \in 1..Len(mainQueue') /\ mainQueue'[Len(mainQueue')].kind = "getAll"
        BY <2>1, HeadTailProperties, AppendKeeps DEF RunEvent, TypeOK, Closure
    <2> QED
        BY <2>2 DEF Refreshing
<1>2. ~RunGetAll
    <2> SUFFICES ASSUME RunGetAll PROVE Refreshing'
        OBVIOUS
    <2>1. Operation("fetch", NoMessage) \in Operations
        BY DEF Operation, Operations
    <2>2. dbQueue' = Append(dbQueue, Operation("fetch", NoMessage))
        BY DEF RunGetAll
    <2>3. Len(dbQueue') \in 1..Len(dbQueue') /\ dbQueue'[Len(dbQueue')].op = "fetch"
        BY <2>1, <2>2, AppendKeeps DEF TypeOK, Operation
    <2> QED
        BY <2>3 DEF Refreshing
<1>3. ~RunFetched
    <2> SUFFICES ASSUME RunFetched PROVE Refreshing'
        OBVIOUS
    <2>1. Closure("reload", {}) \in Closures
        BY ClosureTypes DEF Kinds
    <2>2. Len(mainQueue') \in 1..Len(mainQueue') /\ mainQueue'[Len(mainQueue')].kind = "reload"
        BY <2>1, HeadTailProperties, AppendKeeps DEF RunFetched, TypeOK, Closure
    <2> QED
        BY <2>2 DEF Refreshing
<1>4. ~DbFetch
    <2> SUFFICES ASSUME DbFetch PROVE Refreshing'
        OBVIOUS
    <2>1. Closure("fetched", View) \in Closures
        BY ClosureTypes, ViewType DEF Kinds
    <2>2. Len(mainQueue') \in 1..Len(mainQueue') /\ mainQueue'[Len(mainQueue')].kind = "fetched"
        BY <2>1, AppendKeeps DEF DbFetch, TypeOK, Closure
    <2> QED
        BY <2>2 DEF Refreshing
\* The reload brings the table and the data together.
<1>5. CASE RunReload
    BY <1>5 DEF RunReload, TypeOK
\* Every other step leaves the data alone and a refresh, if there is one, under way.
<1>6. ASSUME ~Refreshing, cells' = cells, conversationData' = conversationData,
             crashed' = crashed, signedIn' => signedIn
      PROVE  /\ Len(cells') = Len(conversationData')
             /\ \A i \in 1..Len(cells') : cells'[i] \in {NoMessage, conversationData'[i]}
    BY <1>6 DEF TableMatchesData, TypeOK
<1>7. ASSUME \/ mainQueue' = mainQueue
             \/ \E c \in Closures : mainQueue' = Append(mainQueue, c),
             \/ dbQueue' = dbQueue
             \/ \E s \in Seq(Operations) : dbQueue' = dbQueue \o s
             \/ dbQueue # <<>> /\ Head(dbQueue).op # "fetch" /\ dbQueue' = Tail(dbQueue)
      PROVE  ~Refreshing
    BY <1>7, RefreshGoesOn
<1>8. NotifyIfChanged => \/ mainQueue' = mainQueue
                         \/ \E c \in Closures : mainQueue' = Append(mainQueue, c)
    <2>1. Closure("event", View') \in Closures
        BY DEF Closure, Closures, Kinds, View
    <2> QED
        BY <2>1 DEF NotifyIfChanged
<1>9. Closure("event", View) \in Closures
    BY ClosureTypes, ViewType DEF Kinds
<1>10. ASSUME NEW R \in SUBSET DOMAIN cells, DrawRows(R)
       PROVE  /\ Len(cells') = Len(conversationData')
              /\ \A i \in 1..Len(cells') : cells'[i] \in {NoMessage, conversationData'[i]}
    <2>1. ~Refreshing
        BY <1>7, <1>10 DEF DrawRows
    <2>2. /\ Len(cells) = Len(conversationData)
          /\ \A i \in 1..Len(cells) : cells[i] \in {NoMessage, conversationData[i]}
        BY <1>10, <2>1 DEF TableMatchesData, DrawRows, TypeOK
    <2>3. /\ cells' = [i \in DOMAIN cells |->
                           IF i \in R /\ signedIn THEN conversationData[i] ELSE cells[i]]
          /\ conversationData' = conversationData
        BY <1>10 DEF DrawRows
    <2>4. DOMAIN cells = 1..Len(cells) /\ Len(cells') = Len(cells)
        BY <2>3, LenProperties DEF TypeOK
    <2> QED
        BY <2>2, <2>3, <2>4
<1>11. CASE Layout
    BY <1>10, <1>11 DEF Layout
<1>12. ASSUME NEW i \in DOMAIN cells, Scroll(i)
       PROVE  /\ Len(cells') = Len(conversationData')
              /\ \A j \in 1..Len(cells') : cells'[j] \in {NoMessage, conversationData'[j]}
    BY <1>10, <1>12 DEF Scroll
<1>13. ASSUME NEW i \in DOMAIN cells, LongPress(i)
       PROVE  /\ Len(cells') = Len(conversationData')
              /\ \A j \in 1..Len(cells') : cells'[j] \in {NoMessage, conversationData'[j]}
    <2>1. ~crashed /\ ~Refreshing
        BY <1>7, <1>13 DEF LongPress, TypeOK
    <2> QED
        BY <1>13, <2>1 DEF LongPress, TableMatchesData, TypeOK
<1>14. ASSUME NEW m \in Messages, Send(m)
       PROVE  /\ ~Refreshing
              /\ UNCHANGED <<viewVars, signedIn>>
    <2>1. <<Operation("put", m)>> \in Seq(Operations)
        BY DEF Operation, Operations, Writes
    <2>2. dbQueue' = dbQueue \o <<Operation("put", m)>>
        BY <1>14 DEF Send, TypeOK
    <2> QED
        BY <1>7, <1>14, <2>1, <2>2 DEF Send
<1>15. CASE Delete
    <2>1. [i \in 1..Len(deletedMessageIds) |-> Operation("remove", deletedMessageIds[i])]
              \in Seq(Operations)
        BY DEF Operation, Operations, Writes, TypeOK
    <2>2. ~Refreshing
        BY <1>7, <1>15, <2>1 DEF Delete
    <2> QED
        BY <1>6, <1>15, <2>2 DEF Delete, viewVars
<1>16. CASE DbObserveWarm \/ DbObserveCold \/ DbWrite
    <2>1. dbQueue # <<>> /\ Head(dbQueue).op # "fetch" /\ dbQueue' = Tail(dbQueue)
        BY <1>16 DEF DbObserveWarm, DbObserveCold, DbWrite, FirstOperation
    <2>2. \/ mainQueue' = mainQueue
          \/ \E c \in Closures : mainQueue' = Append(mainQueue, c)
        BY <1>8, <1>9, <1>16 DEF DbObserveWarm, DbObserveCold, DbWrite
    <2>3. UNCHANGED <<viewVars, signedIn>>
        BY <1>16 DEF DbObserveWarm, DbObserveCold, DbWrite
    <2> QED
        BY <1>6, <1>7, <2>1, <2>2, <2>3 DEF viewVars
<1>17. CASE FirstData \/ ServerStep \/ OtherConversationChanges \/ ForcedSignOut
    <2>1. dbQueue' = dbQueue
        BY <1>17 DEF FirstData, ServerStep, OtherConversationChanges, ForcedSignOut
    <2>2. \/ mainQueue' = mainQueue
          \/ \E c \in Closures : mainQueue' = Append(mainQueue, c)
        BY <1>8, <1>9, <1>17 DEF FirstData, ServerStep, OtherConversationChanges, ForcedSignOut
    <2>3. UNCHANGED viewVars /\ (signedIn' => signedIn)
        BY <1>17 DEF FirstData, ServerStep, OtherConversationChanges, ForcedSignOut
    <2> QED
        BY <1>6, <1>7, <2>1, <2>2, <2>3 DEF viewVars
<1>18. CASE UNCHANGED vars
    BY <1>6, <1>7, <1>18 DEF vars, viewVars
<1> QED
    BY <1>1, <1>2, <1>3, <1>4, <1>5, <1>6, <1>11, <1>12, <1>13, <1>14, <1>15, <1>16, <1>17,
       <1>18 DEF Next, MainStep, DbStep, viewVars

(***************************************************************************)
(* For any number of messages and any interleaving of changes, refreshes   *)
(* and touches: with no refresh on its way, every row of the table shows   *)
(* the message at its index (lines 108-113, 141-149, 236-260).             *)
(***************************************************************************)
THEOREM TableAlwaysMatches == Spec => []TableMatchesData
<1>1. Init => TypeOK /\ TableMatchesData
    BY InitTypeOK, InitTable
<1>2. TypeOK /\ TableMatchesData /\ [Next]_vars => (TypeOK /\ TableMatchesData)'
    BY NextTypeOK, NextTable
<1> QED
    BY <1>1, <1>2, PTL DEF Spec

(***************************************************************************)
(* For every value of the constants, a long press made while no refresh is *)
(* on its way records the message that its row shows, or will show once it *)
(* is laid out (lines 185-199).                                            *)
(***************************************************************************)
THEOREM SettledPressesAreRight == Spec => SettledPressTakesShownMessage
<1> DEFINE Right ==
              \A i \in DOMAIN cells :
                  (LongPress(i) /\ signedIn /\ ~Refreshing) =>
                      \E m \in Messages :
                          /\ cells[i] \in {m, NoMessage} /\ m = conversationData[i]
                          /\ deletedMessageIds' = Append(deletedMessageIds, m)
<1>1. TypeOK /\ TableMatchesData /\ [Next]_vars => [Right]_vars
    <2> SUFFICES ASSUME TypeOK, TableMatchesData, Next,
                        NEW i \in DOMAIN cells, LongPress(i), signedIn, ~Refreshing
                 PROVE  \E m \in Messages :
                            /\ cells[i] \in {m, NoMessage} /\ m = conversationData[i]
                            /\ deletedMessageIds' = Append(deletedMessageIds, m)
        OBVIOUS
    <2>1. i \in 1..Len(cells) /\ Len(cells) = Len(conversationData)
          /\ cells[i] \in {NoMessage, conversationData[i]}
        BY LenProperties DEF TableMatchesData, Next, TypeOK
    <2>2. ~(i > Len(conversationData)) /\ conversationData[i] \in Messages
        BY <2>1, LenProperties DEF TypeOK
    <2> QED
        BY <2>1, <2>2 DEF LongPress
<1> QED
    BY <1>1, TypeCorrect, TableAlwaysMatches, PTL DEF Spec, SettledPressTakesShownMessage

----------------------------------------------------------------------------
(* One version of the conversation at a time. *)

NoEvent(q) == \A i \in 1..Len(q) : q[i].kind # "event"

\* Every snapshot in q that no later event supersedes is V.
LatestIs(q, V) ==
    \A i \in 1..Len(q) :
        (q[i].kind \in {"event", "fetched"} /\ \A j \in (i + 1)..Len(q) : q[j].kind # "event")
            => q[i].snap = V

\* Before the observer's first data nothing has reached the screen.
QuietBeforeData ==
    listening # "on" =>
        /\ \A i \in 1..Len(mainQueue) : mainQueue[i].kind = "reload"
        /\ \A i \in 1..Len(dbQueue) : dbQueue[i].op # "fetch"
        /\ conversationData = <<>>

VersionInv ==
    /\ TypeOK
    /\ QuietBeforeData
    /\ LatestIs(mainQueue, View)
    /\ NoVersionMix

\* Taking the head leaves the newest event at the end, if one is left.
LEMMA LatestOfTail ==
    ASSUME NEW V, NEW q \in Seq(Closures), q # <<>>, LatestIs(q, V)
    PROVE  LatestIs(Tail(q), V)
<1> SUFFICES ASSUME NEW i \in 1..Len(Tail(q)),
                    Tail(q)[i].kind \in {"event", "fetched"},
                    \A j \in (i + 1)..Len(Tail(q)) : Tail(q)[j].kind # "event"
             PROVE  Tail(q)[i].snap = V
    BY DEF LatestIs
<1>1. i + 1 \in 1..Len(q) /\ Tail(q)[i] = q[i + 1] /\ Len(q) \in Nat
    BY TailKeeps, LenProperties
<1>2. ASSUME NEW j \in (i + 2)..Len(q) PROVE q[j].kind # "event"
    <2>1. j - 1 \in (i + 1)..Len(Tail(q)) /\ Tail(q)[j - 1] = q[j]
        BY <1>1, TailKeeps
    <2> QED
        BY <2>1
<1> QED
    BY <1>1, <1>2 DEF LatestIs

\* A new event is the newest; other closures do not change which one is.
LEMMA LatestOfAppend ==
    ASSUME NEW V, NEW q \in Seq(Closures), NEW c \in Closures,
           c.kind = "event" \/ LatestIs(q, V),
           c.kind \in {"event", "fetched"} => c.snap = V
    PROVE  LatestIs(Append(q, c), V)
<1> DEFINE a == Append(q, c)
<1> SUFFICES ASSUME NEW i \in 1..Len(a),
                    a[i].kind \in {"event", "fetched"},
                    \A j \in (i + 1)..Len(a) : a[j].kind # "event"
             PROVE  a[i].snap = V
    BY DEF LatestIs
<1>1. Len(a) = Len(q) + 1 /\ a[Len(q) + 1] = c /\ (\A j \in 1..Len(q) : a[j] = q[j]) /\ Len(q) \in Nat
    BY AppendKeeps, LenProperties
<1> HIDE DEF a
<1>2. CASE i = Len(q) + 1
    BY <1>1, <1>2
<1>3. CASE i \in 1..Len(q)
    <2>1. c.kind # "event"
        BY <1>1, <1>3
    <2>2. \A j \in (i + 1)..Len(q) : q[j].kind # "event"
        BY <1>1
    <2> QED
        BY <1>1, <1>3, <2>1, <2>2 DEF LatestIs
<1> QED
    BY <1>1, <1>2, <1>3

\* A queue without events has none after its head is taken.
LEMMA NoEventOfTail ==
    ASSUME NEW q \in Seq(Closures), q # <<>>, Head(q).kind # "event", NoEvent(Tail(q))
    PROVE  NoEvent(q)
<1> SUFFICES ASSUME NEW i \in 1..Len(q) PROVE q[i].kind # "event"
    BY DEF NoEvent
<1>1. CASE i = 1
    BY <1>1, TailKeeps
<1>2. CASE i # 1
    <2>1. i - 1 \in 1..Len(Tail(q)) /\ Tail(q)[i - 1] = q[i]
        BY <1>2, TailKeeps, LenProperties
    <2> QED
        BY <2>1 DEF NoEvent
<1> QED
    BY <1>1, <1>2

\* Nor has it one after a closure that is not an event is queued.
LEMMA NoEventOfAppend ==
    ASSUME NEW q \in Seq(Closures), NEW c \in Closures
    PROVE  NoEvent(Append(q, c)) <=> NoEvent(q) /\ c.kind # "event"
<1>1. /\ Len(Append(q, c)) = Len(q) + 1 /\ Append(q, c)[Len(q) + 1] = c
      /\ \A i \in 1..Len(q) : Append(q, c)[i] = q[i]
      /\ Len(q) \in Nat
    BY AppendKeeps, LenProperties
<1> QED
    BY <1>1 DEF NoEvent

\* A complete sorting adds exactly the messages of its set.
LEMMA RangeOfSorting ==
    ASSUME NEW S \in SUBSET Messages, NEW d \in Seq(Messages), NEW q \in Sortings(S)
    PROVE  Range(d \o q) = Range(d) \cup S
<1>1. q \in Seq(Messages) /\ Range(q) \subseteq S
    BY SortingsAreSequences
<1>2. S \subseteq Range(q)
    BY DEF Sortings, Range
<1> QED
    BY <1>1, <1>2, RangeConcatenation

\* Before the first event there is no data at all.
LEMMA InitVersion == Init => VersionInv
<1> SUFFICES ASSUME Init PROVE VersionInv
    OBVIOUS
<1>1. TypeOK
    BY InitTypeOK
<1>2. Len(mainQueue) = 1 /\ mainQueue[1].kind = "reload"
    BY DEF Init, Closure
<1>3. Len(dbQueue) = 1 /\ dbQueue[1].op = "observe"
    BY DEF Init, Operation
<1>4. conversationData = <<>> /\ Range(conversationData) = {}
    BY DEF Init, Range
<1> QED
    BY <1>1, <1>2, <1>3, <1>4 DEF VersionInv, QuietBeforeData, LatestIs, NoVersionMix

\* A step that changes the cached data, or nothing but the queue of events.
LEMMA NotifyKeepsVersion ==
    ASSUME VersionInv, TypeOK', NotifyIfChanged,
           UNCHANGED <<listening, conversationData>>,
           dbQueue' = dbQueue \/ (dbQueue # <<>> /\ dbQueue' = Tail(dbQueue))
    PROVE  VersionInv'
<1> USE DEF VersionInv
<1>1. CASE listening = "on" /\ View' # View
    <2>1. Closure("event", View') \in Closures
        BY DEF Closure, Closures, Kinds, View
    <2>2. mainQueue' = Append(mainQueue, Closure("event", View'))
        BY <1>1 DEF NotifyIfChanged
    <2>3. LatestIs(mainQueue', View')
        BY <2>1, <2>2, LatestOfAppend DEF TypeOK, Closure
    <2>4. ~NoEvent(mainQueue')
        BY <2>1, <2>2, NoEventOfAppend DEF TypeOK, Closure
    <2>5. NoVersionMix'
        BY <2>4 DEF NoVersionMix, EventWaiting, NoEvent
    <2> QED
        BY <1>1, <2>3, <2>5 DEF QuietBeforeData
<1>2. CASE listening # "on"
    <2>1. mainQueue' = mainQueue
        BY <1>2 DEF NotifyIfChanged
    <2>2. conversationData' = <<>> /\ Range(conversationData') = {}
        BY <1>2 DEF QuietBeforeData, Range
    <2>3. LatestIs(mainQueue', View')
        BY <1>2, <2>1 DEF QuietBeforeData, LatestIs
    <2>4. \A i \in 1..Len(dbQueue') : dbQueue'[i].op # "fetch"
        <3>1. \A i \in 1..Len(dbQueue) : dbQueue[i].op # "fetch"
            BY <1>2 DEF QuietBeforeData
        <3>2. CASE dbQueue # <<>> /\ dbQueue' = Tail(dbQueue)
            BY <3>1, <3>2, TailKeeps, LenProperties DEF TypeOK
        <3> QED
            BY <3>1, <3>2
    <2> QED
        BY <1>2, <2>1, <2>2, <2>3, <2>4 DEF QuietBeforeData, NoVersionMix
<1>3. CASE listening = "on" /\ View' = View
    <2>1. mainQueue' = mainQueue
        BY <1>3 DEF NotifyIfChanged
    <2>2. LatestIs(mainQueue', View')
        BY <1>3, <2>1
    <2>3. NoVersionMix'
        BY <1>3, <2>1 DEF NoVersionMix, EventWaiting
    <2> QED
        BY <1>3, <2>2, <2>3 DEF QuietBeforeData
<1> QED
    BY <1>1, <1>2, <1>3

\* A value event is raised with the data as they are.
LEMMA EventKeepsVersion ==
    ASSUME VersionInv, TypeOK', UNCHANGED <<server, puts, conversationData>>,
           listening' = "on",
           mainQueue' = Append(mainQueue, Closure("event", View))
    PROVE  VersionInv'
<1> USE DEF VersionInv
<1>1. View' = View
    BY DEF View, LastWrite
<1>2. Closure("event", View) \in Closures
    BY ClosureTypes, ViewType DEF Kinds
<1>3. LatestIs(mainQueue', View')
    BY <1>1, <1>2, LatestOfAppend DEF TypeOK, Closure
<1>4. ~NoEvent(mainQueue')
    BY <1>2, NoEventOfAppend DEF TypeOK, Closure
<1> QED
    BY <1>3, <1>4 DEF QuietBeforeData, NoVersionMix, EventWaiting, NoEvent

\* A refresh that no event supersedes leaves the data complete.
LEMMA FetchedCompletes ==
    ASSUME VersionInv, RunFetched, NoEvent(mainQueue')
    PROVE  Range(conversationData') = View
<1> USE DEF VersionInv
<1> DEFINE head == Head(mainQueue)
<1>1. mainQueue # <<>> /\ head \in Closures /\ Tail(mainQueue) \in Seq(Closures)
    BY HeadTailProperties DEF RunFetched, TypeOK
<1>2. Closure("reload", {}) \in Closures
    BY ClosureTypes DEF Kinds
<1>3. NoEvent(Tail(mainQueue))
    BY <1>1, <1>2, NoEventOfAppend DEF RunFetched
<1>4. NoEvent(mainQueue)
    BY <1>1, <1>3, NoEventOfTail DEF RunFetched, TypeOK
<1>5. head.snap = View
    <2>1. head = mainQueue[1] /\ 1 \in 1..Len(mainQueue)
        BY <1>1, TailKeeps, EmptySeq DEF TypeOK
    <2>2. head.kind = "fetched"
        BY DEF RunFetched
    <2> QED
        BY <1>4, <2>1, <2>2 DEF LatestIs, NoEvent
<1>6. Range(conversationData) \in {{}, View}
    BY <1>4 DEF NoVersionMix, EventWaiting, NoEvent
<1>7. PICK q \in Sortings(head.snap) : conversationData' = conversationData \o q
    BY DEF RunFetched
<1>8. Range(conversationData') = Range(conversationData) \cup View
    BY <1>5, <1>7, ViewType, RangeOfSorting DEF TypeOK
<1> QED
    BY <1>6, <1>8

\* One step per action: the newest waiting event, or the data, has the present version.
LEMMA NextVersion == VersionInv /\ TypeOK' /\ [Next]_vars => VersionInv'
<1> SUFFICES ASSUME VersionInv, TypeOK', [Next]_vars PROVE VersionInv'
    OBVIOUS
<1> USE DEF VersionInv
<1>a. ASSUME UNCHANGED <<server, puts>> PROVE View' = View
    BY <1>a DEF View, LastWrite
<1>b. ASSUME mainQueue # <<>>, Head(mainQueue).kind # "reload"
      PROVE  listening = "on"
    <2>1. Head(mainQueue) = mainQueue[1] /\ 1 \in 1..Len(mainQueue)
        BY <1>b, TailKeeps, EmptySeq DEF TypeOK
    <2> QED
        BY <1>b, <2>1 DEF QuietBeforeData
<1>c. ASSUME mainQueue # <<>> PROVE LatestIs(Tail(mainQueue), View)
    BY <1>c, LatestOfTail DEF TypeOK
<1>d. ASSUME UNCHANGED <<server, puts, listening, mainQueue, conversationData>>,
             listening # "on" => \A i \in 1..Len(dbQueue') : dbQueue'[i].op # "fetch"
      PROVE  VersionInv'
    BY <1>a, <1>d DEF QuietBeforeData, NoVersionMix, EventWaiting
<1>1. CASE RunEvent
    <2>1. Closure("getAll", {}) \in Closures
        BY ClosureTypes DEF Kinds
    <2>2. mainQueue # <<>> /\ Tail(mainQueue) \in Seq(Closures)
        BY <1>1, HeadTailProperties DEF RunEvent, TypeOK
    <2>3. LatestIs(mainQueue', View)
        BY <1>1, <1>c, <2>1, <2>2, LatestOfAppend DEF RunEvent, Closure
    <2>4. listening = "on"
        BY <1>1, <1>b DEF RunEvent
    <2>5. View' = View
        BY <1>1, <1>a DEF RunEvent, clientVars
    <2>6. Range(conversationData') = {}
        BY <1>1 DEF RunEvent, Range
    <2> QED
        BY <1>1, <2>3, <2>4, <2>5, <2>6 DEF RunEvent, QuietBeforeData, NoVersionMix
<1>2. CASE RunGetAll
    <2>1. listening = "on"
        BY <1>2, <1>b DEF RunGetAll
    <2>2. View' = View
        BY <1>2, <1>a DEF RunGetAll, clientVars
    <2>3. LatestIs(mainQueue', View')
        BY <1>2, <1>c, <2>2 DEF RunGetAll
    <2>4. NoEvent(mainQueue') => NoEvent(mainQueue)
        BY <1>2, NoEventOfTail DEF RunGetAll, TypeOK
    <2> QED
        BY <1>2, <2>1, <2>2, <2>3, <2>4
           DEF RunGetAll, viewVars, QuietBeforeData, NoVersionMix, EventWaiting, NoEvent
<1>3. CASE RunFetched
    <2> DEFINE head == Head(mainQueue)
    <2>1. mainQueue # <<>> /\ head \in Closures /\ Tail(mainQueue) \in Seq(Closures)
        BY <1>3, HeadTailProperties DEF RunFetched, TypeOK
    <2>2. Closure("reload", {}) \in Closures
        BY ClosureTypes DEF Kinds
    <2>3. listening = "on"
        BY <1>3, <1>b DEF RunFetched
    <2>4. View' = View
        BY <1>3, <1>a DEF RunFetched, clientVars
    <2>5. LatestIs(mainQueue', View')
        BY <1>3, <1>c, <2>1, <2>2, <2>4, LatestOfAppend DEF RunFetched, Closure
    <2>6. NoEvent(mainQueue') => Range(conversationData') = View'
        BY <1>3, <2>4, FetchedCompletes
    <2> QED
        BY <1>3, <2>3, <2>5, <2>6
           DEF RunFetched, QuietBeforeData, NoVersionMix, EventWaiting, NoEvent
<1>4. CASE RunReload
    <2>1. View' = View
        BY <1>4, <1>a DEF RunReload, clientVars
    <2>2. LatestIs(mainQueue', View')
        BY <1>4, <1>c, <2>1 DEF RunReload
    <2>3. NoEvent(mainQueue') => NoEvent(mainQueue)
        BY <1>4, NoEventOfTail DEF RunReload, TypeOK
    <2>4. listening # "on" => \A i \in 1..Len(mainQueue') : mainQueue'[i].kind = "reload"
        BY <1>4, TailKeeps, LenProperties DEF RunReload, QuietBeforeData, TypeOK
    <2> QED
        BY <1>4, <2>1, <2>2, <2>3, <2>4
           DEF RunReload, QuietBeforeData, NoVersionMix, EventWaiting, NoEvent
<1>5. ASSUME NEW R \in SUBSET DOMAIN cells, DrawRows(R) PROVE VersionInv'
    BY <1>5, <1>d DEF DrawRows, clientVars, QuietBeforeData
<1>6. ASSUME NEW i \in DOMAIN cells, LongPress(i) PROVE VersionInv'
    BY <1>6, <1>d DEF LongPress, clientVars, QuietBeforeData
<1>7. ASSUME NEW m \in Messages, Send(m) PROVE VersionInv'
    <2>1. Operation("put", m) \in Operations /\ Operation("put", m).op # "fetch"
        BY DEF Operation, Operations, Writes
    <2>2. \A i \in 1..Len(dbQueue') : dbQueue'[i].op = "fetch" =>
              i \in 1..Len(dbQueue) /\ dbQueue[i].op = "fetch"
        BY <1>7, <2>1, AppendKeeps, LenProperties DEF Send, TypeOK
    <2> QED
        BY <1>7, <1>d, <2>2 DEF Send, viewVars, QuietBeforeData
<1>8. CASE Delete
    <2> DEFINE removes == [i \in 1..Len(deletedMessageIds) |->
                               Operation("remove", deletedMessageIds[i])]
    <2>1. /\ removes \in Seq(Operations)
          /\ \A i \in 1..Len(removes) : removes[i].op # "fetch"
        BY DEF Operation, Operations, Writes, TypeOK
    <2>2. dbQueue' = dbQueue \o removes
        BY <1>8 DEF Delete
    <2> HIDE DEF removes
    <2>3. \A i \in 1..Len(dbQueue') : dbQueue'[i].op = "fetch" =>
              i \in 1..Len(dbQueue) /\ dbQueue[i].op = "fetch"
        BY <2>1, <2>2, ConcatProperties, LenProperties DEF TypeOK
    <2> QED
        BY <1>8, <1>d, <2>3 DEF Delete, clientVars, viewVars, QuietBeforeData
<1>9. CASE DbObserveWarm \/ FirstData \/ OtherConversationChanges
    BY <1>9, EventKeepsVersion
       DEF DbObserveWarm, FirstData, OtherConversationChanges, clientVars, viewVars
<1>10. CASE DbObserveCold
    <2>1. \A i \in 1..Len(dbQueue') : dbQueue'[i].op # "fetch"
        BY <1>10, TailKeeps, LenProperties
           DEF DbObserveCold, FirstOperation, QuietBeforeData, TypeOK
    <2>2. listening = "off" /\ listening' = "waiting"
          /\ UNCHANGED <<server, puts, mainQueue, conversationData>>
        BY <1>10 DEF DbObserveCold, clientVars, viewVars
    <2> QED
        BY <1>a, <2>1, <2>2 DEF QuietBeforeData, NoVersionMix, EventWaiting
<1>11. CASE DbFetch
    <2>1. Closure("fetched", View) \in Closures
        BY ClosureTypes, ViewType DEF Kinds
    <2>2. View' = View
        BY <1>11, <1>a DEF DbFetch, clientVars
    <2>3. LatestIs(mainQueue', View')
        BY <1>11, <2>1, <2>2, LatestOfAppend DEF DbFetch, TypeOK, Closure
    <2>4. NoEvent(mainQueue') => NoEvent(mainQueue)
        BY <1>11, <2>1, NoEventOfAppend DEF DbFetch, TypeOK
    <2>5. listening = "on"
        <3>1. Head(dbQueue) = dbQueue[1] /\ 1 \in 1..Len(dbQueue)
            BY <1>11, TailKeeps, EmptySeq DEF DbFetch, FirstOperation, TypeOK
        <3> QED
            BY <1>11, <3>1 DEF DbFetch, FirstOperation, QuietBeforeData
    <2> QED
        BY <1>11, <2>2, <2>3, <2>4, <2>5
           DEF DbFetch, viewVars, QuietBeforeData, NoVersionMix, EventWaiting, NoEvent
<1>12. CASE DbWrite
    BY <1>12, NotifyKeepsVersion DEF DbWrite, FirstOperation, viewVars
<1>13. CASE ServerStep
    BY <1>13, NotifyKeepsVersion DEF ServerStep, viewVars
<1>14. CASE ForcedSignOut
    BY <1>14, <1>d DEF ForcedSignOut, clientVars, viewVars, QuietBeforeData
<1>15. CASE UNCHANGED vars
    BY <1>15, <1>d DEF vars, clientVars, viewVars, QuietBeforeData
<1> QED
    BY <1>1, <1>2, <1>3, <1>4, <1>5, <1>6, <1>7, <1>8, <1>9, <1>10, <1>11, <1>12, <1>13,
       <1>14, <1>15 DEF Next, MainStep, DbStep, Layout, Scroll

(***************************************************************************)
(* Once the observer has handled every event, the screen's data are empty  *)
(* or exactly the messages of the present conversation: refreshes that     *)
(* overlap can repeat messages but never mix two versions (lines 108-113   *)
(* and 141-149 of the screen, 253-343 of the manager).                     *)
(***************************************************************************)
THEOREM VersionsNeverMix == Spec => []NoVersionMix
<1>1. VersionInv /\ [Next]_vars => VersionInv'
    BY NextTypeOK, NextVersion DEF VersionInv
<1>2. VersionInv => NoVersionMix
    BY DEF VersionInv
<1> QED
    BY <1>1, <1>2, InitVersion, PTL DEF Spec

----------------------------------------------------------------------------
(* A list at rest is complete.  The invariant says who still owes a        *)
(* refresh: with the observer on and a user signed in, a closure on its    *)
(* way will empty the data or fill them, or they are the conversation.     *)

RefreshOwed ==
    \/ \E i \in 1..Len(mainQueue) : mainQueue[i].kind \in {"event", "getAll", "fetched"}
    \/ \E i \in 1..Len(dbQueue) : dbQueue[i].op = "fetch"

NoneForgotten == (listening = "on" /\ signedIn) => RefreshOwed \/ Range(conversationData) = View

\* A refresh is owed until its own closure runs.
LEMMA OwedGoesOn ==
    ASSUME TypeOK, TypeOK', RefreshOwed,
           \/ mainQueue' = mainQueue
           \/ \E c \in Closures : mainQueue' = Append(mainQueue, c)
           \/ mainQueue # <<>> /\ Head(mainQueue).kind = "reload" /\ mainQueue' = Tail(mainQueue),
           \/ dbQueue' = dbQueue
           \/ \E s \in Seq(Operations) : dbQueue' = dbQueue \o s
           \/ dbQueue # <<>> /\ Head(dbQueue).op # "fetch" /\ dbQueue' = Tail(dbQueue)
    PROVE  RefreshOwed'
<1>1. CASE \E i \in 1..Len(mainQueue) : mainQueue[i].kind \in {"event", "getAll", "fetched"}
    <2>1. PICK i \in 1..Len(mainQueue) : mainQueue[i].kind \in {"event", "getAll", "fetched"}
        BY <1>1
    <2>2. CASE mainQueue' = mainQueue
        BY <2>1, <2>2 DEF RefreshOwed
    <2>3. ASSUME NEW c \in Closures, mainQueue' = Append(mainQueue, c) PROVE RefreshOwed'
        <3>1. i \in 1..Len(mainQueue') /\ mainQueue'[i] = mainQueue[i]
            BY <2>3, AppendKeeps DEF TypeOK
        <3> QED
            BY <2>1, <3>1 DEF RefreshOwed
    <2>4. CASE mainQueue # <<>> /\ Head(mainQueue).kind = "reload" /\ mainQueue' = Tail(mainQueue)
        <3>1. i # 1
            BY <2>1, <2>4, TailKeeps DEF TypeOK
        <3>2. i - 1 \in 1..Len(mainQueue') /\ mainQueue'[i - 1] = mainQueue[i]
            BY <2>1, <2>4, <3>1, TailKeeps DEF TypeOK
        <3> QED
            BY <2>1, <3>2 DEF RefreshOwed
    <2> QED
        BY <2>2, <2>3, <2>4
<1>2. CASE \E i \in 1..Len(dbQueue) : dbQueue[i].op = "fetch"
    <2>1. PICK i \in 1..Len(dbQueue) : dbQueue[i].op = "fetch"
        BY <1>2
    <2>2. CASE dbQueue' = dbQueue
        BY <2>1, <2>2 DEF RefreshOwed
    <2>3. ASSUME NEW s \in Seq(Operations), dbQueue' = dbQueue \o s PROVE RefreshOwed'
        <3>1. i \in 1..Len(dbQueue') /\ dbQueue'[i] = dbQueue[i]
            BY <2>3, ConcatProperties DEF TypeOK
        <3> QED
            BY <2>1, <3>1 DEF RefreshOwed
    <2>4. CASE dbQueue # <<>> /\ Head(dbQueue).op # "fetch" /\ dbQueue' = Tail(dbQueue)
        <3>1. i # 1
            BY <2>1, <2>4, TailKeeps DEF TypeOK
        <3>2. i - 1 \in 1..Len(dbQueue') /\ dbQueue'[i - 1] = dbQueue[i]
            BY <2>1, <2>4, <3>1, TailKeeps DEF TypeOK
        <3> QED
            BY <2>1, <3>2 DEF RefreshOwed
    <2> QED
        BY <2>2, <2>3, <2>4
<1> QED
    BY <1>1, <1>2 DEF RefreshOwed

\* A closure at the end of the main queue is a refresh owed.
LEMMA QueuedIsOwed ==
    ASSUME NEW q \in Seq(Closures), NEW c \in Closures,
           c.kind \in {"event", "getAll", "fetched"},
           mainQueue' = Append(q, c)
    PROVE  RefreshOwed'
<1>1. Len(q) + 1 \in 1..Len(mainQueue') /\ mainQueue'[Len(q) + 1] = c
    BY AppendKeeps, LenProperties
<1> QED
    BY <1>1 DEF RefreshOwed

\* One step per action: a change of the data leaves a refresh owed.
LEMMA NextForgetsNone ==
    VersionInv /\ TypeOK' /\ NoneForgotten /\ [Next]_vars => NoneForgotten'
<1> SUFFICES ASSUME VersionInv, TypeOK', NoneForgotten, [Next]_vars,
                    listening' = "on", signedIn'
             PROVE  RefreshOwed' \/ Range(conversationData') = View'
    BY DEF NoneForgotten
<1> USE DEF VersionInv
<1>a. ASSUME UNCHANGED <<server, puts>> PROVE View' = View
    BY <1>a DEF View, LastWrite
<1>b. ASSUME UNCHANGED <<server, puts, listening, mainQueue, conversationData>>, signedIn,
             \/ dbQueue' = dbQueue
             \/ \E s \in Seq(Operations) : dbQueue' = dbQueue \o s
      PROVE  RefreshOwed' \/ Range(conversationData') = View'
    BY <1>a, <1>b, OwedGoesOn DEF NoneForgotten
<1>c. ASSUME NotifyIfChanged, UNCHANGED <<listening, signedIn, conversationData>>,
             \/ dbQueue' = dbQueue
             \/ dbQueue # <<>> /\ Head(dbQueue).op # "fetch" /\ dbQueue' = Tail(dbQueue)
      PROVE  RefreshOwed' \/ Range(conversationData') = View'
    <2>1. CASE View' = View
        <3>1. mainQueue' = mainQueue
            BY <1>c, <2>1 DEF NotifyIfChanged
        <3> QED
            BY <1>c, <2>1, <3>1, OwedGoesOn DEF NoneForgotten
    <2>2. CASE View' # View
        <3>1. Closure("event", View') \in Closures /\ Closure("event", View').kind = "event"
            BY DEF Closure, Closures, Kinds, View
        <3>2. mainQueue' = Append(mainQueue, Closure("event", View'))
            BY <1>c, <2>2 DEF NotifyIfChanged
        <3> QED
            BY <3>1, <3>2, QueuedIsOwed DEF TypeOK
    <2> QED
        BY <2>1, <2>2
<1>1. CASE RunEvent
    <2>1. Closure("getAll", {}) \in Closures /\ Closure("getAll", {}).kind = "getAll"
        BY ClosureTypes DEF Kinds, Closure
    <2>2. Tail(mainQueue) \in Seq(Closures) /\ mainQueue' = Append(Tail(mainQueue), Closure("getAll", {}))
        BY <1>1, HeadTailProperties DEF RunEvent, TypeOK
    <2> QED
        BY <2>1, <2>2, QueuedIsOwed
<1>2. CASE RunGetAll
    <2>1. Operation("fetch", NoMessage) \in Operations /\ Operation("fetch", NoMessage).op = "fetch"
        BY DEF Operation, Operations
    <2>2. dbQueue' = Append(dbQueue, Operation("fetch", NoMessage))
        BY <1>2 DEF RunGetAll
    <2>3. Len(dbQueue) + 1 \in 1..Len(dbQueue') /\ dbQueue'[Len(dbQueue) + 1].op = "fetch"
        BY <2>1, <2>2, AppendKeeps, LenProperties DEF TypeOK
    <2> QED
        BY <2>3 DEF RefreshOwed
<1>3. CASE RunFetched
    <2>1. View' = View
        BY <1>3, <1>a DEF RunFetched, clientVars
    <2>2. CASE NoEvent(mainQueue')
        BY <1>3, <2>1, <2>2, FetchedCompletes
    <2>3. CASE ~NoEvent(mainQueue')
        BY <2>3 DEF NoEvent, RefreshOwed
    <2> QED
        BY <2>2, <2>3
<1>4. CASE RunReload
    <2>1. View' = View
        BY <1>4, <1>a DEF RunReload, clientVars
    <2> QED
        BY <1>4, <2>1, OwedGoesOn DEF RunReload, NoneForgotten
<1>5. ASSUME NEW R \in SUBSET DOMAIN cells, DrawRows(R)
      PROVE  RefreshOwed' \/ Range(conversationData') = View'
    BY <1>5, <1>b DEF DrawRows, clientVars
<1>6. ASSUME NEW i \in DOMAIN cells, LongPress(i)
      PROVE  RefreshOwed' \/ Range(conversationData') = View'
    BY <1>6, <1>b DEF LongPress, clientVars
<1>7. ASSUME NEW m \in Messages, Send(m)
      PROVE  RefreshOwed' \/ Range(conversationData') = View'
    <2>1. Operation("put", m) \in Operations
        BY DEF Operation, Operations, Writes
    <2>2. PICK o \in Operations : dbQueue' = Append(dbQueue, o)
        BY <1>7, <2>1 DEF Send
    <2>3. <<o>> \in Seq(Operations) /\ dbQueue' = dbQueue \o <<o>>
        BY <2>2, AppendIsConcat DEF TypeOK
    <2> QED
        BY <1>7, <1>b, <2>3 DEF Send, viewVars
<1>8. CASE Delete
    <2> DEFINE removes == [i \in 1..Len(deletedMessageIds) |->
                               Operation("remove", deletedMessageIds[i])]
    <2>1. removes \in Seq(Operations)
        BY DEF Operation, Operations, Writes, TypeOK
    <2>2. dbQueue' = dbQueue \o removes
        BY <1>8 DEF Delete
    <2> HIDE DEF removes
    <2> QED
        BY <1>8, <1>b, <2>1, <2>2 DEF Delete, clientVars, viewVars
<1>9. CASE DbObserveWarm \/ FirstData \/ OtherConversationChanges
    <2>1. Closure("event", View) \in Closures /\ Closure("event", View).kind = "event"
        BY ClosureTypes, ViewType DEF Kinds, Closure
    <2>2. mainQueue' = Append(mainQueue, Closure("event", View))
        BY <1>9 DEF DbObserveWarm, FirstData, OtherConversationChanges
    <2> QED
        BY <2>1, <2>2, QueuedIsOwed DEF TypeOK
<1>10. CASE DbObserveCold
    BY <1>10 DEF DbObserveCold
<1>11. CASE DbFetch
    <2>1. Closure("fetched", View) \in Closures /\ Closure("fetched", View).kind = "fetched"
        BY ClosureTypes, ViewType DEF Kinds, Closure
    <2>2. mainQueue' = Append(mainQueue, Closure("fetched", View))
        BY <1>11 DEF DbFetch
    <2> QED
        BY <2>1, <2>2, QueuedIsOwed DEF TypeOK
<1>12. CASE DbWrite
    BY <1>12, <1>c DEF DbWrite, FirstOperation, viewVars
<1>13. CASE ServerStep
    BY <1>13, <1>c DEF ServerStep, viewVars
<1>14. CASE ForcedSignOut
    BY <1>14 DEF ForcedSignOut
<1>15. CASE UNCHANGED vars
    BY <1>15, <1>b DEF vars, clientVars, viewVars
<1> QED
    BY <1>1, <1>2, <1>3, <1>4, <1>5, <1>6, <1>7, <1>8, <1>9, <1>10, <1>11, <1>12, <1>13,
       <1>14, <1>15 DEF Next, MainStep, DbStep, Layout, Scroll

(***************************************************************************)
(* Whenever the queues hold no work for the list, it has every message of  *)
(* the conversation and nothing else: however events, overlapping          *)
(* refreshes and changes interleave, the last of them is never lost (lines *)
(* 108-113 and 141-149 of the screen, 253-343 of the manager).             *)
(***************************************************************************)
THEOREM ListCompleteAtRest == Spec => []RestingListIsComplete
<1> DEFINE Inv == VersionInv /\ NoneForgotten
<1>1. Init => Inv
    BY InitVersion DEF Init, NoneForgotten
<1>2. Inv /\ [Next]_vars => Inv'
    BY NextTypeOK, NextVersion, NextForgetsNone DEF VersionInv
<1>3. Inv => RestingListIsComplete
    BY DEF RestingListIsComplete, NoneForgotten, RefreshOwed, Refreshing, EventWaiting
<1> HIDE DEF Inv
<1> QED
    BY <1>1, <1>2, <1>3, PTL DEF Spec
=============================================================================
