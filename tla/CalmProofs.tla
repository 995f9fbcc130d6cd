----------------------------- MODULE CalmProofs -----------------------------
(***************************************************************************)
(* Proofs about the chat screen without overlapping refreshes, for any set *)
(* of messages and any timestamps.                                         *)
(***************************************************************************)
EXTENDS CalmConversation, ConversationProofs

FetchQueued == \E i \in 1..Len(dbQueue) : dbQueue[i].op = "fetch"

\* One refresh at a time: what waits in the main queue, or the single event
\* that was asked for, is all there is of it, and the list is empty until the
\* messages arrive.
OneRefresh ==
    /\ Len(mainQueue) <= 1
    /\ \A i, j \in 1..Len(dbQueue) : (dbQueue[i].op = "fetch" /\ dbQueue[j].op = "fetch") => i = j
    /\ FetchQueued => mainQueue = <<>> /\ conversationData = <<>>
    /\ (mainQueue # <<>> /\ Head(mainQueue).kind \in {"getAll", "fetched"})
          => conversationData = <<>>

CalmInv == VersionInv /\ OneRefresh /\ NoMessageListedTwice

\* What messages.sort leaves has every message once.
LEMMA SortingsRepeatNothing ==
    ASSUME NEW S \in SUBSET Messages, NEW q \in Sortings(S)
    PROVE  \A i, j \in 1..Len(q) : q[i] = q[j] => i = j
<1>1. Cardinality(S) \in Nat /\ IsFiniteSet(S)
    BY MessagesAssumption, FS_Subset, FS_CardinalityType
<1>2. PICK n \in Nat : n = Cardinality(S)
    BY <1>1
<1>3. q \in [1..n -> S] /\ \A m \in S : \E i \in DOMAIN q : q[i] = m
    BY <1>2 DEF Sortings
<1>4. q \in Surjection(1..n, S)
    BY <1>3 DEF Surjection
<1>5. IsFiniteSet(1..n) /\ Cardinality(1..n) = n
    BY FS_Interval
<1>6. q \in Injection(1..n, S)
    BY <1>2, <1>4, <1>5, FS_SurjSameCardinalityImpliesInj
<1>7. Len(q) = n
    BY <1>3
<1> QED
    BY <1>6, <1>7 DEF Injection, IsInjective

LEMMA SortingsList ==
    ASSUME NEW S \in SUBSET Messages, NEW q \in Sortings(S)
    PROVE  q \in Seq(S)
<1>1. Cardinality(S) \in Nat
    BY MessagesAssumption, FS_Subset, FS_CardinalityType
<1>2. PICK n \in Nat : n = Cardinality(S)
    BY <1>1
<1> QED
    BY <1>2 DEF Sortings

\* Nothing waits when an event is raised.
LEMMA RaisedWhenIdle ==
    ASSUME TypeOK, CalmNext, NEW S \in SUBSET Messages,
           mainQueue' = Append(mainQueue, Closure("event", S))
    PROVE  mainQueue = <<>> /\ ~FetchQueued
<1>1. Closure("event", S) \in Closures /\ Closure("event", S).kind = "event"
    BY ClosureTypes DEF Kinds, Closure
<1>2. EventRaised
    BY <1>1, AppendKeeps, LenProperties DEF TypeOK, EventRaised
<1>3. ~Refreshing /\ ~EventWaiting
    BY <1>2 DEF CalmNext
<1>4. \A i \in 1..Len(mainQueue) : mainQueue[i].kind \in Kinds
    <2>1. \A i \in 1..Len(mainQueue) : mainQueue[i] \in Closures
        BY ElementOfSeq DEF TypeOK
    <2> QED
        BY <2>1 DEF Closures
<1>5. ~(1 \in 1..Len(mainQueue))
    BY <1>3, <1>4 DEF Refreshing, EventWaiting, Kinds
<1>6. mainQueue = <<>>
    BY <1>5, EmptySeq, LenProperties DEF TypeOK
<1> QED
    BY <1>3, <1>6 DEF Refreshing, FetchQueued

\* Requests of the user and of the client's queue add no single event.
LEMMA FetchesKept ==
    ASSUME TypeOK, OneRefresh,
           \/ dbQueue' = dbQueue
           \/ dbQueue # <<>> /\ dbQueue' = Tail(dbQueue)
           \/ \E s \in Seq(Operations) :
                 dbQueue' = dbQueue \o s /\ \A i \in 1..Len(s) : s[i].op # "fetch"
    PROVE  /\ FetchQueued' => FetchQueued
           /\ \A i, j \in 1..Len(dbQueue') :
                 (dbQueue'[i].op = "fetch" /\ dbQueue'[j].op = "fetch") => i = j
<1>1. dbQueue \in Seq(Operations) /\ Len(dbQueue) \in Nat
    BY LenProperties DEF TypeOK
<1>2. CASE dbQueue' = dbQueue
    BY <1>2 DEF FetchQueued, OneRefresh
<1>3. CASE dbQueue # <<>> /\ dbQueue' = Tail(dbQueue)
    <2>1. \A i \in 1..Len(dbQueue') : dbQueue'[i] = dbQueue[i + 1] /\ i + 1 \in 1..Len(dbQueue)
        BY <1>1, <1>3, TailKeeps
    <2>2. Len(dbQueue') \in Nat
        BY <1>1, <1>3, TailKeeps
    <2>3. FetchQueued' => FetchQueued
        BY <2>1 DEF FetchQueued
    <2>4. \A i, j \in 1..Len(dbQueue') : i + 1 = j + 1 => i = j
        BY <2>2
    <2> QED
        BY <2>1, <2>3, <2>4 DEF OneRefresh
<1>4. ASSUME NEW s \in Seq(Operations),
             dbQueue' = dbQueue \o s, \A i \in 1..Len(s) : s[i].op # "fetch"
      PROVE  /\ FetchQueued' => FetchQueued
             /\ \A i, j \in 1..Len(dbQueue') :
                   (dbQueue'[i].op = "fetch" /\ dbQueue'[j].op = "fetch") => i = j
    <2>1. \A i \in 1..Len(dbQueue') : dbQueue'[i].op = "fetch" =>
              i \in 1..Len(dbQueue) /\ dbQueue'[i] = dbQueue[i]
        BY <1>1, <1>4, ConcatProperties, LenProperties
    <2> QED
        BY <2>1 DEF FetchQueued, OneRefresh
<1> QED
    BY <1>2, <1>3, <1>4

LEMMA InitCalm == Init => CalmInv
<1> SUFFICES ASSUME Init PROVE CalmInv
    OBVIOUS
<1>1. /\ Len(mainQueue) = 1 /\ conversationData = <<>>
      /\ Len(dbQueue) = 1 /\ dbQueue[1].op = "observe"
    BY DEF Init, Operation
<1>2. ~FetchQueued
    BY <1>1 DEF FetchQueued
<1>3. \A i, j \in 1..Len(dbQueue) : i = j
    BY <1>1
<1>4. OneRefresh
    BY <1>1, <1>2, <1>3 DEF OneRefresh
<1> QED
    BY <1>1, <1>4, InitVersion DEF CalmInv, NoMessageListedTwice

\* What a waiting closure of the only refresh knows.
LEMMA OnlyClosure ==
    ASSUME CalmInv, mainQueue # <<>>
    PROVE  /\ Head(mainQueue) \in Closures
           /\ Tail(mainQueue) = <<>>
           /\ ~FetchQueued
           /\ Head(mainQueue).kind = "fetched" =>
                 conversationData = <<>> /\ Head(mainQueue).snap = View
<1>0. mainQueue \in Seq(Closures) /\ Len(mainQueue) <= 1
    BY DEF CalmInv, VersionInv, TypeOK, OneRefresh
<1>1. mainQueue \in Seq(Closures) /\ Len(mainQueue) = 1 /\ Head(mainQueue) = mainQueue[1]
    <2>1. Len(mainQueue) \in Nat /\ Len(mainQueue) # 0
        BY <1>0, EmptySeq, LenProperties
    <2>2. Len(mainQueue) = 1
        <3>1. PICK n \in Nat : n = Len(mainQueue)
            BY <2>1
        <3>2. n <= 1 /\ n # 0
            BY <1>0, <2>1, <3>1
        <3> QED
            BY <3>1, <3>2
    <2>3. Head(mainQueue) = mainQueue[1]
        BY <1>0, TailKeeps
    <2> QED
        BY <1>0, <2>2, <2>3
<1>2. Head(mainQueue) \in Closures /\ Tail(mainQueue) \in Seq(Closures) /\ Len(Tail(mainQueue)) = 0
    BY <1>1, HeadTailProperties
<1>3. Tail(mainQueue) = <<>>
    BY <1>2, EmptySeq
<1>4. ~FetchQueued
    BY DEF CalmInv, OneRefresh
<1>5. Head(mainQueue).kind = "fetched" => Head(mainQueue).snap = View
    <2>1. 1 \in 1..Len(mainQueue) /\ \A j \in (1 + 1)..Len(mainQueue) : FALSE
        BY <1>1
    <2> QED
        BY <1>1, <2>1 DEF CalmInv, VersionInv, LatestIs
<1> QED
    BY <1>2, <1>3, <1>4, <1>5 DEF CalmInv, OneRefresh

\* Arriving messages are all there is on the list.
LEMMA FetchedFills ==
    ASSUME CalmInv, RunFetched
    PROVE  conversationData = <<>> /\ conversationData' \in Sortings(View)
<1>1. mainQueue # <<>> /\ Head(mainQueue).kind = "fetched"
    BY DEF RunFetched
<1>2. conversationData = <<>> /\ Head(mainQueue).snap = View
    BY <1>1, OnlyClosure
<1>3. PICK q \in Sortings(View) : conversationData' = conversationData \o q
    BY <1>2 DEF RunFetched
<1>4. q \in Seq(Messages)
    BY ViewType, SortingsAreSequences
<1>5. <<>> \o q = q
    BY <1>4, ConcatEmptySeq
<1> QED
    BY <1>2, <1>3, <1>5

\* Every other step keeps the list or empties it.
LEMMA OthersKeepList ==
    ASSUME Next
    PROVE  RunFetched \/ conversationData' = <<>> \/ conversationData' = conversationData
BY DEF Next, MainStep, RunEvent, RunGetAll, RunReload, DbStep, DbObserveWarm, DbObserveCold,
   DbFetch, DbWrite, FirstData, Layout, Scroll, DrawRows, LongPress, Send, Delete, ServerStep,
   OtherConversationChanges, ForcedSignOut, viewVars

\* One step per action: the refresh that is under way stays the only one.
LEMMA NextCalm == CalmInv /\ TypeOK' /\ [CalmNext]_vars => OneRefresh'
<1> SUFFICES ASSUME CalmInv, TypeOK', [CalmNext]_vars PROVE OneRefresh'
    OBVIOUS
<1>1. TypeOK /\ OneRefresh
    BY DEF CalmInv, VersionInv
<1>2. ASSUME UNCHANGED <<mainQueue, conversationData>>,
             \/ dbQueue' = dbQueue
             \/ dbQueue # <<>> /\ dbQueue' = Tail(dbQueue)
             \/ \E s \in Seq(Operations) :
                   dbQueue' = dbQueue \o s /\ \A i \in 1..Len(s) : s[i].op # "fetch"
      PROVE  OneRefresh'
    <2>1. /\ FetchQueued' => FetchQueued
          /\ \A i, j \in 1..Len(dbQueue') :
                (dbQueue'[i].op = "fetch" /\ dbQueue'[j].op = "fetch") => i = j
        BY <1>1, <1>2, FetchesKept
    <2> QED
        BY <1>1, <1>2, <2>1 DEF OneRefresh
<1>3. ASSUME CalmNext, NEW S \in SUBSET Messages,
             mainQueue' = Append(mainQueue, Closure("event", S)),
             dbQueue' = dbQueue \/ (dbQueue # <<>> /\ dbQueue' = Tail(dbQueue))
      PROVE  OneRefresh'
    <2>1. mainQueue = <<>> /\ ~FetchQueued
        BY <1>1, <1>3, RaisedWhenIdle
    <2>2. /\ FetchQueued' => FetchQueued
          /\ \A i, j \in 1..Len(dbQueue') :
                (dbQueue'[i].op = "fetch" /\ dbQueue'[j].op = "fetch") => i = j
        BY <1>1, <1>3, FetchesKept
    <2>3. mainQueue' = <<Closure("event", S)>>
        BY <1>3, <2>1
    <2>4. Len(mainQueue') = 1 /\ Head(mainQueue').kind = "event"
        BY <2>3 DEF Closure
    <2> QED
        BY <2>1, <2>2, <2>4 DEF OneRefresh
<1>4. ASSUME CalmNext, NotifyIfChanged, conversationData' = conversationData,
             dbQueue' = dbQueue \/ (dbQueue # <<>> /\ dbQueue' = Tail(dbQueue))
      PROVE  OneRefresh'
    <2>1. View' \in SUBSET Messages
        BY DEF View
    <2> QED
        BY <1>2, <1>3, <1>4, <2>1 DEF NotifyIfChanged
<1>5. CASE CalmNext /\ RunEvent
    <2>1. Tail(mainQueue) = <<>> /\ ~FetchQueued
        BY <1>5, OnlyClosure DEF RunEvent
    <2>2. PICK c : c = Closure("getAll", {})
        OBVIOUS
    <2>3. mainQueue' = Append(<<>>, c) /\ conversationData' = <<>> /\ dbQueue' = dbQueue
        BY <1>5, <2>1, <2>2 DEF RunEvent
    <2>4. Len(mainQueue') = 1
        BY <2>3
    <2> QED
        BY <1>1, <2>1, <2>3, <2>4 DEF OneRefresh, FetchQueued
<1>6. CASE CalmNext /\ RunGetAll
    <2>1. mainQueue # <<>> /\ Tail(mainQueue) = <<>> /\ ~FetchQueued
        BY <1>6, OnlyClosure DEF RunGetAll
    <2>2. mainQueue' = <<>> /\ Len(mainQueue') = 0 /\ conversationData' = <<>>
        BY <1>1, <1>6, <2>1 DEF RunGetAll, OneRefresh, viewVars
    <2>3. PICK o : o = Operation("fetch", NoMessage)
        OBVIOUS
    <2>4. o \in Operations
        BY <2>3 DEF Operation, Operations
    <2>5. dbQueue' = dbQueue \/ dbQueue' = Append(dbQueue, o)
        BY <1>6, <2>3 DEF RunGetAll
    <2>6. \A i \in 1..Len(dbQueue') : dbQueue'[i].op = "fetch" => i = Len(dbQueue')
        <3>1. dbQueue \in Seq(Operations) /\ Len(dbQueue) \in Nat
            BY <1>1, LenProperties DEF TypeOK
        <3>2. \A i \in 1..Len(dbQueue) : dbQueue[i].op # "fetch"
            BY <2>1 DEF FetchQueued
        <3>3. CASE dbQueue' = dbQueue
            BY <3>2, <3>3
        <3>4. CASE dbQueue' = Append(dbQueue, o)
            <4>1. /\ Len(dbQueue') = Len(dbQueue) + 1
                  /\ \A i \in 1..Len(dbQueue) : dbQueue'[i] = dbQueue[i]
                BY <2>4, <3>1, <3>4, AppendKeeps
            <4>2. \A i \in 1..Len(dbQueue') : i # Len(dbQueue') => i \in 1..Len(dbQueue)
                BY <3>1, <4>1
            <4> QED
                BY <3>2, <4>1, <4>2
        <3> QED
            BY <2>5, <3>3, <3>4
    <2> QED
        BY <2>2, <2>6 DEF OneRefresh
<1>7. CASE CalmNext /\ RunFetched
    <2>1. Tail(mainQueue) = <<>> /\ ~FetchQueued
        BY <1>7, OnlyClosure DEF RunFetched
    <2>2. PICK c : c = Closure("reload", {})
        OBVIOUS
    <2>3. mainQueue' = Append(<<>>, c) /\ dbQueue' = dbQueue
        BY <1>7, <2>1, <2>2 DEF RunFetched
    <2>4. Len(mainQueue') = 1 /\ Head(mainQueue') = c
        BY <2>3
    <2>5. Head(mainQueue').kind = "reload"
        BY <2>2, <2>4 DEF Closure
    <2> QED
        BY <1>1, <2>1, <2>3, <2>4, <2>5 DEF OneRefresh, FetchQueued
<1>8. CASE CalmNext /\ RunReload
    <2>1. Tail(mainQueue) = <<>> /\ ~FetchQueued
        BY <1>8, OnlyClosure DEF RunReload
    <2>2. mainQueue' = <<>> /\ Len(mainQueue') = 0 /\ dbQueue' = dbQueue
        BY <1>8, <2>1 DEF RunReload
    <2> QED
        BY <1>1, <2>1, <2>2 DEF OneRefresh, FetchQueued
<1>9. CASE CalmNext /\ DbFetch
    <2>1. Head(dbQueue) = dbQueue[1] /\ 1 \in 1..Len(dbQueue) /\ dbQueue # <<>>
        BY <1>1, <1>9, TailKeeps, EmptySeq, LenProperties DEF DbFetch, FirstOperation, TypeOK
    <2>2. FetchQueued /\ mainQueue = <<>> /\ conversationData = <<>>
        BY <1>1, <1>9, <2>1 DEF DbFetch, FirstOperation, FetchQueued, OneRefresh
    <2>3. \A i \in 1..Len(dbQueue') : /\ dbQueue'[i] = dbQueue[i + 1]
                                      /\ i + 1 \in 1..Len(dbQueue) /\ i + 1 # 1
        BY <1>1, <1>9, <2>1, TailKeeps, LenProperties DEF DbFetch, TypeOK
    <2>4. ~FetchQueued'
        BY <1>1, <1>9, <2>1, <2>3 DEF DbFetch, FirstOperation, FetchQueued, OneRefresh
    <2>5. mainQueue' = <<Closure("fetched", View)>> /\ conversationData' = <<>>
        BY <1>9, <2>2 DEF DbFetch, viewVars
    <2>6. Len(mainQueue') = 1
        BY <2>5
    <2> QED
        BY <2>4, <2>5, <2>6 DEF OneRefresh, FetchQueued
<1>10. CASE CalmNext /\ (DbObserveWarm \/ FirstData \/ OtherConversationChanges)
    BY <1>3, <1>10, ViewType DEF DbObserveWarm, FirstOperation, FirstData, OtherConversationChanges
<1>11. CASE DbObserveCold
    BY <1>2, <1>11 DEF DbObserveCold, FirstOperation, viewVars
<1>12. CASE CalmNext /\ DbWrite
    BY <1>4, <1>12 DEF DbWrite, FirstOperation, viewVars
<1>13. CASE CalmNext /\ ServerStep
    BY <1>4, <1>13 DEF ServerStep, viewVars
<1>14. ASSUME NEW m \in Messages, Send(m) PROVE OneRefresh'
    <2>1. PICK o : o = Operation("put", m)
        OBVIOUS
    <2>2. o \in Operations /\ o.op = "put"
        BY <2>1 DEF Operation, Operations, Writes
    <2>3. <<o>> \in Seq(Operations) /\ dbQueue' = dbQueue \o <<o>>
        BY <1>1, <1>14, <2>1, <2>2 DEF Send, TypeOK
    <2>4. \A i \in 1..Len(<<o>>) : <<o>>[i].op # "fetch"
        BY <2>2
    <2> QED
        BY <1>2, <1>14, <2>3, <2>4 DEF Send, viewVars
<1>15. CASE Delete
    <2>1. PICK s : s = [i \in 1..Len(deletedMessageIds) |->
                           Operation("remove", deletedMessageIds[i])]
        OBVIOUS
    <2>2. s \in Seq(Operations) /\ \A i \in 1..Len(s) : s[i].op # "fetch"
        BY <1>1, <2>1 DEF Operation, Operations, Writes, TypeOK
    <2> QED
        BY <1>2, <1>15, <2>1, <2>2 DEF Delete, viewVars
<1>16. CASE Layout \/ (\E i \in DOMAIN cells : Scroll(i) \/ LongPress(i)) \/ ForcedSignOut
               \/ UNCHANGED vars
    BY <1>2, <1>16 DEF Layout, Scroll, DrawRows, LongPress, ForcedSignOut, vars, viewVars
<1> QED
    BY <1>5, <1>6, <1>7, <1>8, <1>9, <1>10, <1>11, <1>12, <1>13, <1>14, <1>15, <1>16
       DEF CalmNext, Next, MainStep, DbStep

\* The list without repetitions, and the rest.
LEMMA CalmStep == CalmInv /\ [CalmNext]_vars => CalmInv'
<1> SUFFICES ASSUME CalmInv, [CalmNext]_vars PROVE CalmInv'
    OBVIOUS
<1>1. [Next]_vars
    BY DEF CalmNext
<1>2. TypeOK' /\ VersionInv'
    BY <1>1, NextTypeOK, NextVersion DEF CalmInv, VersionInv
<1>3. OneRefresh'
    BY <1>2, NextCalm
<1>4. NoMessageListedTwice'
    <2>1. CASE RunFetched
        <3>1. conversationData' \in Sortings(View)
            BY <2>1, FetchedFills
        <3> QED
            BY <3>1, ViewType, SortingsRepeatNothing DEF NoMessageListedTwice
    <2>2. CASE conversationData' = <<>>
        BY <2>2 DEF NoMessageListedTwice
    <2>3. CASE conversationData' = conversationData
        BY <2>3 DEF CalmInv, NoMessageListedTwice
    <2> QED
        BY <1>1, <2>1, <2>2, <2>3, OthersKeepList DEF vars, viewVars
<1> QED
    BY <1>2, <1>3, <1>4 DEF CalmInv

(***************************************************************************)
(* If no change is noticed during a refresh, getAllConversations' append   *)
(* (line 144) finds the list as the observer emptied it (line 109): no     *)
(* message is ever listed twice.                                           *)
(***************************************************************************)
THEOREM ListsAreClean == CalmSpec => []NoMessageListedTwice
<1>1. CalmInv => NoMessageListedTwice
    BY DEF CalmInv
<1> QED
    BY <1>1, InitCalm, CalmStep, PTL DEF CalmSpec

(***************************************************************************)
(* And every step of the screen is one of the abstract list's, or none:    *)
(* the conversation changes, the list is emptied, or it is filled with the *)
(* whole conversation in the order of the messages' times.                 *)
(***************************************************************************)
THEOREM CalmIsBoard == CalmSpec => ImplementsBoard
<1>1. Init => Board!BoardInit
    BY ViewType DEF Init, Board!BoardInit
<1>2. CalmInv /\ [CalmNext]_vars =>
         [Board!Change \/ Board!Clear \/ Board!Fill]_<<View, conversationData>>
    <2> SUFFICES ASSUME CalmInv, [CalmNext]_vars,
                        ~(View' = View /\ conversationData' = conversationData)
                 PROVE  Board!Change \/ Board!Clear \/ Board!Fill
        OBVIOUS
    <2>1. UNCHANGED <<server, puts>> => View' = View
        BY DEF View, LastWrite
    <2>2. View' \in SUBSET Messages
        BY DEF View
    <2>3. Next
        BY <2>1 DEF CalmNext, vars, viewVars, clientVars
    <2>4. CASE RunFetched
        <3>1. conversationData = <<>> /\ conversationData' \in Sortings(View)
            BY <2>4, FetchedFills
        <3>2. PICK q : q = conversationData'
            OBVIOUS
        <3>3. q \in Sortings(View) /\ q \in Seq(View)
            BY <3>1, <3>2, ViewType, SortingsList
        <3>4. \A i, j \in 1..Len(q) : q[i] = q[j] => i = j
            BY <3>3, ViewType, SortingsRepeatNothing
        <3>5. DOMAIN q = 1..Len(q)
            BY <3>3
        <3>6. \A i, j \in 1..Len(q) : i < j => q[i] # q[j] /\ Time[q[i]] <= Time[q[j]]
            <4>1. \A i, j \in 1..Len(q) : i < j => Time[q[i]] <= Time[q[j]]
                BY <3>3, <3>5 DEF Sortings
            <4>2. \A i, j \in 1..Len(q) : i < j => i # j
                BY <3>3
            <4> QED
                BY <3>4, <4>1, <4>2
        <3>7. \A m \in View : \E i \in 1..Len(q) : q[i] = m
            BY <3>3, <3>5 DEF Sortings
        <3>8. Board!Lists(q, View)
            BY <3>3, <3>6, <3>7 DEF Board!Lists
        <3>9. View' = View
            BY <2>1, <2>4 DEF RunFetched, clientVars
        <3> QED
            BY <3>1, <3>2, <3>8, <3>9 DEF Board!Fill
    <2>5. CASE RunEvent
        BY <2>1, <2>5 DEF RunEvent, clientVars, Board!Clear
    <2>6. CASE conversationData' = conversationData
        BY <2>2, <2>6 DEF Board!Change
    <2>7. RunFetched \/ RunEvent \/ conversationData' = conversationData
        BY <2>3 DEF Next, MainStep, RunGetAll, RunReload, DbStep, DbObserveWarm, DbObserveCold,
           DbFetch, DbWrite, FirstData, Layout, Scroll, DrawRows, LongPress, Send, Delete,
           ServerStep, OtherConversationChanges, ForcedSignOut, viewVars
    <2> QED
        BY <2>4, <2>5, <2>6, <2>7
<1> QED
    BY <1>1, <1>2, InitCalm, CalmStep, PTL DEF CalmSpec, ImplementsBoard, Board!BoardSpec
=============================================================================
