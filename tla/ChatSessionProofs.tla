------------------------- MODULE ChatSessionProofs -------------------------
(***************************************************************************)
(* Proofs about ChatSession, for any number of screens, accounts, messages *)
(* and changes of the account, in three parts: what lists and deletions    *)
(* hold is of the screen's own users (SessionInv); a text is cleared by an *)
(* answer of its own screen only (AnswersInv); no change is forgotten      *)
(* between the two queues, whatever else they carry (FillInv).             *)
(***************************************************************************)
EXTENDS ChatSession, SequenceTheorems, TLAPS

----------------------------------------------------------------------------
(* Types. *)

LEMMA PathTypes ==
    ASSUME NEW u \in People, NEW v \in People
    PROVE  Between(u, v) \in Paths
BY DEF Paths

LEMMA OperationTypes ==
    /\ \A c \in Chats, p \in Paths : /\ Operation("observe", c, NoPath, NoMessage) \in Operations
                                     /\ Operation("fetch", c, p, NoMessage) \in Operations
    /\ \A c \in Chats \cup {NoChat}, p \in Paths, m \in Messages :
          /\ Operation("put", c, p, m) \in Operations
          /\ Operation("remove", c, p, m) \in Operations
BY DEF Operations, Operation, Paths

LEMMA ClosureTypes ==
    \A k \in {"event", "getAll", "fetched", "sent"}, c \in Chats, S \in SUBSET Messages :
        Closure(k, c, S) \in Closures
BY DEF Closures, Closure

\* What the head of a queue is.
LEMMA HeadTypes ==
    /\ \A s \in Seq(Closures) : s # <<>> =>
          /\ Head(s) \in Closures /\ Tail(s) \in Seq(Closures)
          /\ Head(s).chat \in Chats /\ Head(s).snap \in SUBSET Messages
    /\ \A s \in Seq(Operations) : s # <<>> =>
          Head(s) \in Operations /\ Tail(s) \in Seq(Operations)
<1>1. \A x \in Closures : x.chat \in Chats /\ x.snap \in SUBSET Messages
  BY DEF Closures
<1>2. \A s \in Seq(Closures) : s # <<>> => Head(s) \in Closures /\ Tail(s) \in Seq(Closures)
  OBVIOUS
<1>3. \A s \in Seq(Operations) : s # <<>> =>
         Head(s) \in Operations /\ Tail(s) \in Seq(Operations)
  OBVIOUS
<1>4. QED
  BY <1>1, <1>2, <1>3

LEMMA ViewOfMessages == View \subseteq Messages
BY DEF View

\* Events go to registered screens.
LEMMA EventTypes ==
    ASSUME listeners \in Seq(Chats)
    PROVE  Events \in Seq(Closures) /\ EventsIfChanged \in Seq(Closures)
<1>1. \A i \in 1..Len(listeners) : Closure("event", listeners[i], {}) \in Closures
  BY ClosureTypes
<1>2. Len(listeners) \in Nat
  OBVIOUS
<1>3. Events \in Seq(Closures)
  BY <1>1, <1>2 DEF Events
<1>4. QED
  BY <1>3 DEF EventsIfChanged

LEMMA InitialTypes == Init => TypeOK
<1> SUFFICES ASSUME Init PROVE TypeOK
  OBVIOUS
<1>1. ClientTypeOK
  BY DEF Init, ClientInit, ClientTypeOK
<1>2. SupportTypeOK
  BY DEF Init, SupportInit, SupportTypeOK
<1>3. /\ currentUser \in Users \cup {Nobody} /\ switches \in Nat /\ loaded \in BOOLEAN
      /\ open \in Chats \cup {NoChat}
  BY FirstUserAssumption DEF Init
<1>4. /\ partner \in [Chats -> Partners \cup {Nobody}]
      /\ seenBy \in [Chats -> SUBSET (Users \cup {Nobody})]
      /\ listed \in [Chats -> SUBSET Messages]
      /\ text \in [Chats -> Texts \cup {NoText}]
  BY DEF Init
<1>5. /\ deletedMessageIds \in [Chats -> Seq(Messages)]
      /\ listeners \in Seq(Chats) /\ dbQueue \in Seq(Operations) /\ mainQueue \in Seq(Closures)
  BY DEF Init
<1>6. message \in [Messages -> Contents]
  BY DEF Init, Contents
<1>7. given \in [Chats -> SUBSET (Paths \X Messages)]
  BY DEF Init
<1>8. QED
  BY <1>1, <1>2, <1>3, <1>4, <1>5, <1>6, <1>7 DEF TypeOK

\* The client's part of the steps.
LEMMA ClientKeepsTypes ==
    ASSUME ClientTypeOK
    PROVE  /\ \A w \in Writes : Write(w) => ClientTypeOK'
           /\ \A S \in SUBSET Messages : Update(S) => ClientTypeOK'
           /\ puts # <<>> /\ Answered(1) => ClientTypeOK'
<1>1. ASSUME NEW w \in Writes, Write(w) PROVE ClientTypeOK'
  BY <1>1 DEF ClientTypeOK, Write
<1>2. ASSUME NEW S \in SUBSET Messages, Update(S) PROVE ClientTypeOK'
  BY <1>2 DEF ClientTypeOK, Update
<1>3. ASSUME puts # <<>>, Answered(1) PROVE ClientTypeOK'
  <2>1. puts' = SubSeq(puts, 2, Len(puts)) /\ puts \in Seq(Writes)
    BY <1>3 DEF Answered, ClientTypeOK
  <2>2. puts' \in Seq(Writes)
    BY <2>1
  <2>3. QED
    BY <1>3, <2>2 DEF ClientTypeOK, Answered
<1>4. QED
  BY <1>1, <1>2, <1>3

\* A message written by this phone, and the queue it enters.
LEMMA ComposeKeepsTypes ==
    ASSUME TypeOK, NEW m \in Messages, NEW p \in Paths,
           NEW t \in Texts \cup {NoText, Placeholder}, NEW c \in Chats \cup {NoChat},
           Compose(m, p, t, c)
    PROVE  /\ ClientTypeOK' /\ message' \in [Messages -> Contents]
           /\ dbQueue' \in Seq(Operations)
           /\ listeners' = listeners /\ loaded' = loaded /\ given' = given
<1>1. Operation("put", c, p, m) \in Operations /\ dbQueue \in Seq(Operations)
  BY OperationTypes DEF TypeOK
<1>2. dbQueue' \in Seq(Operations)
  BY <1>1 DEF Compose
<1>3. [path |-> p, text |-> t, chat |-> c] \in Contents
  BY DEF Contents
<1>4. message' \in [Messages -> Contents]
  BY <1>3 DEF Compose, TypeOK
<1>5. ClientTypeOK'
  BY DEF Compose, TypeOK, ClientTypeOK
<1>6. QED
  BY <1>2, <1>4, <1>5 DEF Compose

\* What other users write.
LEMMA ElsewhereKeepsTypes ==
    ASSUME message \in [Messages -> Contents], NEW fresh, WrittenElsewhere(fresh)
    PROVE  message' \in [Messages -> Contents]
<1>1. \A u \in Users, p \in Partners : Between(u, p) \in Paths
  BY PathTypes DEF People
<1>2. PICK f \in [fresh -> {Between(u, p) : u \in Users, p \in Partners}] :
         message' = [m \in Messages |-> IF m \in fresh
                                       THEN [path |-> f[m], text |-> NoText, chat |-> NoChat]
                                       ELSE message[m]]
  BY DEF WrittenElsewhere
<1>3. \A m \in fresh : [path |-> f[m], text |-> NoText, chat |-> NoChat] \in Contents
  BY <1>1 DEF Contents
<1>4. QED
  BY <1>2, <1>3

(***************************************************************************)
(* Every variable of the screens, the queues and the client keeps its      *)
(* type; the completion of a send always has a screen to run on.           *)
(***************************************************************************)
THEOREM TypeCorrect == Spec => []TypeOK
<1>1. TypeOK /\ [Next]_vars => TypeOK'
  <2> SUFFICES ASSUME TypeOK, [Next]_vars PROVE TypeOK'
    OBVIOUS
  <2> USE DEF TypeOK
  <2>1. /\ currentUser \in People /\ \A c \in Chats : partner[c] \in People
        /\ AdminBot \in People /\ \A c \in Chats : PathOf(c) \in Paths
    BY PathTypes DEF People, PathOf
  <2>2. UNCHANGED clientVars => ClientTypeOK'
    BY DEF clientVars, ClientTypeOK
  <2>3. UNCHANGED supportVars => SupportTypeOK'
    BY DEF supportVars, SupportTypeOK
  <2>4. mainQueue # <<>> => /\ Head(mainQueue) \in Closures /\ Tail(mainQueue) \in Seq(Closures)
                            /\ Head(mainQueue).chat \in Chats
                            /\ Head(mainQueue).snap \in SUBSET Messages
    BY HeadTypes
  <2>5. dbQueue # <<>> => Head(dbQueue) \in Operations /\ Tail(dbQueue) \in Seq(Operations)
    BY HeadTypes
  <2>6. ASSUME NEW u \in Users \cup {Nobody}, AccountChanges(u) PROVE TypeOK'
    BY <2>2, <2>3, <2>6 DEF AccountChanges, dbVars
  <2>7. ASSUME NEW c \in Chats, NEW p \in Partners, OpenChat(c, p) PROVE TypeOK'
    <3>1. dbQueue' \in Seq(Operations)
      BY <2>7, OperationTypes, <2>1 DEF OpenChat
    <3>2. QED
      BY <2>2, <2>3, <2>7, <3>1 DEF OpenChat, dbVars
  <2>8. CASE CloseChat
    BY <2>2, <2>3, <2>8 DEF CloseChat, dbVars
  <2>9. ASSUME NEW t \in Texts, Type(t) PROVE TypeOK'
    BY <2>2, <2>3, <2>9 DEF Type, dbVars
  <2>10. ASSUME NEW m \in Messages, Send(m) PROVE TypeOK'
    <3>1. open \in Chats /\ text[open] \in Texts \cup {NoText, Placeholder}
      BY <2>10 DEF Send
    <3>2. /\ ClientTypeOK' /\ message' \in [Messages -> Contents] /\ dbQueue' \in Seq(Operations)
          /\ listeners' = listeners /\ loaded' = loaded /\ given' = given
      BY <2>1, <2>10, <3>1, ComposeKeepsTypes DEF Send
    <3>3. QED
      BY <2>3, <2>10, <3>2 DEF Send, screenVars
  <2>11. ASSUME NEW m \in Messages, LongPress(m) PROVE TypeOK'
    <3>1. open \in Chats
      BY <2>11 DEF LongPress
    <3>2. deletedMessageIds' \in [Chats -> Seq(Messages)]
      BY <2>11, <3>1 DEF LongPress
    <3>3. QED
      BY <2>2, <2>3, <2>11, <3>2 DEF LongPress, dbVars
  <2>12. ASSUME NEW m \in Messages, SendQuery(m) PROVE TypeOK'
    <3>1. supportUser \in People
      BY <2>12 DEF SendQuery, CanSendQuery, SupportTypeOK, People
    <3>2. Between(supportUser, AdminBot) \in Paths
      BY <2>1, <3>1, PathTypes
    <3>3. QueryToSend \in Texts \cup {NoText, Placeholder}
      BY SupportAssumption DEF QueryToSend, typeQueryTxtField
    <3>4. /\ ClientTypeOK' /\ message' \in [Messages -> Contents] /\ dbQueue' \in Seq(Operations)
          /\ listeners' = listeners /\ loaded' = loaded /\ given' = given
      BY <2>12, <3>2, <3>3, ComposeKeepsTypes DEF SendQuery
    <3>5. QED
      BY <2>3, <2>12, <3>4 DEF SendQuery, screenVars
  <2>13. CASE Delete
    <3>1. open \in Chats /\ PathOf(open) \in Paths /\ deletedMessageIds[open] \in Seq(Messages)
      BY <2>1, <2>13 DEF Delete
    <3>2. \A i \in 1..Len(deletedMessageIds[open]) :
             Operation("remove", open, PathOf(open), deletedMessageIds[open][i]) \in Operations
      BY <3>1, OperationTypes
    <3>3. dbQueue' \in Seq(Operations)
      BY <2>13, <3>1, <3>2 DEF Delete
    <3>4. QED
      BY <2>2, <2>3, <2>13, <3>3 DEF Delete, screenVars, dbVars
  <2>14. CASE SupportOpens
    BY <2>2, <2>14 DEF SupportOpens, OpenSupport, SupportTypeOK, screenVars, dbVars
  <2>15. CASE SupportStep
    <3>1. SupportTypeOK'
      BY <2>15 DEF SupportStep, ChooseQuery, CloseSupport, SupportTypeOK
    <3>2. QED
      BY <2>2, <2>15, <3>1 DEF SupportStep, screenVars, dbVars
  <2>16. CASE RunEvent
    <3>1. Closure("getAll", Head(mainQueue).chat, {}) \in Closures
      BY <2>4, <2>16, ClosureTypes DEF RunEvent, First
    <3>2. mainQueue' \in Seq(Closures)
      BY <2>4, <2>16, <3>1 DEF RunEvent, First
    <3>3. QED
      BY <2>2, <2>3, <2>16, <3>2 DEF RunEvent, dbVars
  <2>17. CASE RunGetAll
    <3>1. Operation("fetch", Head(mainQueue).chat, PathOf(Head(mainQueue).chat), NoMessage)
             \in Operations
      BY <2>1, <2>4, <2>17, OperationTypes DEF RunGetAll, First
    <3>2. dbQueue' \in Seq(Operations)
      BY <2>17, <3>1 DEF RunGetAll
    <3>3. QED
      BY <2>2, <2>3, <2>4, <2>17, <3>2 DEF RunGetAll, First, screenVars, dbVars
  <2>18. CASE RunFetched
    BY <2>2, <2>3, <2>4, <2>18 DEF RunFetched, First, dbVars
  <2>19. CASE RunSent
    BY <2>2, <2>3, <2>4, <2>19 DEF RunSent, First, dbVars
  <2>20. CASE DbObserve
    <3>1. Head(dbQueue).chat \in Chats
      BY <2>5, <2>20 DEF DbObserve, FirstOperation, Operations
    <3>2. Closure("event", Head(dbQueue).chat, {}) \in Closures
      BY <3>1, ClosureTypes
    <3>3. mainQueue' \in Seq(Closures)
      BY <2>20, <3>2 DEF DbObserve
    <3>4. QED
      BY <2>2, <2>3, <2>5, <2>20, <3>1, <3>3 DEF DbObserve, FirstOperation, screenVars
  <2>21. CASE DbFetch
    <3>1. Head(dbQueue).chat \in Chats
      BY <2>5, <2>21 DEF DbFetch, FirstOperation, Operations
    <3>2. {m \in View : message[m].path = Head(dbQueue).path} \in SUBSET Messages
      BY ViewOfMessages
    <3>3. Closure("fetched", Head(dbQueue).chat,
                  {m \in View : message[m].path = Head(dbQueue).path}) \in Closures
      BY <3>1, <3>2, ClosureTypes
    <3>4. mainQueue' \in Seq(Closures)
      BY <2>21, <3>3 DEF DbFetch, Answer
    <3>5. given' \in [Chats -> SUBSET (Paths \X Messages)]
      <4>1. PICK S : S = {m \in View : message[m].path = Head(dbQueue).path}
        OBVIOUS
      <4>2. Head(dbQueue).path \in Paths
        BY <2>5, <2>21 DEF DbFetch, FirstOperation, Operations
      <4>3. {Head(dbQueue).path} \X S \in SUBSET (Paths \X Messages)
        BY <3>2, <4>1, <4>2
      <4>4. given' = [given EXCEPT ![Head(dbQueue).chat] = @ \cup ({Head(dbQueue).path} \X S)]
        BY <2>21, <4>1 DEF DbFetch, Answer
      <4>5. QED
        BY <3>1, <4>3, <4>4
    <3>6. QED
      BY <2>2, <2>3, <2>5, <2>21, <3>4, <3>5 DEF DbFetch, Answer, FirstOperation, screenVars
  <2>22. CASE DbWrite
    <3>1. [op |-> Head(dbQueue).op, id |-> Head(dbQueue).id] \in Writes
      BY <2>5, <2>22 DEF DbWrite, FirstOperation, Operations, Writes
    <3>2. ClientTypeOK'
      BY <2>2, <2>22, <3>1, ClientKeepsTypes DEF DbWrite
    <3>3. mainQueue' \in Seq(Closures)
      BY <2>22, EventTypes DEF DbWrite
    <3>4. QED
      BY <2>3, <2>5, <2>22, <3>2, <3>3 DEF DbWrite, FirstOperation, screenVars
  <2>23. CASE FirstData
    <3>1. mainQueue' \in Seq(Closures)
      BY <2>23, EventTypes DEF FirstData
    <3>2. QED
      BY <2>2, <2>3, <2>23, <3>1 DEF FirstData, screenVars
  <2>24. CASE WriteAnswered
    <3>1. ClientTypeOK'
      BY <2>24, ClientKeepsTypes DEF WriteAnswered
    <3>2. Head(puts).id \in Messages
      <4>1. puts \in Seq(Writes) /\ puts # <<>>
        BY <2>24 DEF WriteAnswered, ClientTypeOK
      <4>2. Head(puts) \in Writes
        BY <4>1
      <4>3. QED
        BY <4>2 DEF Writes
    <3>3. message[Head(puts).id].chat \in Chats \cup {NoChat}
      BY <3>2 DEF Contents, NotWritten
    <3> DEFINE completion == IF Head(puts).op = "put" /\ message[Head(puts).id].chat # NoChat
                             THEN <<Closure("sent", message[Head(puts).id].chat, {})>> ELSE <<>>
    <3>4. completion \in Seq(Closures)
      BY <3>3, ClosureTypes
    <3>5. mainQueue' = mainQueue \o EventsIfChanged \o completion
      BY <2>24 DEF WriteAnswered
    <3> HIDE DEF completion
    <3>6. mainQueue' \in Seq(Closures)
      BY <3>4, <3>5, EventTypes
    <3>7. QED
      BY <2>3, <2>24, <3>1, <3>6 DEF WriteAnswered, screenVars
  <2>25. ASSUME NEW S \in SUBSET Messages, ServerChanges(S) PROVE TypeOK'
    <3>1. ClientTypeOK' /\ mainQueue' \in Seq(Closures)
      BY <2>25, ClientKeepsTypes, EventTypes DEF ServerChanges
    <3>2. PICK fresh : fresh = S \cap unused
      OBVIOUS
    <3>3. WrittenElsewhere(fresh)
      BY <2>25, <3>2 DEF ServerChanges
    <3>4. message' \in [Messages -> Contents]
      BY <3>3, ElsewhereKeepsTypes
    <3>5. QED
      BY <2>3, <2>25, <3>1, <3>4 DEF ServerChanges, screenVars
  <2>26. CASE UNCHANGED vars
    BY <2>2, <2>3, <2>26 DEF vars, screenVars, dbVars
  <2>27. QED
    BY <2>6, <2>7, <2>8, <2>9, <2>10, <2>11, <2>12, <2>13, <2>14, <2>15, <2>16, <2>17, <2>18,
       <2>19, <2>20, <2>21, <2>22, <2>23, <2>24, <2>25, <2>26 DEF Next, MainStep, DbStep
<1>2. QED
  BY <1>1, InitialTypes, PTL DEF Spec

----------------------------------------------------------------------------
(* Whose conversation each step of a refresh is about. *)

\* The conversation of the screen's partner and of somebody it has seen.
OwnPath(c, path) == \E u \in seenBy[c] : path = Between(u, partner[c])

\* Messages of the screen's own users, given to it when it asked for theirs.
OwnMessages(c, S) ==
    \A m \in S : /\ m \notin unused
                 /\ OwnPath(c, message[m].path)
                 /\ <<message[m].path, m>> \in given[c]

\* Screens opened by nobody ask for nothing.
SomebodySeen(c) == \E u \in seenBy[c] : u # Nobody

OperationFine(o) ==
    /\ o.op = "observe" => SomebodySeen(o.chat)
    /\ o.op = "fetch" => OwnPath(o.chat, o.path)
    /\ o.op \in {"put", "remove"} => o.id \notin unused

ClosureFine(k) ==
    /\ k.kind \in {"event", "getAll"} => seenBy[k.chat] # {}
    /\ OwnMessages(k.chat, k.snap)

\* A screen that is there has seen the present account.
HistoryKept ==
    \A c \in Chats : IF partner[c] = Nobody THEN seenBy[c] = {} ELSE currentUser \in seenBy[c]

\* No identifier in use is drawn again.
NoReuse ==
    /\ server \cap unused = {}
    /\ \A i \in 1..Len(puts) : puts[i].id \notin unused

SessionInv ==
    /\ HistoryKept
    /\ NoReuse
    /\ \A c \in Range(listeners) : SomebodySeen(c)
    /\ \A o \in Range(dbQueue) : OperationFine(o)
    /\ \A k \in Range(mainQueue) : ClosureFine(k)
    /\ \A c \in Chats : OwnMessages(c, listed[c]) /\ OwnMessages(c, Range(deletedMessageIds[c]))

\* What no step undoes: screens keep their partners and remember who was there
\* and what they were given, identifiers in use keep their messages.
Grows ==
    /\ \A c \in Chats : /\ seenBy[c] \subseteq seenBy'[c]
                        /\ seenBy[c] # {} => partner'[c] = partner[c]
                        /\ given[c] \subseteq given'[c]
    /\ unused' \subseteq unused
    /\ \A m \in Messages \ unused : message'[m] = message[m]

LEMMA RangeOfSequences ==
    ASSUME NEW T, NEW s \in Seq(T)
    PROVE  /\ Range(s) = {s[i] : i \in 1..Len(s)}
           /\ Range(s) \subseteq T
           /\ \A x \in T : Range(Append(s, x)) = Range(s) \cup {x}
           /\ \A t \in Seq(T) : Range(s \o t) = Range(s) \cup Range(t)
           /\ s # <<>> => Range(Tail(s)) \subseteq Range(s) /\ Head(s) \in Range(s)
<1> USE DEF Range
<1>1. Range(s) = {s[i] : i \in 1..Len(s)}
  OBVIOUS
<1>2. Range(s) \subseteq T
  OBVIOUS
<1>3. ASSUME NEW x \in T PROVE Range(Append(s, x)) = Range(s) \cup {x}
  <2>1. Append(s, x) \in Seq(T) /\ Len(Append(s, x)) = Len(s) + 1 /\ Len(s) \in Nat
    OBVIOUS
  <2>2. \A i \in 1..Len(s) : Append(s, x)[i] = s[i] /\ i \in 1..(Len(s) + 1)
    OBVIOUS
  <2>3. Append(s, x)[Len(s) + 1] = x
    OBVIOUS
  <2>4. DOMAIN Append(s, x) = 1..(Len(s) + 1) /\ DOMAIN s = 1..Len(s)
    BY <2>1
  <2>5. \A i \in 1..(Len(s) + 1) : i \in 1..Len(s) \/ i = Len(s) + 1
    BY <2>1
  <2>6. Len(s) + 1 \in 1..(Len(s) + 1)
    BY <2>1
  <2>7. QED
    BY <2>2, <2>3, <2>4, <2>5, <2>6
<1>4. ASSUME NEW t \in Seq(T) PROVE Range(s \o t) = Range(s) \cup Range(t)
  <2>1. Len(s) \in Nat /\ Len(t) \in Nat /\ Len(s \o t) = Len(s) + Len(t)
    OBVIOUS
  <2>2. DOMAIN (s \o t) = 1..(Len(s) + Len(t)) /\ DOMAIN s = 1..Len(s) /\ DOMAIN t = 1..Len(t)
    OBVIOUS
  <2>3. \A i \in 1..Len(s) : (s \o t)[i] = s[i] /\ i \in 1..(Len(s) + Len(t))
    OBVIOUS
  <2>4. \A i \in 1..Len(t) : (s \o t)[Len(s) + i] = t[i] /\ Len(s) + i \in 1..(Len(s) + Len(t))
    OBVIOUS
  <2>5. \A i \in 1..(Len(s) + Len(t)) :
           i \in 1..Len(s) \/ \E j \in 1..Len(t) : i = Len(s) + j
    <3>1. ASSUME NEW i \in 1..(Len(s) + Len(t)), i \notin 1..Len(s)
          PROVE  i - Len(s) \in 1..Len(t) /\ i = Len(s) + (i - Len(s))
      BY <2>1, <3>1
    <3>2. QED
      BY <3>1
  <2>6. \A i \in 1..(Len(s) + Len(t)) : (s \o t)[i] \in Range(s) \cup Range(t)
    BY <2>2, <2>3, <2>4, <2>5
  <2>7. Range(s) \subseteq Range(s \o t) /\ Range(t) \subseteq Range(s \o t)
    BY <2>2, <2>3, <2>4
  <2>8. Range(s \o t) \subseteq Range(s) \cup Range(t)
    BY <2>2, <2>6
  <2>9. QED
    BY <2>7, <2>8
<1>5. ASSUME s # <<>> PROVE Range(Tail(s)) \subseteq Range(s) /\ Head(s) \in Range(s)
  <2>1. Len(s) \in Nat /\ 1 \in 1..Len(s) /\ Len(Tail(s)) = Len(s) - 1 /\ Head(s) = s[1]
    BY <1>5
  <2>2. \A i \in 1..(Len(s) - 1) : Tail(s)[i] = s[i + 1] /\ i + 1 \in 1..Len(s)
    BY <1>5, <2>1
  <2>3. DOMAIN Tail(s) = 1..(Len(s) - 1) /\ DOMAIN s = 1..Len(s)
    BY <1>5, <2>1
  <2>4. QED
    BY <2>1, <2>2, <2>3
<1>6. QED
  BY <1>1, <1>2, <1>3, <1>4, <1>5

\* What was fine stays fine.
LEMMA FineStaysFine ==
    ASSUME TypeOK, Grows
    PROVE  /\ \A c \in Chats : seenBy[c] # {} => seenBy'[c] # {}
           /\ \A c \in Chats : SomebodySeen(c) => SomebodySeen(c)'
           /\ \A c \in Chats, S \in SUBSET Messages : OwnMessages(c, S) => OwnMessages(c, S)'
           /\ \A o \in Operations : OperationFine(o) => OperationFine(o)'
           /\ \A k \in Closures : ClosureFine(k) => ClosureFine(k)'
<1>1. \A c \in Chats : seenBy[c] # {} => seenBy'[c] # {}
  BY DEF Grows
<1>2. ASSUME NEW c \in Chats, SomebodySeen(c) PROVE SomebodySeen(c)'
  BY <1>2 DEF Grows, SomebodySeen
<1>3. ASSUME NEW c \in Chats, NEW path, OwnPath(c, path) PROVE OwnPath(c, path)'
  BY <1>3 DEF OwnPath, Grows
<1>4. ASSUME NEW c \in Chats, NEW S \in SUBSET Messages, OwnMessages(c, S)
      PROVE  OwnMessages(c, S)'
  <2>1. ASSUME NEW m \in S
        PROVE  /\ m \notin unused' /\ <<message'[m].path, m>> \in given'[c]
               /\ \E u \in seenBy'[c] : message'[m].path = Between(u, partner'[c])
    <3>1. m \in Messages \ unused
      BY <1>4 DEF OwnMessages
    <3>2. PICK u \in seenBy[c] : message[m].path = Between(u, partner[c])
      BY <1>4 DEF OwnMessages, OwnPath
    <3>3. m \notin unused' /\ message'[m] = message[m]
      BY <3>1 DEF Grows
    <3>4. u \in seenBy'[c] /\ partner'[c] = partner[c]
      BY <3>2 DEF Grows
    <3>5. <<message[m].path, m>> \in given[c] /\ given[c] \subseteq given'[c]
      BY <1>4 DEF OwnMessages, Grows
    <3>6. QED
      BY <3>2, <3>3, <3>4, <3>5
  <2>2. QED
    BY <2>1 DEF OwnMessages, OwnPath
<1>5. ASSUME NEW o \in Operations, OperationFine(o) PROVE OperationFine(o)'
  <2>1. o.op \in {"observe", "fetch"} => o.chat \in Chats
    BY DEF Operations
  <2>2. o.op = "observe" => SomebodySeen(o.chat)'
    <3>1. SUFFICES ASSUME o.op = "observe" PROVE SomebodySeen(o.chat)'
      OBVIOUS
    <3>2. PICK c : c = o.chat
      OBVIOUS
    <3>3. SomebodySeen(c)'
      BY <1>2, <1>5, <2>1, <3>1, <3>2 DEF OperationFine
    <3>4. QED
      BY <3>2, <3>3 DEF SomebodySeen
  <2>3. QED
    BY <1>3, <1>5, <2>1, <2>2 DEF OperationFine, Grows, SomebodySeen
<1>6. ASSUME NEW k \in Closures, ClosureFine(k) PROVE ClosureFine(k)'
  <2>1. k.chat \in Chats /\ k.snap \in SUBSET Messages
    BY DEF Closures
  <2>2. QED
    BY <1>1, <1>4, <1>6, <2>1 DEF ClosureFine
<1>7. QED
  BY <1>1, <1>2, <1>4, <1>5, <1>6

\* Identifiers in use are those of the data, the queue and the screens.
LEMMA NextGrows == TypeOK /\ SessionInv /\ [Next]_vars => Grows
<1> SUFFICES ASSUME TypeOK, SessionInv, [Next]_vars PROVE Grows
  OBVIOUS
<1>1. UNCHANGED <<partner, seenBy, unused, message, given>> => Grows
  BY DEF Grows
<1>2. ASSUME NEW u \in Users \cup {Nobody}, AccountChanges(u) PROVE Grows
  BY <1>2 DEF AccountChanges, Grows, TypeOK, dbVars, clientVars
<1>3. ASSUME NEW c \in Chats, NEW p \in Partners, OpenChat(c, p) PROVE Grows
  <2>1. partner[c] = Nobody
    <3>1. c \in c..MaxChats
      BY ChatsAssumption DEF Chats
    <3>2. QED
      BY <1>3, <3>1 DEF OpenChat
  <2>2. seenBy[c] = {}
    BY <2>1 DEF SessionInv, HistoryKept
  <2>3. unused' = unused /\ message' = message /\ given' = given
    BY <1>3 DEF OpenChat, dbVars, clientVars
  <2>4. \A d \in Chats \ {c} : seenBy'[d] = seenBy[d] /\ partner'[d] = partner[d]
    BY <1>3 DEF OpenChat, TypeOK
  <2>5. QED
    BY <2>2, <2>3, <2>4 DEF Grows
<1>4. ASSUME NEW m \in Messages, Send(m) \/ SendQuery(m) PROVE Grows
  <2>1. UNCHANGED <<partner, seenBy>>
    BY <1>4 DEF Send, SendQuery, screenVars
  <2>2. m \in unused /\ unused' = unused \ {m} /\ given' = given
    BY <1>4 DEF Send, SendQuery, Compose
  <2>3. \A n \in Messages \ {m} : message'[n] = message[n]
    BY <1>4 DEF Send, SendQuery, Compose, TypeOK
  <2>4. QED
    BY <2>1, <2>2, <2>3 DEF Grows
<1>5. CASE DbWrite
  <2>1. UNCHANGED <<partner, seenBy, message, given>>
    BY <1>5 DEF DbWrite, screenVars
  <2>2. unused' \subseteq unused
    BY <1>5 DEF DbWrite, Write, clientVars
  <2>3. QED
    BY <2>1, <2>2 DEF Grows
<1>6. ASSUME NEW S \in SUBSET Messages, ServerChanges(S) PROVE Grows
  <2>1. UNCHANGED <<partner, seenBy, given>> /\ unused' \subseteq unused
    BY <1>6 DEF ServerChanges, screenVars, Update
  <2>2. PICK fresh : fresh = S \cap unused
    OBVIOUS
  <2>3. WrittenElsewhere(fresh)
    BY <1>6, <2>2 DEF ServerChanges
  <2>4. \A m \in Messages \ fresh : message'[m] = message[m]
    BY <2>3 DEF WrittenElsewhere
  <2>5. QED
    BY <2>1, <2>2, <2>4 DEF Grows
<1>7. CASE WriteAnswered
  BY <1>1, <1>7 DEF WriteAnswered, Answered, screenVars
<1>8. CASE CloseChat \/ Delete \/ SupportOpens \/ SupportStep \/ FirstData \/ UNCHANGED vars
  BY <1>1, <1>8 DEF CloseChat, Delete, SupportOpens, SupportStep, FirstData, vars, screenVars,
     dbVars, clientVars
<1>9. CASE MainStep
  BY <1>1, <1>9 DEF MainStep, RunEvent, RunGetAll, RunFetched, RunSent, screenVars, dbVars,
     clientVars
<1>10. CASE DbObserve \/ DbFetch
  <2>1. CASE DbObserve
    BY <1>1, <2>1 DEF DbObserve, screenVars, clientVars
  <2>2. CASE DbFetch
    <3>1. UNCHANGED <<partner, seenBy, unused, message>>
      BY <2>2 DEF DbFetch, Answer, screenVars, clientVars
    <3>2. \A c \in Chats : given[c] \subseteq given'[c]
      BY <2>2 DEF DbFetch, Answer, TypeOK
    <3>3. QED
      BY <3>1, <3>2 DEF Grows
  <2>3. QED
    BY <1>10, <2>1, <2>2
<1>11. ASSUME NEW m \in Messages, LongPress(m) PROVE Grows
  BY <1>1, <1>11 DEF LongPress, dbVars, clientVars
<1>12. ASSUME NEW t \in Texts, Type(t) PROVE Grows
  BY <1>1, <1>12 DEF Type, dbVars, clientVars
<1>13. QED
  BY <1>2, <1>3, <1>4, <1>5, <1>6, <1>7, <1>8, <1>9, <1>10, <1>11, <1>12
  DEF Next, DbStep

\* A write of this phone, and the answer to one, change no identifier's use.
LEMMA NextKeepsNoReuse == TypeOK /\ SessionInv /\ [Next]_vars => NoReuse'
<1> SUFFICES ASSUME TypeOK, SessionInv, [Next]_vars PROVE NoReuse'
  OBVIOUS
<1>1. unused' \subseteq unused
  BY NextGrows DEF Grows
<1>2. NoReuse
  BY DEF SessionInv
<1>3. UNCHANGED <<server, puts>> => NoReuse'
  BY <1>1, <1>2 DEF NoReuse
<1>4. ASSUME NEW m \in Messages, LongPress(m) PROVE NoReuse'
  BY <1>3, <1>4 DEF LongPress, dbVars, clientVars
<1>5. CASE DbWrite
  <2>1. CASE UNCHANGED clientVars
    BY <1>3, <2>1 DEF clientVars
  <2>2. CASE Write([op |-> Head(dbQueue).op, id |-> Head(dbQueue).id])
    <3>1. dbQueue # <<>> /\ dbQueue \in Seq(Operations)
      BY <1>5 DEF DbWrite, FirstOperation, TypeOK
    <3>2. Head(dbQueue) \in Range(dbQueue)
      BY <3>1, RangeOfSequences
    <3>3. Head(dbQueue).id \notin unused
      BY <1>5, <3>2 DEF DbWrite, FirstOperation, SessionInv, OperationFine
    <3>4. PICK w : w = [op |-> Head(dbQueue).op, id |-> Head(dbQueue).id]
      OBVIOUS
    <3>5. w \in Writes /\ w.id \notin unused
      BY <1>5, <3>1, <3>3, <3>4, HeadTypes DEF DbWrite, FirstOperation, Operations, Writes
    <3>6. puts' = Append(puts, w) /\ server' = server /\ puts \in Seq(Writes)
      BY <2>2, <3>4 DEF Write, TypeOK, ClientTypeOK
    <3>7. \A i \in 1..Len(puts') : puts'[i].id \notin unused
      BY <1>2, <3>5, <3>6 DEF NoReuse
    <3>8. QED
      BY <1>1, <1>2, <3>6, <3>7 DEF NoReuse
  <2>3. QED
    BY <1>5, <2>1, <2>2 DEF DbWrite
<1>6. CASE WriteAnswered
  <2>1. /\ puts' = SubSeq(puts, 2, Len(puts)) /\ puts \in Seq(Writes) /\ puts # <<>>
        /\ server' = server
    BY <1>6 DEF WriteAnswered, Answered, TypeOK, ClientTypeOK
  <2>2. \A i \in 1..Len(puts') : puts'[i] = puts[i + 1] /\ i + 1 \in 1..Len(puts)
    BY <2>1
  <2>3. QED
    BY <1>1, <1>2, <2>1, <2>2 DEF NoReuse
<1>7. ASSUME NEW S \in SUBSET Messages, ServerChanges(S) PROVE NoReuse'
  <2>1. server' = S /\ unused' = unused \ S /\ puts' = puts
    BY <1>7 DEF ServerChanges, Update
  <2>2. QED
    BY <1>2, <2>1 DEF NoReuse
<1>8. ASSUME NEW m \in Messages, Send(m) \/ SendQuery(m) PROVE NoReuse'
  BY <1>3, <1>8 DEF Send, SendQuery, Compose
<1>9. CASE MainStep \/ DbObserve \/ DbFetch
  BY <1>3, <1>9 DEF MainStep, RunEvent, RunGetAll, RunFetched, RunSent, DbObserve, DbFetch, Answer,
     dbVars, clientVars
<1>10. CASE CloseChat \/ Delete \/ SupportOpens \/ SupportStep \/ FirstData \/ UNCHANGED vars
  BY <1>3, <1>10 DEF CloseChat, Delete, SupportOpens, SupportStep, FirstData, vars, screenVars,
     dbVars, clientVars
<1>11. ASSUME NEW u \in Users \cup {Nobody}, AccountChanges(u) PROVE NoReuse'
  BY <1>3, <1>11 DEF AccountChanges, dbVars, clientVars
<1>12. ASSUME NEW c \in Chats, NEW p \in Partners, OpenChat(c, p) PROVE NoReuse'
  BY <1>3, <1>12 DEF OpenChat, dbVars, clientVars
<1>13. ASSUME NEW t \in Texts, Type(t) PROVE NoReuse'
  BY <1>3, <1>13 DEF Type, dbVars, clientVars
<1>14. QED
  BY <1>4, <1>5, <1>6, <1>7, <1>8, <1>9, <1>10, <1>11, <1>12, <1>13 DEF Next, DbStep

\* A screen that is opened, or outlives a change, has seen the present account.
LEMMA NextKeepsHistory == TypeOK /\ SessionInv /\ [Next]_vars => HistoryKept'
<1> SUFFICES ASSUME TypeOK, SessionInv, [Next]_vars PROVE HistoryKept'
  OBVIOUS
<1>1. UNCHANGED <<partner, seenBy, currentUser>> => HistoryKept'
  BY DEF SessionInv, HistoryKept
<1>2. ASSUME NEW u \in Users \cup {Nobody}, AccountChanges(u) PROVE HistoryKept'
  BY <1>2 DEF AccountChanges, SessionInv, HistoryKept, TypeOK
<1>3. ASSUME NEW c \in Chats, NEW p \in Partners, OpenChat(c, p) PROVE HistoryKept'
  <2>1. partner'[c] # Nobody /\ seenBy'[c] = {currentUser'}
    BY <1>3, PartnersAssumption DEF OpenChat, TypeOK
  <2>2. \A d \in Chats \ {c} : seenBy'[d] = seenBy[d] /\ partner'[d] = partner[d]
    BY <1>3 DEF OpenChat, TypeOK
  <2>3. currentUser' = currentUser
    BY <1>3 DEF OpenChat
  <2>4. QED
    BY <2>1, <2>2, <2>3 DEF SessionInv, HistoryKept
<1>4. QED
  BY <1>1, <1>2, <1>3
  DEF Next, CloseChat, Type, Send, LongPress, SendQuery, Delete, SupportOpens, SupportStep,
      MainStep, RunEvent, RunGetAll, RunFetched, RunSent, DbStep, DbObserve, DbFetch, Answer,
      DbWrite, FirstData, WriteAnswered, ServerChanges, vars, screenVars

\* What enters the database's queue.
LEMMA NewOperations ==
    ASSUME TypeOK, SessionInv, [Next]_vars, NEW o \in Range(dbQueue'), o \notin Range(dbQueue)
    PROVE  OperationFine(o)'
<1>1. dbQueue \in Seq(Operations) /\ dbQueue' # dbQueue
  BY DEF TypeOK
<1>2. dbQueue # <<>> => dbQueue' # Tail(dbQueue)
  BY <1>1, RangeOfSequences
<1>3. ASSUME NEW x \in Operations, dbQueue' = Append(dbQueue, x) PROVE o = x
  BY <1>1, <1>3, RangeOfSequences
<1>4. ASSUME NEW c \in Chats, NEW p \in Partners, OpenChat(c, p) PROVE OperationFine(o)'
  <2>1. PICK x : x = Operation("observe", c, NoPath, NoMessage)
    OBVIOUS
  <2>2. o = x
    <3>1. dbQueue' = Append(dbQueue, x)
      BY <1>1, <1>4, <2>1 DEF OpenChat
    <3>2. x \in Operations
      BY <2>1, OperationTypes DEF Paths
    <3>3. QED
      BY <1>3, <3>1, <3>2
  <2>3. seenBy'[c] = {currentUser} /\ currentUser # Nobody
    BY <1>1, <1>4 DEF OpenChat, TypeOK
  <2>4. QED
    BY <2>1, <2>2, <2>3 DEF OperationFine, Operation, SomebodySeen
<1>5. ASSUME NEW m \in Messages, Send(m) \/ SendQuery(m) PROVE OperationFine(o)'
  <2>1. PICK p, t, c : Compose(m, p, t, c)
    BY <1>5 DEF Send, SendQuery
  <2>2. \A i \in 1..Len(dbQueue') :
           (i \in 1..Len(dbQueue) /\ dbQueue'[i] = dbQueue[i])
              \/ dbQueue'[i] = Operation("put", c, p, m)
    BY <1>1, <2>1 DEF Compose
  <2>3. dbQueue' = Append(dbQueue, Operation("put", c, p, m))
    BY <2>1 DEF Compose
  <2>4. Range(dbQueue) = {dbQueue[i] : i \in 1..Len(dbQueue)}
    BY <1>1, RangeOfSequences
  <2>5. DOMAIN dbQueue' = 1..Len(dbQueue')
    BY <1>1, <2>3
  <2>6. o = Operation("put", c, p, m)
    BY <2>2, <2>4, <2>5 DEF Range
  <2>7. m \notin unused'
    BY <2>1 DEF Compose
  <2>8. QED
    BY <2>6, <2>7 DEF OperationFine, Operation
<1>6. CASE Delete
  <2>1. /\ open \in Chats /\ PathOf(open) \in Paths /\ unused' = unused
        /\ deletedMessageIds[open] \in Seq(Messages)
    BY <1>6, PathTypes DEF Delete, TypeOK, PathOf, People, dbVars, clientVars
  <2>2. PICK r : r = [i \in 1..Len(deletedMessageIds[open]) |->
                        Operation("remove", open, PathOf(open), deletedMessageIds[open][i])]
    OBVIOUS
  <2>3. r \in Seq(Operations) /\ dbQueue' = dbQueue \o r
    BY <1>6, <2>1, <2>2, OperationTypes DEF Delete
  <2>4. o \in Range(r)
    BY <1>1, <2>3, RangeOfSequences
  <2>5. PICK i \in 1..Len(deletedMessageIds[open]) :
           o = Operation("remove", open, PathOf(open), deletedMessageIds[open][i])
    BY <2>2, <2>4 DEF Range
  <2>6. deletedMessageIds[open][i] \notin unused'
    <3>1. deletedMessageIds[open][i] \in Range(deletedMessageIds[open])
      BY <2>1, RangeOfSequences
    <3>2. QED
      BY <2>1, <3>1 DEF SessionInv, OwnMessages
  <2>7. QED
    BY <2>5, <2>6 DEF OperationFine, Operation
<1>7. CASE RunGetAll
  <2>1. /\ mainQueue # <<>> /\ mainQueue \in Seq(Closures) /\ Head(mainQueue).kind = "getAll"
        /\ UNCHANGED <<partner, seenBy>>
    BY <1>7 DEF RunGetAll, First, TypeOK, screenVars
  <2>2. PICK c : c = Head(mainQueue).chat
    OBVIOUS
  <2>3. c \in Chats /\ Head(mainQueue) \in Range(mainQueue)
    BY <2>1, <2>2, RangeOfSequences, HeadTypes
  <2>4. seenBy[c] # {}
    BY <2>1, <2>2, <2>3 DEF SessionInv, ClosureFine
  <2>5. currentUser \in seenBy[c]
    BY <2>3, <2>4 DEF SessionInv, HistoryKept
  <2>6. Operation("fetch", c, PathOf(c), NoMessage) \in Operations
    BY <2>3, OperationTypes, PathTypes DEF PathOf, People, TypeOK
  <2>7. o = Operation("fetch", c, PathOf(c), NoMessage)
    BY <1>1, <1>3, <1>7, <2>2, <2>6 DEF RunGetAll
  <2>8. QED
    BY <2>1, <2>5, <2>7 DEF OperationFine, Operation, OwnPath, PathOf
<1>8. QED
  BY <1>1, <1>2, <1>4, <1>5, <1>6, <1>7
  DEF Next, AccountChanges, CloseChat, Type, LongPress, SupportOpens, SupportStep, MainStep,
      RunEvent, RunFetched, RunSent, DbStep, DbObserve, DbFetch, Answer, DbWrite, FirstOperation,
      FirstData, WriteAnswered, ServerChanges, vars, dbVars

\* Events go to screens that are there.
LEMMA EventsAreFine ==
    ASSUME TypeOK, SessionInv, UNCHANGED <<listeners, seenBy>>
    PROVE  \A k \in Range(Events) \cup Range(EventsIfChanged) : ClosureFine(k)'
<1>1. \A i \in 1..Len(listeners) : ClosureFine(Closure("event", listeners[i], {}))'
  <2>1. Range(listeners) = {listeners[i] : i \in 1..Len(listeners)}
    BY RangeOfSequences DEF TypeOK
  <2>2. \A i \in 1..Len(listeners) : seenBy'[listeners[i]] # {}
    BY <2>1 DEF SessionInv, SomebodySeen
  <2>3. QED
    BY <2>2 DEF ClosureFine, Closure, OwnMessages
<1>2. \A k \in Range(Events) : ClosureFine(k)'
  <2>1. ASSUME NEW k \in Range(Events) PROVE ClosureFine(k)'
    <3>1. PICK i \in 1..Len(listeners) : k = Closure("event", listeners[i], {})
      BY DEF Range, Events
    <3>2. QED
      BY <1>1, <3>1
  <2>2. QED
    BY <2>1
<1>3. Range(<<>>) = {}
  BY DEF Range
<1>4. QED
  BY <1>2, <1>3 DEF EventsIfChanged

\* What enters the main queue.
LEMMA NewClosures ==
    ASSUME TypeOK, SessionInv, [Next]_vars, NEW k \in Range(mainQueue'), k \notin Range(mainQueue)
    PROVE  ClosureFine(k)'
<1>1. mainQueue \in Seq(Closures) /\ mainQueue' # mainQueue
  BY DEF TypeOK
<1>2. mainQueue # <<>> => mainQueue' # Tail(mainQueue)
  BY <1>1, RangeOfSequences
<1>3. Events \in Seq(Closures) /\ EventsIfChanged \in Seq(Closures)
  BY EventTypes DEF TypeOK
<1>4. /\ Range(mainQueue \o Events) = Range(mainQueue) \cup Range(Events)
      /\ Range(mainQueue \o EventsIfChanged) = Range(mainQueue) \cup Range(EventsIfChanged)
  <2>1. PICK e, f : e = Events /\ f = EventsIfChanged
    OBVIOUS
  <2>2. /\ Range(mainQueue \o e) = Range(mainQueue) \cup Range(e)
        /\ Range(mainQueue \o f) = Range(mainQueue) \cup Range(f)
    BY <1>1, <1>3, <2>1, RangeOfSequences
  <2>3. QED
    BY <2>1, <2>2
<1>5. CASE RunEvent
  <2>1. /\ mainQueue # <<>> /\ Head(mainQueue).kind = "event" /\ seenBy' = seenBy
    BY <1>5 DEF RunEvent, First
  <2>2. PICK c : c = Head(mainQueue).chat
    OBVIOUS
  <2>3. c \in Chats /\ Head(mainQueue) \in Range(mainQueue) /\ Tail(mainQueue) \in Seq(Closures)
    BY <1>1, <2>1, <2>2, RangeOfSequences, HeadTypes
  <2>4. seenBy[c] # {}
    BY <2>1, <2>2, <2>3 DEF SessionInv, ClosureFine
  <2>5. Closure("getAll", c, {}) \in Closures
    BY <2>3, ClosureTypes
  <2>6. mainQueue' = Append(Tail(mainQueue), Closure("getAll", c, {}))
    BY <1>5, <2>2 DEF RunEvent
  <2>7. k \in Range(Tail(mainQueue)) \cup {Closure("getAll", c, {})}
    <3>1. PICK x, t : x = Closure("getAll", c, {}) /\ t = Tail(mainQueue)
      OBVIOUS
    <3>2. x \in Closures /\ t \in Seq(Closures)
      BY <2>3, <2>5, <3>1
    <3>3. Range(Append(t, x)) = Range(t) \cup {x}
      BY <3>2, RangeOfSequences
    <3>4. QED
      BY <2>6, <3>1, <3>3
  <2>8. k = Closure("getAll", c, {})
    BY <1>1, <2>1, <2>7, RangeOfSequences
  <2>9. QED
    BY <2>1, <2>4, <2>8 DEF ClosureFine, Closure, OwnMessages
<1>6. CASE DbObserve
  <2>1. /\ dbQueue # <<>> /\ Head(dbQueue).op = "observe" /\ seenBy' = seenBy
        /\ dbQueue \in Seq(Operations)
    BY <1>6 DEF DbObserve, FirstOperation, TypeOK, screenVars
  <2>2. PICK c : c = Head(dbQueue).chat
    OBVIOUS
  <2>3. c \in Chats /\ Head(dbQueue) \in Range(dbQueue)
    BY <2>1, <2>2, RangeOfSequences, HeadTypes DEF Operations
  <2>4. seenBy[c] # {}
    BY <2>1, <2>2, <2>3 DEF SessionInv, OperationFine, SomebodySeen
  <2>5. Closure("event", c, {}) \in Closures
    BY <2>3, ClosureTypes
  <2>6. mainQueue' = Append(mainQueue, Closure("event", c, {}))
    BY <1>1, <1>6, <2>2 DEF DbObserve
  <2>7. k = Closure("event", c, {})
    BY <1>1, <2>5, <2>6, RangeOfSequences
  <2>8. QED
    BY <2>1, <2>4, <2>7 DEF ClosureFine, Closure, OwnMessages
<1>7. CASE DbFetch
  <2>1. /\ dbQueue # <<>> /\ Head(dbQueue).op = "fetch" /\ dbQueue \in Seq(Operations)
        /\ UNCHANGED <<seenBy, partner, message, unused>>
    BY <1>7 DEF DbFetch, Answer, FirstOperation, TypeOK, screenVars, clientVars
  <2>2. PICK c, path : c = Head(dbQueue).chat /\ path = Head(dbQueue).path
    OBVIOUS
  <2>3. PICK S : S = {m \in View : message[m].path = path}
    OBVIOUS
  <2>4. c \in Chats /\ Head(dbQueue) \in Range(dbQueue) /\ S \subseteq Messages
    BY <2>1, <2>2, <2>3, RangeOfSequences, HeadTypes, ViewOfMessages DEF Operations
  <2>5. OwnPath(c, path)'
    BY <2>1, <2>2, <2>4 DEF SessionInv, OperationFine, OwnPath
  <2>6. \A m \in View : m \notin unused'
    BY <2>1 DEF View, LastWrite, SessionInv, NoReuse
  <2>7. given'[c] = given[c] \cup ({path} \X S)
    BY <1>7, <2>2, <2>3, <2>4 DEF DbFetch, Answer, TypeOK
  <2>8. OwnMessages(c, S)'
    <3>1. ASSUME NEW m \in S
          PROVE  /\ m \notin unused' /\ message'[m].path = path
                 /\ <<message'[m].path, m>> \in given'[c]
      BY <2>1, <2>3, <2>6, <2>7
    <3>2. QED
      BY <2>5, <3>1 DEF OwnMessages, OwnPath
  <2>9. Closure("fetched", c, S) \in Closures
    BY <2>4, ClosureTypes
  <2>10. mainQueue' = Append(mainQueue, Closure("fetched", c, S))
    BY <1>7, <2>2, <2>3 DEF DbFetch, Answer
  <2>11. k = Closure("fetched", c, S)
    BY <1>1, <2>9, <2>10, RangeOfSequences
  <2>12. QED
    BY <2>8, <2>11 DEF ClosureFine, Closure, OwnMessages
<1>8. CASE DbWrite \/ (\E S \in SUBSET Messages : ServerChanges(S)) \/ FirstData
  <2>1. UNCHANGED <<listeners, seenBy>>
    BY <1>8 DEF DbWrite, ServerChanges, FirstData, screenVars
  <2>2. mainQueue' = mainQueue \o EventsIfChanged \/ mainQueue' = mainQueue \o Events
    BY <1>8 DEF DbWrite, ServerChanges, FirstData
  <2>3. k \in Range(Events) \cup Range(EventsIfChanged)
    BY <1>4, <2>2
  <2>4. QED
    BY <2>1, <2>3, EventsAreFine
<1>9. CASE WriteAnswered
  <2>1. UNCHANGED <<listeners, seenBy>>
    BY <1>9 DEF WriteAnswered, screenVars
  <2>2. PICK c : c = message[Head(puts).id].chat
    OBVIOUS
  <2>3. PICK completion : completion = IF Head(puts).op = "put" /\ c # NoChat
                                       THEN <<Closure("sent", c, {})>> ELSE <<>>
    OBVIOUS
  <2>4. mainQueue' = mainQueue \o EventsIfChanged \o completion
    BY <1>9, <2>2, <2>3 DEF WriteAnswered
  <2>5. c \in Chats \cup {NoChat}
    <3>1. puts \in Seq(Writes) /\ puts # <<>>
      BY <1>9 DEF WriteAnswered, TypeOK, ClientTypeOK
    <3>2. Head(puts) \in Writes
      BY <3>1
    <3>3. QED
      BY <2>2, <3>2 DEF Writes, TypeOK, Contents, NotWritten
  <2>6. completion \in Seq(Closures)
    BY <2>3, <2>5, ClosureTypes
  <2>7. PICK q : q = mainQueue \o EventsIfChanged
    OBVIOUS
  <2>8. k \in Range(EventsIfChanged) \/ k \in Range(completion)
    <3>1. q \in Seq(Closures) /\ Range(q) = Range(mainQueue) \cup Range(EventsIfChanged)
      BY <1>1, <1>3, <1>4, <2>7
    <3>2. Range(q \o completion) = Range(q) \cup Range(completion)
      BY <2>6, <3>1, RangeOfSequences
    <3>3. QED
      BY <2>4, <2>7, <3>1, <3>2
  <2>9. CASE k \in Range(EventsIfChanged)
    BY <2>1, <2>9, EventsAreFine
  <2>10. CASE k \in Range(completion)
    <3>1. k = Closure("sent", c, {})
      BY <2>3, <2>10 DEF Range
    <3>2. QED
      BY <3>1 DEF ClosureFine, Closure, OwnMessages
  <2>11. QED
    BY <2>8, <2>9, <2>10
<1>10. QED
  BY <1>1, <1>2, <1>5, <1>6, <1>7, <1>8, <1>9
  DEF Next, AccountChanges, OpenChat, CloseChat, Type, Send, LongPress, SendQuery, Delete,
      SupportOpens, SupportStep, MainStep, RunGetAll, RunFetched, RunSent, First, DbStep, vars

\* A list is emptied, or takes what an answer of its own brought.
LEMMA NextKeepsLists ==
    ASSUME TypeOK, SessionInv, [Next]_vars
    PROVE  \A c \in Chats : OwnMessages(c, listed[c])' \/ listed'[c] = listed[c]
<1>1. CASE RunEvent
  BY <1>1 DEF RunEvent, TypeOK, OwnMessages
<1>2. CASE RunFetched
  <2>1. /\ mainQueue # <<>> /\ mainQueue \in Seq(Closures)
        /\ UNCHANGED <<partner, seenBy, unused, message, given>>
    BY <1>2 DEF RunFetched, First, TypeOK, dbVars, clientVars
  <2>2. PICK d, S : d = Head(mainQueue).chat /\ S = Head(mainQueue).snap
    OBVIOUS
  <2>3. d \in Chats /\ Head(mainQueue) \in Range(mainQueue)
    BY <2>1, <2>2, RangeOfSequences, HeadTypes
  <2>4. OwnMessages(d, S) /\ OwnMessages(d, listed[d])
    BY <2>2, <2>3 DEF SessionInv, ClosureFine
  <2>5. /\ listed'[d] = listed[d] \cup S
        /\ \A c \in Chats \ {d} : listed'[c] = listed[c]
    BY <1>2, <2>2, <2>3 DEF RunFetched, TypeOK
  <2>6. OwnMessages(d, listed[d])'
    BY <2>1, <2>4, <2>5 DEF OwnMessages, OwnPath
  <2>7. QED
    BY <2>5, <2>6
<1>3. QED
  BY <1>1, <1>2
  DEF Next, AccountChanges, OpenChat, CloseChat, Type, Send, LongPress, SendQuery, Delete,
      SupportOpens, SupportStep, MainStep, RunGetAll, RunSent, DbStep, DbObserve, DbFetch, Answer,
      DbWrite, FirstData, WriteAnswered, ServerChanges, vars, screenVars

\* What is recorded for deletion was in a list.
LEMMA NextKeepsPresses ==
    ASSUME TypeOK, SessionInv, [Next]_vars
    PROVE  \A c \in Chats : \/ OwnMessages(c, Range(deletedMessageIds[c]))'
                           \/ deletedMessageIds'[c] = deletedMessageIds[c]
<1>1. ASSUME NEW m \in Messages, LongPress(m), NEW c \in Chats,
             deletedMessageIds'[c] # deletedMessageIds[c]
      PROVE  OwnMessages(c, Range(deletedMessageIds[c]))'
  <2>1. c = open /\ deletedMessageIds'[c] = Append(deletedMessageIds[c], m)
    BY <1>1 DEF LongPress, TypeOK
  <2>2. UNCHANGED <<partner, seenBy, unused, message, given>>
    BY <1>1 DEF LongPress, dbVars, clientVars
  <2>3. deletedMessageIds[c] \in Seq(Messages) /\ m \in listed[c]
    BY <1>1, <2>1 DEF LongPress, TypeOK
  <2>4. Range(deletedMessageIds'[c]) = Range(deletedMessageIds[c]) \cup {m}
    BY <2>1, <2>3, RangeOfSequences
  <2>5. OwnMessages(c, listed[c]) /\ OwnMessages(c, Range(deletedMessageIds[c]))
    BY DEF SessionInv
  <2>6. QED
    BY <2>2, <2>3, <2>4, <2>5 DEF OwnMessages, OwnPath
<1>2. CASE UNCHANGED deletedMessageIds
  BY <1>2
<1>3. QED
  BY <1>1, <1>2
  DEF Next, AccountChanges, OpenChat, CloseChat, Type, Send, SendQuery, Delete, SupportOpens,
      SupportStep, MainStep, RunEvent, RunFetched, RunGetAll, RunSent, DbStep, DbObserve, DbFetch,
      Answer, DbWrite, FirstData, WriteAnswered, ServerChanges, vars, screenVars

\* An observer is registered by an operation of its screen.
LEMMA NextKeepsListeners ==
    ASSUME TypeOK, SessionInv, [Next]_vars
    PROVE  \A c \in Range(listeners') : c \in Range(listeners) \/ SomebodySeen(c)'
<1>1. CASE DbObserve
  <2>1. /\ dbQueue # <<>> /\ dbQueue \in Seq(Operations) /\ Head(dbQueue).op = "observe"
        /\ seenBy' = seenBy /\ listeners \in Seq(Chats)
    BY <1>1 DEF DbObserve, FirstOperation, TypeOK, screenVars
  <2>2. PICK d : d = Head(dbQueue).chat
    OBVIOUS
  <2>3. d \in Chats /\ Head(dbQueue) \in Range(dbQueue)
    BY <2>1, <2>2, RangeOfSequences, HeadTypes DEF Operations
  <2>4. SomebodySeen(d)
    BY <2>1, <2>2, <2>3 DEF SessionInv, OperationFine
  <2>5. Range(Append(listeners, d)) = Range(listeners) \cup {d}
    BY <2>1, <2>3, RangeOfSequences
  <2>6. QED
    BY <1>1, <2>1, <2>2, <2>4, <2>5 DEF DbObserve, SomebodySeen
<1>2. CASE UNCHANGED listeners
  BY <1>2
<1>3. QED
  BY <1>1, <1>2
  DEF Next, AccountChanges, OpenChat, CloseChat, Type, Send, LongPress, SendQuery, Compose,
      Delete, SupportOpens, SupportStep, MainStep, RunEvent, RunFetched, RunGetAll, RunSent,
      DbStep, DbFetch, Answer, DbWrite, FirstData, WriteAnswered, ServerChanges, vars, dbVars

LEMMA InitialSession == Init => SessionInv
<1> SUFFICES ASSUME Init PROVE SessionInv
  OBVIOUS
<1>1. HistoryKept
  BY DEF Init, HistoryKept
<1>2. NoReuse
  BY DEF Init, ClientInit, NoReuse
<1>3. Range(listeners) = {} /\ Range(dbQueue) = {} /\ Range(mainQueue) = {}
  BY DEF Init, Range
<1>4. \A c \in Chats : OwnMessages(c, listed[c]) /\ OwnMessages(c, Range(deletedMessageIds[c]))
  BY DEF Init, OwnMessages, Range
<1>5. QED
  BY <1>1, <1>2, <1>3, <1>4 DEF SessionInv

LEMMA NextKeepsSession == TypeOK /\ SessionInv /\ [Next]_vars => SessionInv'
<1> SUFFICES ASSUME TypeOK, SessionInv, [Next]_vars PROVE SessionInv'
  OBVIOUS
<1>1. Grows /\ HistoryKept' /\ NoReuse'
  BY NextGrows, NextKeepsHistory, NextKeepsNoReuse
<1>2. /\ Range(listeners) \subseteq Chats /\ Range(dbQueue) \subseteq Operations
      /\ Range(mainQueue) \subseteq Closures
  BY RangeOfSequences DEF TypeOK
<1>3. \A o \in Range(dbQueue') : OperationFine(o)'
  <2>1. \A o \in Range(dbQueue) : OperationFine(o)'
    BY <1>1, <1>2, FineStaysFine DEF SessionInv
  <2>2. QED
    BY <2>1, NewOperations
<1>4. \A k \in Range(mainQueue') : ClosureFine(k)'
  <2>1. \A k \in Range(mainQueue) : ClosureFine(k)'
    BY <1>1, <1>2, FineStaysFine DEF SessionInv
  <2>2. QED
    BY <2>1, NewClosures
<1>5. \A c \in Range(listeners') : SomebodySeen(c)'
  BY <1>1, <1>2, FineStaysFine, NextKeepsListeners DEF SessionInv
<1>6. \A c \in Chats : OwnMessages(c, listed[c])'
  <2>1. ASSUME NEW c \in Chats, listed'[c] = listed[c] PROVE OwnMessages(c, listed[c])'
    <3>1. PICK S : S = listed[c]
      OBVIOUS
    <3>2. S \in SUBSET Messages /\ OwnMessages(c, S)
      BY <3>1 DEF TypeOK, SessionInv
    <3>3. OwnMessages(c, S)'
      BY <1>1, <3>2, FineStaysFine
    <3>4. QED
      BY <2>1, <3>1, <3>3 DEF OwnMessages
  <2>2. QED
    BY <2>1, NextKeepsLists
<1>7. \A c \in Chats : OwnMessages(c, Range(deletedMessageIds[c]))'
  <2>1. ASSUME NEW c \in Chats, deletedMessageIds'[c] = deletedMessageIds[c]
        PROVE  OwnMessages(c, Range(deletedMessageIds[c]))'
    <3>1. PICK S : S = Range(deletedMessageIds[c])
      OBVIOUS
    <3>2. S \in SUBSET Messages /\ OwnMessages(c, S)
      <4>1. deletedMessageIds[c] \in Seq(Messages)
        BY DEF TypeOK
      <4>2. QED
        BY <3>1, <4>1, RangeOfSequences DEF SessionInv
    <3>3. OwnMessages(c, S)'
      BY <1>1, <3>2, FineStaysFine
    <3>4. QED
      BY <2>1, <3>1, <3>3 DEF OwnMessages
  <2>2. QED
    BY <2>1, NextKeepsPresses
<1>8. QED
  BY <1>1, <1>3, <1>4, <1>5, <1>6, <1>7 DEF SessionInv

(***************************************************************************)
(* However the account changes between an event, its request and its       *)
(* answer, every screen lists only messages of its partner with somebody   *)
(* who was signed in while the screen was there.                           *)
(***************************************************************************)
THEOREM ListsAreOwn == Spec => []ListsOwnConversations
<1>1. SessionInv => ListsOwnConversations
  BY DEF SessionInv, OwnMessages, OwnPath, ListsOwnConversations
<1>2. QED
  BY <1>1, InitialSession, NextKeepsSession, TypeCorrect, PTL DEF Spec

(***************************************************************************)
(* However many refreshes, deletions and changes of account lie between,   *)
(* what a screen has recorded was in an answer to a request of its own:    *)
(* nobody deletes a message that the screen on top was not given when it   *)
(* asked for the conversation of the user who is signed in now.            *)
(***************************************************************************)
THEOREM DeletedWereGiven == Spec => DeletesWhatWasGiven
<1> DEFINE Removals ==
             \A i \in (Len(dbQueue) + 1)..Len(dbQueue') :
                (dbQueue'[i].op = "remove" /\ dbQueue'[i].path = message[dbQueue'[i].id].path) =>
                    <<PathOf(open), dbQueue'[i].id>> \in given[open]
<1>1. TypeOK /\ SessionInv /\ [Next]_vars => [Removals]_vars
  <2> SUFFICES ASSUME TypeOK, SessionInv, Next PROVE Removals
    OBVIOUS
  <2>1. dbQueue \in Seq(Operations) /\ Len(dbQueue) \in Nat
    BY DEF TypeOK
  <2>2. dbQueue' = dbQueue => Removals
    BY <2>1
  <2>3. dbQueue # <<>> /\ dbQueue' = Tail(dbQueue) => Removals
    <3>1. dbQueue # <<>> => Len(Tail(dbQueue)) = Len(dbQueue) - 1
      BY <2>1
    <3>2. QED
      BY <2>1, <3>1
  <2>4. ASSUME NEW x, x.op # "remove", dbQueue' = Append(dbQueue, x) PROVE Removals
    <3>1. Len(dbQueue') = Len(dbQueue) + 1 /\ dbQueue'[Len(dbQueue) + 1] = x
      BY <2>1, <2>4
    <3>2. \A i \in (Len(dbQueue) + 1)..Len(dbQueue') : i = Len(dbQueue) + 1
      BY <2>1, <3>1
    <3>3. QED
      BY <2>4, <3>1, <3>2
  <2>5. ASSUME NEW c \in Chats, NEW p \in Partners, OpenChat(c, p) PROVE Removals
    <3>1. Operation("observe", c, NoPath, NoMessage).op # "remove"
      BY DEF Operation
    <3>2. QED
      BY <2>2, <2>4, <2>5, <3>1 DEF OpenChat
  <2>6. CASE RunGetAll
    <3>1. PICK c : c = Head(mainQueue).chat
      OBVIOUS
    <3>2. Operation("fetch", c, PathOf(c), NoMessage).op # "remove"
      BY DEF Operation
    <3>3. QED
      BY <2>2, <2>4, <2>6, <3>1, <3>2 DEF RunGetAll
  <2>7. ASSUME NEW m \in Messages, Send(m) \/ SendQuery(m) PROVE Removals
    <3>1. PICK p, t, c : Compose(m, p, t, c)
      BY <2>7 DEF Send, SendQuery
    <3>2. Operation("put", c, p, m).op # "remove"
      BY DEF Operation
    <3>3. QED
      BY <2>4, <3>1, <3>2 DEF Compose
  <2>8. CASE Delete
    <3>1. open \in Chats /\ deletedMessageIds[open] \in Seq(Messages)
      BY <2>8 DEF Delete, TypeOK
    <3>2. PICK r : r = [i \in 1..Len(deletedMessageIds[open]) |->
                          Operation("remove", open, PathOf(open), deletedMessageIds[open][i])]
      OBVIOUS
    <3>3. dbQueue' = dbQueue \o r
      BY <2>8, <3>2 DEF Delete
    <3>4. Len(r) = Len(deletedMessageIds[open]) /\ Len(deletedMessageIds[open]) \in Nat
      BY <3>1, <3>2
    <3>5. \A j \in 1..Len(r) : /\ r[j].id = deletedMessageIds[open][j]
                               /\ r[j].path = PathOf(open)
      BY <3>2, <3>4 DEF Operation
    <3>6. \A j \in 1..Len(r) : <<message[r[j].id].path, r[j].id>> \in given[open]
      <4>1. OwnMessages(open, Range(deletedMessageIds[open]))
        BY <3>1 DEF SessionInv
      <4>2. \A j \in 1..Len(r) : r[j].id \in Range(deletedMessageIds[open])
        BY <3>1, <3>4, <3>5, RangeOfSequences
      <4>3. QED
        BY <4>1, <4>2 DEF OwnMessages
    <3>7. ASSUME NEW i \in (Len(dbQueue) + 1)..Len(dbQueue')
          PROVE  \E j \in 1..Len(r) : dbQueue'[i] = r[j]
      <4>1. r \in Seq(Range(r))
        BY <3>2, <3>4 DEF Range
      <4>2. Len(dbQueue') = Len(dbQueue) + Len(r)
        BY <2>1, <3>3, <4>1
      <4>3. i - Len(dbQueue) \in 1..Len(r)
        BY <2>1, <3>4, <4>2
      <4>4. dbQueue'[i] = r[i - Len(dbQueue)]
        BY <2>1, <3>3, <4>1, <4>3
      <4>5. QED
        BY <4>3, <4>4
    <3>8. QED
      BY <3>5, <3>6, <3>7
  <2>9. QED
    BY <2>2, <2>3, <2>5, <2>6, <2>7, <2>8
    DEF Next, AccountChanges, CloseChat, Type, LongPress, SupportOpens, SupportStep, MainStep,
        RunEvent, RunFetched, RunSent, DbStep, DbObserve, DbFetch, Answer, DbWrite, FirstOperation,
        FirstData, WriteAnswered, ServerChanges, dbVars
<1>2. QED
  BY <1>1, TypeCorrect, InitialSession, NextKeepsSession, PTL DEF Spec, DeletesWhatWasGiven

----------------------------------------------------------------------------
(* Which answer clears which text field. *)

\* A message is put once: in the queue, or sent, and never again.
PutOnce ==
    /\ \A i, j \in 1..Len(dbQueue) :
          (dbQueue[i].op = "put" /\ dbQueue[j].op = "put" /\ dbQueue[i].id = dbQueue[j].id) => i = j
    /\ \A i, j \in 1..Len(puts) : (puts[i].op = "put" /\ puts[i] = puts[j]) => i = j
    /\ \A i \in 1..Len(puts), j \in 1..Len(dbQueue) :
          (puts[i].op = "put" /\ dbQueue[j].op = "put") => puts[i].id # dbQueue[j].id

AnsweredOn(c) == \E m \in Messages \ unused : message[m].chat = c /\ ~Unanswered(m)

\* A completion that waits is that of a message which has been answered.
SentIsAnswered == \A k \in Range(mainQueue) : k.kind = "sent" => AnsweredOn(k.chat)

AnswersInv == PutOnce /\ SentIsAnswered

\* What a step does to the queue of the database and to the unanswered writes.
Taken == dbQueue # <<>> /\ dbQueue' = Tail(dbQueue) /\ puts' = puts

Asked ==
    \E r \in Seq(Operations) :
        /\ \A i \in 1..Len(r) : r[i].op # "put"
        /\ dbQueue' = dbQueue \o r
        /\ puts' = puts

Composed ==
    \E o \in Operations :
        /\ o.op = "put" /\ o.id \in unused
        /\ dbQueue' = Append(dbQueue, o)
        /\ puts' = puts

Written ==
    /\ dbQueue # <<>> /\ dbQueue' = Tail(dbQueue)
    /\ puts' = Append(puts, [op |-> Head(dbQueue).op, id |-> Head(dbQueue).id])

AnswerTaken == puts # <<>> /\ puts' = SubSeq(puts, 2, Len(puts)) /\ dbQueue' = dbQueue

LEMMA OneOperation ==
    ASSUME NEW o \in Operations, o.op # "put", TypeOK, dbQueue' = Append(dbQueue, o), puts' = puts
    PROVE  Asked
<1>1. <<o>> \in Seq(Operations) /\ dbQueue' = dbQueue \o <<o>>
  BY DEF TypeOK
<1>2. \A i \in 1..Len(<<o>>) : <<o>>[i].op # "put"
  OBVIOUS
<1>3. QED
  BY <1>1, <1>2 DEF Asked

LEMMA QueueSteps ==
    ASSUME TypeOK, [Next]_vars
    PROVE  UNCHANGED <<dbQueue, puts>> \/ Taken \/ Asked \/ Composed \/ Written \/ AnswerTaken
<1>1. \A c \in Chats : PathOf(c) \in Paths
  BY PathTypes DEF PathOf, People, TypeOK
<1>2. ASSUME NEW c \in Chats, NEW p \in Partners, OpenChat(c, p)
      PROVE  UNCHANGED <<dbQueue, puts>> \/ Asked
  <2>1. PICK o : o = Operation("observe", c, NoPath, NoMessage)
    OBVIOUS
  <2>2. o \in Operations /\ o.op # "put"
    <3>1. o \in Operations
      BY <2>1, OperationTypes DEF Paths
    <3>2. QED
      BY <2>1, <3>1 DEF Operation
  <2>3. puts' = puts /\ (dbQueue' = dbQueue \/ dbQueue' = Append(dbQueue, o))
    BY <1>2, <2>1 DEF OpenChat, dbVars, clientVars
  <2>4. QED
    BY <2>2, <2>3, OneOperation
<1>3. CASE RunGetAll
  <2>1. PICK o : o = Operation("fetch", Head(mainQueue).chat, PathOf(Head(mainQueue).chat), NoMessage)
    OBVIOUS
  <2>2. Head(mainQueue).chat \in Chats
    BY <1>3, HeadTypes DEF RunGetAll, First, TypeOK
  <2>3. o \in Operations /\ o.op # "put"
    BY <1>1, <2>1, <2>2, OperationTypes DEF Operation
  <2>4. puts' = puts /\ (dbQueue' = dbQueue \/ dbQueue' = Append(dbQueue, o))
    BY <1>3, <2>1 DEF RunGetAll, dbVars, clientVars
  <2>5. QED
    BY <2>3, <2>4, OneOperation
<1>4. CASE Delete
  <2>1. /\ open \in Chats /\ PathOf(open) \in Paths /\ puts' = puts
        /\ deletedMessageIds[open] \in Seq(Messages)
    BY <1>1, <1>4 DEF Delete, TypeOK, dbVars, clientVars
  <2>2. PICK r : r = [i \in 1..Len(deletedMessageIds[open]) |->
                        Operation("remove", open, PathOf(open), deletedMessageIds[open][i])]
    OBVIOUS
  <2>3. r \in Seq(Operations) /\ dbQueue' = dbQueue \o r
    BY <1>4, <2>1, <2>2, OperationTypes DEF Delete
  <2>4. \A i \in 1..Len(r) : r[i].op # "put"
    BY <2>1, <2>2 DEF Operation
  <2>5. QED
    BY <2>1, <2>3, <2>4 DEF Asked
<1>5. ASSUME NEW m \in Messages, NEW p \in Paths, NEW t, NEW c \in Chats \cup {NoChat},
             Compose(m, p, t, c)
      PROVE  Composed
  <2>1. PICK o : o = Operation("put", c, p, m)
    OBVIOUS
  <2>2. o \in Operations /\ o.op = "put" /\ o.id = m
    BY <2>1, OperationTypes DEF Operation
  <2>3. m \in unused /\ dbQueue' = Append(dbQueue, o) /\ puts' = puts
    BY <1>5, <2>1 DEF Compose
  <2>4. QED
    BY <2>2, <2>3 DEF Composed
<1>6. ASSUME NEW m \in Messages, Send(m) PROVE Composed
  BY <1>1, <1>5, <1>6 DEF Send, TypeOK
<1>7. ASSUME NEW m \in Messages, SendQuery(m) PROVE Composed
  <2>1. Between(supportUser, AdminBot) \in Paths
    BY <1>7, PathTypes DEF SendQuery, CanSendQuery, TypeOK, SupportTypeOK, People
  <2>2. QED
    BY <1>5, <1>7, <2>1 DEF SendQuery
<1>8. CASE DbWrite
  BY <1>8 DEF DbWrite, FirstOperation, Write, clientVars, Taken, Written
<1>9. CASE DbObserve \/ DbFetch
  BY <1>9 DEF DbObserve, DbFetch, Answer, FirstOperation, dbVars, clientVars, Taken
<1>10. CASE WriteAnswered
  BY <1>10 DEF WriteAnswered, Answered, AnswerTaken
<1>11. QED
  BY <1>2, <1>3, <1>4, <1>6, <1>7, <1>8, <1>9, <1>10
  DEF Next, AccountChanges, CloseChat, Type, LongPress, SupportOpens, SupportStep, MainStep,
      RunEvent, RunFetched, RunSent, DbStep, FirstData, ServerChanges, Update, vars, dbVars,
      clientVars

\* What is no longer waited for is never waited for again.
LEMMA AnsweredForGood ==
    ASSUME TypeOK, [Next]_vars, NEW m \in Messages \ unused, ~Unanswered(m)
    PROVE  ~Unanswered(m)'
<1> SUFFICES ASSUME Unanswered(m)' PROVE FALSE
  OBVIOUS
<1>1. dbQueue \in Seq(Operations) /\ Len(dbQueue) \in Nat /\ puts \in Seq(Writes) /\ Len(puts) \in Nat
  BY DEF TypeOK, ClientTypeOK
<1>2. CASE UNCHANGED <<dbQueue, puts>>
  BY <1>2 DEF Unanswered
<1>3. dbQueue # <<>> /\ dbQueue' = Tail(dbQueue) =>
         \A i \in 1..Len(dbQueue') : dbQueue'[i] = dbQueue[i + 1] /\ i + 1 \in 1..Len(dbQueue)
  BY <1>1
<1>4. CASE Taken
  BY <1>3, <1>4 DEF Taken, Unanswered
<1>5. CASE Asked
  <2>1. PICK r \in Seq(Operations) :
           /\ \A i \in 1..Len(r) : r[i].op # "put"
           /\ dbQueue' = dbQueue \o r
           /\ puts' = puts
    BY <1>5 DEF Asked
  <2>2. \A i \in 1..Len(dbQueue') :
           \/ i \in 1..Len(dbQueue) /\ dbQueue'[i] = dbQueue[i]
           \/ i - Len(dbQueue) \in 1..Len(r) /\ dbQueue'[i] = r[i - Len(dbQueue)]
    BY <1>1, <2>1
  <2>3. QED
    BY <2>1, <2>2 DEF Unanswered
<1>6. CASE Composed
  <2>1. PICK o \in Operations : o.id \in unused /\ dbQueue' = Append(dbQueue, o) /\ puts' = puts
    BY <1>6 DEF Composed
  <2>2. \A i \in 1..Len(dbQueue') :
           (i \in 1..Len(dbQueue) /\ dbQueue'[i] = dbQueue[i]) \/ dbQueue'[i] = o
    BY <1>1, <2>1
  <2>3. QED
    BY <2>1, <2>2 DEF Unanswered
<1>7. CASE Written
  <2>1. PICK w : w = [op |-> Head(dbQueue).op, id |-> Head(dbQueue).id]
    OBVIOUS
  <2>2. 1 \in 1..Len(dbQueue) /\ Head(dbQueue) = dbQueue[1]
    BY <1>1, <1>7 DEF Written
  <2>3. w # [op |-> "put", id |-> m]
    BY <2>1, <2>2 DEF Unanswered
  <2>4. puts' = Append(puts, w)
    BY <1>7, <2>1 DEF Written
  <2>5. \A i \in 1..Len(puts') : (i \in 1..Len(puts) /\ puts'[i] = puts[i]) \/ puts'[i] = w
    BY <1>1, <2>4
  <2>6. QED
    BY <1>3, <1>7, <2>3, <2>5 DEF Written, Unanswered
<1>8. CASE AnswerTaken
  <2>1. \A i \in 1..Len(puts') : puts'[i] = puts[i + 1] /\ i + 1 \in 1..Len(puts)
    BY <1>1, <1>8 DEF AnswerTaken
  <2>2. QED
    BY <1>8, <2>1 DEF AnswerTaken, Unanswered
<1>9. QED
  BY <1>2, <1>4, <1>5, <1>6, <1>7, <1>8, QueueSteps

LEMMA NextKeepsPutOnce == TypeOK /\ SessionInv /\ PutOnce /\ [Next]_vars => PutOnce'
<1> SUFFICES ASSUME TypeOK, SessionInv, PutOnce, [Next]_vars PROVE PutOnce'
  OBVIOUS
<1>1. dbQueue \in Seq(Operations) /\ Len(dbQueue) \in Nat /\ puts \in Seq(Writes) /\ Len(puts) \in Nat
  BY DEF TypeOK, ClientTypeOK
<1>2. CASE UNCHANGED <<dbQueue, puts>>
  BY <1>2 DEF PutOnce
<1>3. dbQueue # <<>> /\ dbQueue' = Tail(dbQueue) =>
         \A i \in 1..Len(dbQueue') : /\ dbQueue'[i] = dbQueue[i + 1]
                                     /\ i + 1 \in 1..Len(dbQueue) /\ i + 1 # 1
  BY <1>1
<1>4. ASSUME dbQueue # <<>>, dbQueue' = Tail(dbQueue)
      PROVE  \A i, j \in 1..Len(dbQueue') :
                (dbQueue'[i].op = "put" /\ dbQueue'[j].op = "put"
                   /\ dbQueue'[i].id = dbQueue'[j].id) => i = j
  <2>1. \A i, j \in 1..Len(dbQueue') : i + 1 = j + 1 => i = j
    BY <1>1, <1>4
  <2>2. QED
    BY <1>3, <1>4, <2>1 DEF PutOnce
<1>5. CASE Taken
  BY <1>3, <1>4, <1>5 DEF Taken, PutOnce
<1>6. CASE Asked
  <2>1. PICK r \in Seq(Operations) :
           /\ \A i \in 1..Len(r) : r[i].op # "put"
           /\ dbQueue' = dbQueue \o r
           /\ puts' = puts
    BY <1>6 DEF Asked
  <2>2. \A i \in 1..Len(dbQueue') :
           \/ i \in 1..Len(dbQueue) /\ dbQueue'[i] = dbQueue[i]
           \/ i - Len(dbQueue) \in 1..Len(r) /\ dbQueue'[i] = r[i - Len(dbQueue)]
    BY <1>1, <2>1
  <2>3. \A i \in 1..Len(dbQueue') : dbQueue'[i].op = "put" =>
           i \in 1..Len(dbQueue) /\ dbQueue'[i] = dbQueue[i]
    BY <2>1, <2>2
  <2>4. puts' = puts
    BY <2>1
  <2>5. \A i, j \in 1..Len(dbQueue') :
           (dbQueue'[i].op = "put" /\ dbQueue'[j].op = "put"
              /\ dbQueue'[i].id = dbQueue'[j].id) => i = j
    BY <2>3 DEF PutOnce
  <2>6. \A i \in 1..Len(puts'), j \in 1..Len(dbQueue') :
           (puts'[i].op = "put" /\ dbQueue'[j].op = "put") => puts'[i].id # dbQueue'[j].id
    BY <2>3, <2>4 DEF PutOnce
  <2>7. QED
    BY <2>4, <2>5, <2>6 DEF PutOnce
<1>7. CASE Composed
  <2>1. PICK o \in Operations : o.id \in unused /\ dbQueue' = Append(dbQueue, o) /\ puts' = puts
    BY <1>7 DEF Composed
  <2>2. \A i \in 1..Len(dbQueue') :
           \/ i \in 1..Len(dbQueue) /\ dbQueue'[i] = dbQueue[i]
           \/ i = Len(dbQueue) + 1 /\ dbQueue'[i] = o
    BY <1>1, <2>1
  <2>3. \A i \in 1..Len(dbQueue) : dbQueue[i].op = "put" => dbQueue[i].id # o.id
    <3>1. Range(dbQueue) = {dbQueue[i] : i \in 1..Len(dbQueue)}
      BY <1>1, RangeOfSequences
    <3>2. QED
      BY <2>1, <3>1 DEF SessionInv, OperationFine
  <2>4. \A i \in 1..Len(puts) : puts[i].id # o.id
    BY <2>1 DEF SessionInv, NoReuse
  <2>5. \A i, j \in 1..Len(dbQueue') :
           (dbQueue'[i].op = "put" /\ dbQueue'[j].op = "put"
              /\ dbQueue'[i].id = dbQueue'[j].id) => i = j
    BY <2>2, <2>3 DEF PutOnce
  <2>6. \A i \in 1..Len(puts'), j \in 1..Len(dbQueue') :
           (puts'[i].op = "put" /\ dbQueue'[j].op = "put") => puts'[i].id # dbQueue'[j].id
    BY <2>1, <2>2, <2>4 DEF PutOnce
  <2>7. QED
    BY <2>1, <2>5, <2>6 DEF PutOnce
<1>8. CASE Written
  <2>1. PICK w : w = [op |-> Head(dbQueue).op, id |-> Head(dbQueue).id]
    OBVIOUS
  <2>2. 1 \in 1..Len(dbQueue) /\ dbQueue[1].op = w.op /\ dbQueue[1].id = w.id
    BY <1>1, <1>8, <2>1 DEF Written
  <2>3. puts' = Append(puts, w)
    BY <1>8, <2>1 DEF Written
  <2>4. \A i \in 1..Len(puts') :
           \/ i \in 1..Len(puts) /\ puts'[i] = puts[i]
           \/ i = Len(puts) + 1 /\ puts'[i] = w
    BY <1>1, <2>3
  <2>5. w.op = "put" => \A i \in 1..Len(puts) : puts[i] # w
    BY <2>2 DEF PutOnce
  <2>6. \A j \in 1..Len(dbQueue') :
           (w.op = "put" /\ dbQueue'[j].op = "put") => w.id # dbQueue'[j].id
    BY <1>3, <1>8, <2>2 DEF Written, PutOnce
  <2>7. \A i, j \in 1..Len(puts') : (puts'[i].op = "put" /\ puts'[i] = puts'[j]) => i = j
    BY <2>4, <2>5 DEF PutOnce
  <2>8. \A i \in 1..Len(puts), j \in 1..Len(dbQueue') :
           (puts[i].op = "put" /\ dbQueue'[j].op = "put") => puts[i].id # dbQueue'[j].id
    BY <1>3, <1>8 DEF Written, PutOnce
  <2>9. \A i \in 1..Len(puts'), j \in 1..Len(dbQueue') :
           (puts'[i].op = "put" /\ dbQueue'[j].op = "put") => puts'[i].id # dbQueue'[j].id
    BY <2>4, <2>6, <2>8
  <2>10. QED
    BY <1>4, <1>8, <2>7, <2>9 DEF Written, PutOnce
<1>9. CASE AnswerTaken
  <2>1. \A i \in 1..Len(puts') : puts'[i] = puts[i + 1] /\ i + 1 \in 1..Len(puts)
    BY <1>1, <1>9 DEF AnswerTaken
  <2>2. Len(puts') \in Nat
    BY <1>1, <1>9 DEF AnswerTaken
  <2>3. \A i, j \in 1..Len(puts') : (puts'[i].op = "put" /\ puts'[i] = puts'[j]) => i = j
    BY <2>1, <2>2 DEF PutOnce
  <2>4. \A i \in 1..Len(puts'), j \in 1..Len(dbQueue') :
           (puts'[i].op = "put" /\ dbQueue'[j].op = "put") => puts'[i].id # dbQueue'[j].id
    BY <1>9, <2>1 DEF AnswerTaken, PutOnce
  <2>5. QED
    BY <1>9, <2>3, <2>4 DEF AnswerTaken, PutOnce
<1>10. QED
  BY <1>2, <1>5, <1>6, <1>7, <1>8, <1>9, QueueSteps

\* The completion of a write is queued when the write is taken from those
\* that are waited for.
LEMMA NextKeepsSent == TypeOK /\ SessionInv /\ AnswersInv /\ [Next]_vars => SentIsAnswered'
<1> SUFFICES ASSUME TypeOK, SessionInv, AnswersInv, [Next]_vars,
                    NEW k \in Range(mainQueue'), k.kind = "sent"
             PROVE  AnsweredOn(k.chat)'
  BY DEF SentIsAnswered
<1>1. ASSUME NEW m \in Messages \ unused, ~Unanswered(m) PROVE AnsweredOn(message[m].chat)'
  <2>1. ~Unanswered(m)'
    BY <1>1, AnsweredForGood
  <2>2. m \in Messages \ unused' /\ message'[m] = message[m]
    BY <1>1, NextGrows DEF Grows
  <2>3. QED
    BY <2>1, <2>2 DEF AnsweredOn
<1>2. ASSUME NEW c, AnsweredOn(c) PROVE AnsweredOn(c)'
  <2>1. PICK m \in Messages \ unused : message[m].chat = c /\ ~Unanswered(m)
    BY <1>2 DEF AnsweredOn
  <2>2. ~Unanswered(m)'
    BY <2>1, AnsweredForGood
  <2>3. m \in Messages \ unused' /\ message'[m] = message[m]
    BY <2>1, NextGrows DEF Grows
  <2>4. QED
    BY <2>1, <2>2, <2>3 DEF AnsweredOn
<1>3. CASE k \in Range(mainQueue)
  <2>1. PICK c : c = k.chat
    OBVIOUS
  <2>2. AnsweredOn(c)
    BY <1>3, <2>1 DEF AnswersInv, SentIsAnswered
  <2>3. QED
    BY <1>2, <2>1, <2>2
<1>4. CASE k \notin Range(mainQueue)
  <2>1. mainQueue \in Seq(Closures) /\ Events \in Seq(Closures) /\ EventsIfChanged \in Seq(Closures)
    BY EventTypes DEF TypeOK
  <2>2. \A e \in Range(Events) \cup Range(EventsIfChanged) : e.kind = "event"
    <3>1. \A e \in Range(Events) : e.kind = "event"
      BY DEF Events, Range, Closure
    <3>2. Range(<<>>) = {}
      BY DEF Range
    <3>3. QED
      BY <3>1, <3>2 DEF EventsIfChanged
  <2>3. ASSUME NEW e \in Seq(Closures), mainQueue' = mainQueue \o e PROVE k \in Range(e)
    BY <1>4, <2>1, <2>3, RangeOfSequences
  <2>4. ASSUME NEW x \in Closures, mainQueue' = Append(mainQueue, x) PROVE k = x
    BY <1>4, <2>1, <2>4, RangeOfSequences
  <2>5. mainQueue # <<>> => Range(Tail(mainQueue)) \subseteq Range(mainQueue)
    BY <2>1, RangeOfSequences
  <2>6. CASE WriteAnswered
    <3>1. puts \in Seq(Writes) /\ puts # <<>> /\ 1 \in 1..Len(puts) /\ Len(puts) \in Nat
      BY <2>6 DEF WriteAnswered, TypeOK, ClientTypeOK
    <3>2. PICK w : w = puts[1]
      OBVIOUS
    <3>3. w = Head(puts) /\ w \in Writes /\ w.id \in Messages /\ w.op \in {"put", "remove"}
      <4>1. w = Head(puts) /\ w \in Writes
        BY <3>1, <3>2
      <4>2. QED
        BY <4>1 DEF Writes
    <3>4. PICK c : c = message[w.id].chat
      OBVIOUS
    <3>5. PICK completion : completion = IF w.op = "put" /\ c # NoChat
                                         THEN <<Closure("sent", c, {})>> ELSE <<>>
      OBVIOUS
    <3>6. c \in Chats \cup {NoChat}
      BY <3>3, <3>4 DEF TypeOK, Contents, NotWritten
    <3>7. completion \in Seq(Closures)
      BY <3>5, <3>6, ClosureTypes
    <3>8. mainQueue' = mainQueue \o EventsIfChanged \o completion
      BY <2>6, <3>3, <3>4, <3>5 DEF WriteAnswered
    <3>9. PICK q, e : e = EventsIfChanged /\ q = mainQueue \o e
      OBVIOUS
    <3>10. q \in Seq(Closures) /\ Range(q) = Range(mainQueue) \cup Range(e)
      BY <2>1, <3>9, RangeOfSequences
    <3>11. Range(q \o completion) = Range(q) \cup Range(completion)
      BY <3>7, <3>10, RangeOfSequences
    <3>12. k \in Range(completion)
      BY <1>4, <2>2, <3>8, <3>9, <3>10, <3>11
    <3>13. w.op = "put" /\ k = Closure("sent", c, {})
      BY <3>5, <3>12 DEF Range
    <3>14. w.id \in Messages \ unused
      BY <3>1, <3>2, <3>3 DEF SessionInv, NoReuse
    <3>15. puts' = SubSeq(puts, 2, Len(puts)) /\ dbQueue' = dbQueue /\ message' = message
           /\ unused' = unused
      BY <2>6 DEF WriteAnswered, Answered
    <3>16. \A i \in 1..Len(puts') : puts'[i] = puts[i + 1] /\ i + 1 \in 1..Len(puts) /\ i + 1 # 1
      BY <3>1, <3>15
    <3>17. \A i \in 1..Len(puts') : puts'[i] # w
      BY <3>1, <3>2, <3>13, <3>16 DEF AnswersInv, PutOnce
    <3>18. w = [op |-> "put", id |-> w.id]
      BY <3>3, <3>13 DEF Writes
    <3>19. \A i \in 1..Len(dbQueue) : dbQueue[i].op = "put" => dbQueue[i].id # w.id
      BY <3>1, <3>2, <3>13 DEF AnswersInv, PutOnce
    <3>20. PICK m : m = w.id
      OBVIOUS
    <3>21. ~Unanswered(m)'
      BY <3>15, <3>17, <3>18, <3>19, <3>20 DEF Unanswered
    <3>22. m \in Messages \ unused' /\ message'[m].chat = k.chat
      BY <3>4, <3>13, <3>14, <3>15, <3>20 DEF Closure
    <3>23. QED
      BY <3>21, <3>22 DEF AnsweredOn
  <2>7. CASE RunEvent
    <3>1. PICK x, t : x = Closure("getAll", Head(mainQueue).chat, {}) /\ t = Tail(mainQueue)
      OBVIOUS
    <3>2. x \in Closures /\ t \in Seq(Closures) /\ mainQueue # <<>> /\ x.kind = "getAll"
      <4>1. mainQueue # <<>>
        BY <2>7 DEF RunEvent, First
      <4>2. x \in Closures /\ t \in Seq(Closures)
        BY <2>1, <3>1, <4>1, HeadTypes, ClosureTypes
      <4>3. QED
        BY <3>1, <4>1, <4>2 DEF Closure
    <3>3. Range(Append(t, x)) = Range(t) \cup {x}
      BY <3>2, RangeOfSequences
    <3>4. QED
      BY <1>4, <2>5, <2>7, <3>1, <3>2, <3>3 DEF RunEvent
  <2>8. CASE DbObserve
    <3>1. PICK x : x = Closure("event", Head(dbQueue).chat, {})
      OBVIOUS
    <3>2. x \in Closures /\ x.kind = "event"
      <4>1. Head(dbQueue).chat \in Chats
        BY <2>8, HeadTypes DEF DbObserve, FirstOperation, TypeOK, Operations
      <4>2. x \in Closures
        BY <3>1, <4>1, ClosureTypes
      <4>3. QED
        BY <3>1, <4>2 DEF Closure
    <3>3. mainQueue' = mainQueue \/ mainQueue' = Append(mainQueue, x)
      BY <2>8, <3>1 DEF DbObserve
    <3>4. QED
      BY <1>4, <2>4, <3>2, <3>3
  <2>9. CASE DbFetch
    <3>1. PICK x : x = Closure("fetched", Head(dbQueue).chat,
                               {m \in View : message[m].path = Head(dbQueue).path})
      OBVIOUS
    <3>2. x \in Closures /\ x.kind = "fetched"
      <4>1. Head(dbQueue).chat \in Chats
        BY <2>9, HeadTypes DEF DbFetch, Answer, FirstOperation, TypeOK, Operations
      <4>2. {m \in View : message[m].path = Head(dbQueue).path} \in SUBSET Messages
        BY ViewOfMessages
      <4>3. x \in Closures
        BY <3>1, <4>1, <4>2, ClosureTypes
      <4>4. QED
        BY <3>1, <4>3 DEF Closure
    <3>3. QED
      BY <2>4, <2>9, <3>1, <3>2 DEF DbFetch, Answer
  <2>10. CASE DbWrite \/ (\E S \in SUBSET Messages : ServerChanges(S)) \/ FirstData
    <3>1. mainQueue' = mainQueue \o EventsIfChanged \/ mainQueue' = mainQueue \o Events
      BY <2>10 DEF DbWrite, ServerChanges, FirstData
    <3>2. QED
      BY <2>1, <2>2, <2>3, <3>1
  <2>11. mainQueue' # mainQueue /\ (mainQueue # <<>> => mainQueue' # Tail(mainQueue))
    BY <1>4, <2>5
  <2>12. QED
    BY <2>6, <2>7, <2>8, <2>9, <2>10, <2>11
    DEF Next, AccountChanges, OpenChat, CloseChat, Type, Send, LongPress, SendQuery, Delete,
        SupportOpens, SupportStep, MainStep, RunGetAll, RunFetched, RunSent, First, DbStep, vars
<1>5. QED
  BY <1>3, <1>4

LEMMA InitialAnswers == Init => AnswersInv
<1> SUFFICES ASSUME Init PROVE AnswersInv
  OBVIOUS
<1>1. Len(dbQueue) = 0 /\ Len(puts) = 0 /\ Range(mainQueue) = {}
  BY DEF Init, ClientInit, Range
<1>2. QED
  BY <1>1 DEF AnswersInv, PutOnce, SentIsAnswered

(***************************************************************************)
(* A message is put at most once, and its completion is queued when its    *)
(* answer arrives: whatever chats are opened, closed and written in        *)
(* meanwhile, a text is cleared only on the screen of an answered message. *)
(***************************************************************************)
THEOREM TextsAreKept == Spec => TextKeptUntilAnswered
<1> DEFINE Kept == \A c \in Chats : (text[c] # NoText /\ text'[c] = NoText) =>
                      \E m \in Messages : message[m].chat = c /\ ~Unanswered(m)
<1>1. TypeOK /\ AnswersInv /\ [Next]_vars => [Kept]_vars
  <2> SUFFICES ASSUME TypeOK, AnswersInv, Next, NEW c \in Chats, text[c] # NoText, text'[c] = NoText
               PROVE  \E m \in Messages : message[m].chat = c /\ ~Unanswered(m)
    OBVIOUS
  <2>1. RunSent
    <3>1. ASSUME NEW t \in Texts, Type(t) PROVE FALSE
      BY <3>1, TextsAssumption DEF Type, TypeOK
    <3>2. QED
      BY <3>1 DEF Next, AccountChanges, OpenChat, CloseChat, Send, LongPress, SendQuery, Delete,
         SupportOpens, SupportStep, MainStep, RunEvent, RunGetAll, RunFetched, DbStep, DbObserve,
         DbFetch, Answer, DbWrite, FirstData, WriteAnswered, ServerChanges, screenVars
  <2>2. /\ mainQueue # <<>> /\ mainQueue \in Seq(Closures)
        /\ Head(mainQueue).kind = "sent" /\ Head(mainQueue).chat = c
    BY <2>1 DEF RunSent, First, TypeOK
  <2>3. Head(mainQueue) \in Range(mainQueue)
    BY <2>2, RangeOfSequences
  <2>4. AnsweredOn(c)
    BY <2>2, <2>3 DEF AnswersInv, SentIsAnswered
  <2>5. QED
    BY <2>4 DEF AnsweredOn
<1>2. TypeOK /\ SessionInv /\ AnswersInv /\ [Next]_vars => AnswersInv'
  BY NextKeepsPutOnce, NextKeepsSent DEF AnswersInv
<1>3. QED
  BY <1>1, <1>2, InitialAnswers, InitialSession, NextKeepsSession, TypeCorrect, PTL
  DEF Spec, TextKeptUntilAnswered

----------------------------------------------------------------------------
(* A settled screen fills with its conversation.  An answer with no event  *)
(* of its screen behind it is the present conversation, the list is empty  *)
(* or the conversation when no event waits, and a refresh is under way     *)
(* unless the list is the conversation.                                    *)

TrueList(c) == {m \in View : message[m].path = PathOf(c)}

EventAt(c, i) == mainQueue[i].kind = "event" /\ mainQueue[i].chat = c
FetchedAt(c, i) == mainQueue[i].kind = "fetched" /\ mainQueue[i].chat = c

NoEventFrom(c, i) == \A j \in i..Len(mainQueue) : ~EventAt(c, j)

AnswersTrue(c) ==
    \A i \in 1..Len(mainQueue) :
        (FetchedAt(c, i) /\ NoEventFrom(c, i + 1)) => mainQueue[i].snap = TrueList(c)

ListTrue(c) == NoEventFrom(c, 1) => listed[c] \in {{}, TrueList(c)}

RefreshOwed(c) == Refreshing(c) \/ listed[c] = TrueList(c)

FillInv(c) == Settled(c) => AnswersTrue(c) /\ ListTrue(c) /\ RefreshOwed(c)

LEMMA RangeOfTail ==
    ASSUME NEW T, NEW s \in Seq(T), s # <<>>
    PROVE  Range(s) = {Head(s)} \cup Range(Tail(s))
<1>1. /\ Len(s) \in Nat /\ Len(s) >= 1 /\ Head(s) = s[1] /\ Len(Tail(s)) = Len(s) - 1
      /\ \A i \in 1..Len(Tail(s)) : Tail(s)[i] = s[i + 1]
      /\ DOMAIN s = 1..Len(s) /\ DOMAIN Tail(s) = 1..Len(Tail(s))
  BY HeadTailProperties
<1>2. ASSUME NEW i \in 1..Len(s), i # 1 PROVE s[i] \in Range(Tail(s))
  <2>1. i - 1 \in 1..Len(Tail(s)) /\ (i - 1) + 1 = i
    BY <1>1, <1>2
  <2>2. Tail(s)[i - 1] = s[i]
    BY <1>1, <2>1
  <2>3. QED
    BY <1>1, <2>1, <2>2 DEF Range
<1>3. Range(s) \subseteq {Head(s)} \cup Range(Tail(s))
  BY <1>1, <1>2 DEF Range
<1>4. QED
  BY <1>3, RangeOfSequences

\* Closures that come on top of those waiting.
LEMMA MoreClosures ==
    ASSUME TypeOK, NEW t \in Seq(Closures), mainQueue' = mainQueue \o t
    PROVE  /\ Len(mainQueue) \in Nat /\ Len(t) \in Nat
           /\ Len(mainQueue') = Len(mainQueue) + Len(t)
           /\ \A i \in 1..Len(mainQueue) : mainQueue'[i] = mainQueue[i]
           /\ \A i \in 1..Len(t) : mainQueue'[Len(mainQueue) + i] = t[i]
           /\ \A i \in 1..Len(mainQueue') :
                 \/ i \in 1..Len(mainQueue)
                 \/ i - Len(mainQueue) \in 1..Len(t) /\ mainQueue'[i] = t[i - Len(mainQueue)]
           /\ Range(mainQueue') = Range(mainQueue) \cup Range(t)
<1>1. PICK q, r : q = mainQueue /\ r = mainQueue'
  OBVIOUS
<1>2. q \in Seq(Closures) /\ r = q \o t
  BY <1>1 DEF TypeOK
<1>3. /\ Len(r) = Len(q) + Len(t) /\ Len(q) \in Nat /\ Len(t) \in Nat
      /\ \A i \in 1..(Len(q) + Len(t)) : r[i] = IF i <= Len(q) THEN q[i] ELSE t[i - Len(q)]
  BY <1>2, ConcatProperties
<1>4. \A i \in 1..Len(q) : r[i] = q[i]
  BY <1>3
<1>5. ASSUME NEW i \in 1..Len(t) PROVE r[Len(q) + i] = t[i]
  <2>1. Len(q) + i \in 1..(Len(q) + Len(t)) /\ ~(Len(q) + i <= Len(q)) /\ (Len(q) + i) - Len(q) = i
    BY <1>3
  <2>2. QED
    BY <1>3, <2>1
<1>6. \A i \in 1..Len(r) : i \in 1..Len(q) \/ (i - Len(q) \in 1..Len(t) /\ r[i] = t[i - Len(q)])
  BY <1>3
<1>7. Range(r) = Range(q) \cup Range(t)
  BY <1>2, RangeOfSequences
<1>8. QED
  BY <1>1, <1>3, <1>4, <1>5, <1>6, <1>7

\* An event is queued behind everything else about the screen.
LEMMA FillRenewed ==
    ASSUME TypeOK, NEW c, NEW t \in Seq(Closures), mainQueue' = mainQueue \o t,
           \A i \in 1..Len(t) : t[i].kind # "fetched",
           NEW j \in 1..Len(t), t[j].kind = "event", t[j].chat = c
    PROVE  FillInv(c)'
<1>1. PICK k : k = Len(mainQueue) + j
  OBVIOUS
<1>2. /\ Len(mainQueue) \in Nat /\ Len(t) \in Nat /\ Len(mainQueue') = Len(mainQueue) + Len(t)
      /\ mainQueue'[k] = t[j]
      /\ \A i \in 1..Len(mainQueue') :
            \/ i \in 1..Len(mainQueue)
            \/ i - Len(mainQueue) \in 1..Len(t) /\ mainQueue'[i] = t[i - Len(mainQueue)]
      /\ Range(mainQueue') = Range(mainQueue) \cup Range(t)
  BY <1>1, MoreClosures
<1>3. k \in 1..Len(mainQueue')
  BY <1>1, <1>2
<1>4. EventAt(c, k)'
  BY <1>2 DEF EventAt
<1>5. ~NoEventFrom(c, 1)'
  BY <1>3, <1>4 DEF NoEventFrom, EventAt
<1>6. ASSUME NEW i \in 1..Len(mainQueue'), FetchedAt(c, i)' PROVE ~NoEventFrom(c, i + 1)'
  <2>1. i \in 1..Len(mainQueue)
    BY <1>2, <1>6 DEF FetchedAt
  <2>2. k \in (i + 1)..Len(mainQueue')
    BY <1>1, <1>2, <2>1
  <2>3. QED
    BY <1>4, <2>2 DEF NoEventFrom, EventAt
<1>7. Refreshing(c)'
  <2>1. t[j] \in Range(t)
    BY RangeOfSequences
  <2>2. QED
    BY <1>2, <2>1 DEF Refreshing
<1>8. AnswersTrue(c)'
  BY <1>6 DEF AnswersTrue, FetchedAt, NoEventFrom, EventAt
<1>9. ListTrue(c)'
  BY <1>5 DEF ListTrue, NoEventFrom, EventAt
<1>10. QED
  BY <1>7, <1>8, <1>9 DEF FillInv, RefreshOwed

\* The conversation is as before, and what is queued brings nothing else.
LEMMA FillKept ==
    ASSUME TypeOK, NEW c, Settled(c), FillInv(c),
           NEW t \in Seq(Closures), mainQueue' = mainQueue \o t,
           \A i \in 1..Len(t) : (t[i].kind = "fetched" /\ t[i].chat = c) => t[i].snap = TrueList(c),
           TrueList(c)' = TrueList(c), listed'[c] = listed[c],
           Refreshing(c) => Refreshing(c)'
    PROVE  FillInv(c)'
<1>1. /\ Len(mainQueue) \in Nat /\ Len(t) \in Nat /\ Len(mainQueue') = Len(mainQueue) + Len(t)
      /\ \A i \in 1..Len(mainQueue) : mainQueue'[i] = mainQueue[i]
      /\ \A i \in 1..Len(mainQueue') :
            \/ i \in 1..Len(mainQueue)
            \/ i - Len(mainQueue) \in 1..Len(t) /\ mainQueue'[i] = t[i - Len(mainQueue)]
  BY MoreClosures
<1>2. ASSUME NEW i \in Nat, NoEventFrom(c, i)' PROVE i >= 1 => NoEventFrom(c, i)
  <2>1. SUFFICES ASSUME i >= 1, NEW j \in i..Len(mainQueue) PROVE ~EventAt(c, j)
    BY DEF NoEventFrom
  <2>2. j \in i..Len(mainQueue') /\ j \in 1..Len(mainQueue)
    BY <1>1, <2>1
  <2>3. QED
    BY <1>1, <1>2, <2>2 DEF NoEventFrom, EventAt
<1>3. ASSUME NEW i \in 1..Len(mainQueue'), FetchedAt(c, i)', NoEventFrom(c, i + 1)'
      PROVE  mainQueue'[i].snap = TrueList(c)
  <2>1. CASE i \in 1..Len(mainQueue)
    <3>1. PICK n : n = i + 1
      OBVIOUS
    <3>2. n \in Nat /\ n >= 1
      BY <3>1
    <3>3. NoEventFrom(c, n)'
      BY <1>3, <3>1 DEF NoEventFrom, EventAt
    <3>4. NoEventFrom(c, i + 1)
      BY <1>2, <3>1, <3>2, <3>3
    <3>5. FetchedAt(c, i) /\ mainQueue'[i] = mainQueue[i]
      BY <1>1, <1>3, <2>1 DEF FetchedAt
    <3>6. QED
      BY <2>1, <3>4, <3>5 DEF FillInv, AnswersTrue
  <2>2. CASE i \notin 1..Len(mainQueue)
    BY <1>1, <1>3, <2>2 DEF FetchedAt
  <2>3. QED
    BY <2>1, <2>2
<1>4. AnswersTrue(c)'
  BY <1>3 DEF AnswersTrue, FetchedAt, NoEventFrom, EventAt
<1>5. ListTrue(c)'
  <2>1. PICK n : n = 1
    OBVIOUS
  <2>2. NoEventFrom(c, n)' => NoEventFrom(c, n)
    BY <1>2, <2>1
  <2>3. QED
    BY <2>1, <2>2 DEF FillInv, ListTrue, NoEventFrom, EventAt
<1>6. RefreshOwed(c)'
  BY DEF FillInv, RefreshOwed
<1>7. QED
  BY <1>4, <1>5, <1>6 DEF FillInv

\* The first closure leaves the queue; at most a request comes in behind.
Advanced ==
    /\ Len(mainQueue) \in Nat /\ Len(mainQueue) >= 1 /\ Len(mainQueue') \in Nat
    /\ \A i \in 1..Len(mainQueue') :
          \/ i + 1 \in 1..Len(mainQueue) /\ mainQueue'[i] = mainQueue[i + 1]
          \/ mainQueue'[i].kind = "getAll"
    /\ \A i \in 2..Len(mainQueue) : i - 1 \in 1..Len(mainQueue') /\ mainQueue'[i - 1] = mainQueue[i]
    /\ Range(mainQueue) \subseteq {mainQueue[1]} \cup Range(mainQueue')

LEMMA MainAdvances ==
    ASSUME TypeOK, MainStep
    PROVE  /\ Advanced /\ Head(mainQueue) = mainQueue[1] /\ mainQueue[1] \in Closures
           /\ mainQueue[1].chat \in Chats
           /\ RunEvent => Closure("getAll", mainQueue[1].chat, {}) \in Range(mainQueue')
<1>1. PICK q, r : q = mainQueue /\ r = mainQueue'
  OBVIOUS
<1>2. q \in Seq(Closures) /\ q # <<>>
  BY <1>1 DEF TypeOK, MainStep, RunEvent, RunGetAll, RunFetched, RunSent, First
<1>3. PICK u : u = Tail(q)
  OBVIOUS
<1>4. PICK x : x = Closure("getAll", Head(q).chat, {})
  OBVIOUS
<1>5. /\ u \in Seq(Closures) /\ Len(u) = Len(q) - 1 /\ Len(q) \in Nat /\ Len(q) >= 1
      /\ Head(q) = q[1] /\ q[1] \in Closures /\ q[1].chat \in Chats
      /\ \A i \in 1..Len(u) : u[i] = q[i + 1]
      /\ Range(q) = {q[1]} \cup Range(u)
  BY <1>2, <1>3, HeadTailProperties, HeadTypes, RangeOfTail
<1>6. x \in Closures /\ x.kind = "getAll"
  BY <1>4, <1>5, ClosureTypes DEF Closure
<1>7. r = u \/ r = Append(u, x)
  BY <1>1, <1>3, <1>4 DEF MainStep, RunEvent, RunGetAll, RunFetched, RunSent
<1>8. /\ Len(Append(u, x)) = Len(u) + 1 /\ Append(u, x)[Len(u) + 1] = x
      /\ \A i \in 1..Len(u) : Append(u, x)[i] = u[i]
      /\ Range(Append(u, x)) = Range(u) \cup {x}
  BY <1>5, <1>6, AppendProperties, RangeOfSequences
<1>9. /\ Len(r) \in Nat
      /\ \A i \in 1..Len(r) : (i + 1 \in 1..Len(q) /\ r[i] = q[i + 1]) \/ r[i].kind = "getAll"
      /\ Range(q) \subseteq {q[1]} \cup Range(r)
  <2>1. CASE r = u
    BY <1>5, <2>1
  <2>2. CASE r = Append(u, x)
    <3>1. \A i \in 1..Len(r) : i \in 1..Len(u) \/ i = Len(u) + 1
      BY <1>5, <1>8, <2>2
    <3>2. \A i \in 1..Len(u) : i + 1 \in 1..Len(q) /\ r[i] = q[i + 1]
      BY <1>5, <1>8, <2>2
    <3>3. QED
      BY <1>5, <1>6, <1>8, <2>2, <3>1, <3>2
  <2>3. QED
    BY <1>7, <2>1, <2>2
<1>10. ASSUME NEW i \in 2..Len(q) PROVE i - 1 \in 1..Len(r) /\ r[i - 1] = q[i]
  <2>1. i - 1 \in 1..Len(u) /\ (i - 1) + 1 = i
    BY <1>5
  <2>2. u[i - 1] = q[i]
    BY <1>5, <2>1
  <2>3. CASE r = u
    BY <2>1, <2>2, <2>3
  <2>4. CASE r = Append(u, x)
    BY <1>5, <1>8, <2>1, <2>2, <2>4
  <2>5. QED
    BY <1>7, <2>3, <2>4
<1>11. RunEvent => x \in Range(r)
  <2>1. RunEvent => r = Append(u, x)
    BY <1>1, <1>3, <1>4 DEF RunEvent
  <2>2. QED
    BY <1>8, <2>1
<1>12. QED
  BY <1>1, <1>4, <1>5, <1>9, <1>10, <1>11 DEF Advanced

\* The conversation changes only with the account, the data or the writes.
LEMMA TrueListKept ==
    ASSUME TypeOK, SessionInv, Grows, NEW c, currentUser' = currentUser,
           partner'[c] = partner[c], View' = View
    PROVE  TrueList(c)' = TrueList(c)
<1>1. \A m \in View : m \in Messages /\ m \notin unused
  BY DEF View, LastWrite, SessionInv, NoReuse
<1>2. \A m \in View : message'[m] = message[m]
  BY <1>1 DEF Grows
<1>3. QED
  BY <1>2 DEF TrueList, PathOf

\* A screen that is refreshed has somebody signed in.
LEMMA SettledSignedIn ==
    ASSUME SessionInv, NEW c, Settled(c)
    PROVE  currentUser # Nobody
BY DEF SessionInv, SomebodySeen, Settled

LEMMA FillMain ==
    ASSUME TypeOK, TypeOK', SessionInv, Grows, NEW c \in Chats, Settled(c), FillInv(c), MainStep
    PROVE  FillInv(c)'
<1>1. /\ Advanced /\ Head(mainQueue) = mainQueue[1] /\ mainQueue[1].chat \in Chats
      /\ RunEvent => Closure("getAll", mainQueue[1].chat, {}) \in Range(mainQueue')
  BY MainAdvances
<1>2. /\ currentUser' = currentUser /\ partner' = partner
      /\ server' = server /\ puts' = puts
  BY DEF MainStep, RunEvent, RunGetAll, RunFetched, RunSent, screenVars, dbVars, clientVars
<1>3. TrueList(c)' = TrueList(c)
  <2>1. View' = View
    BY <1>2 DEF View, LastWrite
  <2>2. QED
    BY <1>2, <2>1, TrueListKept
<1>4. dbQueue \in Seq(Operations) /\ listed \in [Chats -> SUBSET Messages]
  BY DEF TypeOK
<1>5. Range(dbQueue) \subseteq Range(dbQueue')
  <2>1. CASE dbQueue' = dbQueue
    BY <2>1
  <2>2. CASE RunGetAll /\ dbQueue' # dbQueue
    <3>1. PICK o : o = Operation("fetch", Head(mainQueue).chat, PathOf(Head(mainQueue).chat), NoMessage)
      OBVIOUS
    <3>2. dbQueue' = Append(dbQueue, o)
      BY <2>2, <3>1 DEF RunGetAll
    <3>3. o \in Operations
      BY <1>1, <3>1, OperationTypes, PathTypes DEF PathOf, People, TypeOK
    <3>4. QED
      BY <1>4, <3>2, <3>3, RangeOfSequences
  <2>3. QED
    BY <2>1, <2>2 DEF MainStep, RunEvent, RunGetAll, RunFetched, RunSent, dbVars
<1>6. ASSUME NEW i \in 1..Len(mainQueue'), FetchedAt(c, i)', NoEventFrom(c, i + 1)'
      PROVE  mainQueue'[i].snap = TrueList(c)
  <2>1. i + 1 \in 1..Len(mainQueue) /\ mainQueue'[i] = mainQueue[i + 1]
    BY <1>1, <1>6 DEF Advanced, FetchedAt
  <2>2. FetchedAt(c, i + 1)
    BY <1>6, <2>1 DEF FetchedAt
  <2>3. ASSUME NEW j \in ((i + 1) + 1)..Len(mainQueue) PROVE ~EventAt(c, j)
    <3>1. j \in 2..Len(mainQueue)
      BY <1>1, <2>1 DEF Advanced
    <3>2. mainQueue'[j - 1] = mainQueue[j] /\ j - 1 \in (i + 1)..Len(mainQueue')
      BY <1>1, <2>1, <3>1 DEF Advanced
    <3>3. QED
      BY <1>6, <3>2 DEF NoEventFrom, EventAt
  <2>4. NoEventFrom(c, (i + 1) + 1)
    BY <2>3 DEF NoEventFrom
  <2>5. QED
    BY <2>1, <2>2, <2>4 DEF FillInv, AnswersTrue
<1>7. AnswersTrue(c)'
  BY <1>3, <1>6 DEF AnswersTrue, FetchedAt, NoEventFrom, EventAt
<1>8. ASSUME NoEventFrom(c, 1)' PROVE NoEventFrom(c, 2) /\ (EventAt(c, 1) \/ NoEventFrom(c, 1))
  <2>1. ASSUME NEW j \in 2..Len(mainQueue) PROVE ~EventAt(c, j)
    <3>1. mainQueue'[j - 1] = mainQueue[j] /\ j - 1 \in 1..Len(mainQueue')
      BY <1>1 DEF Advanced
    <3>2. QED
      BY <1>8, <3>1 DEF NoEventFrom, EventAt
  <2>2. \A j \in 1..Len(mainQueue) : j = 1 \/ j \in 2..Len(mainQueue)
    BY <1>1 DEF Advanced
  <2>3. QED
    BY <2>1, <2>2 DEF NoEventFrom
<1>9. ASSUME mainQueue[1].chat # c \/ RunSent PROVE FillInv(c)'
  <2>1. listed'[c] = listed[c]
    BY <1>1, <1>4, <1>9 DEF MainStep, RunEvent, RunGetAll, RunFetched, RunSent, screenVars, First
  <2>2. ~EventAt(c, 1)
    BY <1>1, <1>9 DEF EventAt, RunSent, First
  <2>3. ListTrue(c)'
    BY <1>3, <1>8, <2>1, <2>2 DEF FillInv, ListTrue, NoEventFrom, EventAt
  <2>4. Refreshing(c) => Refreshing(c)'
    <3>1. mainQueue[1].chat # c \/ mainQueue[1].kind \notin {"event", "getAll", "fetched"}
      BY <1>1, <1>9 DEF RunSent, First
    <3>2. QED
      BY <1>1, <1>5, <3>1 DEF Refreshing, Advanced
  <2>5. RefreshOwed(c)'
    BY <1>3, <2>1, <2>4 DEF FillInv, RefreshOwed
  <2>6. QED
    BY <1>7, <2>3, <2>5 DEF FillInv
<1>10. CASE mainQueue[1].chat = c /\ RunEvent
  <2>1. listed'[c] = {}
    BY <1>1, <1>4, <1>10 DEF RunEvent
  <2>2. Closure("getAll", c, {}) \in Range(mainQueue')
    BY <1>1, <1>10
  <2>3. Refreshing(c)'
    BY <2>2 DEF Refreshing, Closure
  <2>4. QED
    BY <1>7, <2>1, <2>3 DEF FillInv, ListTrue, RefreshOwed
<1>11. CASE mainQueue[1].chat = c /\ RunGetAll
  <2>1. listed' = listed /\ ~EventAt(c, 1)
    BY <1>1, <1>11 DEF RunGetAll, screenVars, EventAt, First
  <2>2. PICK o : o = Operation("fetch", c, PathOf(c), NoMessage)
    OBVIOUS
  <2>3. dbQueue' = Append(dbQueue, o) /\ o \in Operations
    <3>1. currentUser # Nobody
      BY SettledSignedIn
    <3>2. PathOf(c) \in Paths
      BY PathTypes DEF PathOf, People, TypeOK
    <3>3. QED
      BY <1>1, <1>11, <2>2, <3>1, <3>2, OperationTypes DEF RunGetAll
  <2>4. o \in Range(dbQueue')
    BY <1>4, <2>3, RangeOfSequences
  <2>5. Refreshing(c)'
    BY <2>2, <2>4 DEF Refreshing, Operation
  <2>6. ListTrue(c)'
    BY <1>3, <1>8, <2>1 DEF FillInv, ListTrue, NoEventFrom, EventAt
  <2>7. QED
    BY <1>7, <2>5, <2>6 DEF FillInv, RefreshOwed
<1>12. CASE mainQueue[1].chat = c /\ RunFetched
  <2>1. /\ listed'[c] = listed[c] \cup mainQueue[1].snap /\ ~EventAt(c, 1) /\ FetchedAt(c, 1)
        /\ 1 \in 1..Len(mainQueue)
    BY <1>1, <1>4, <1>12 DEF RunFetched, EventAt, FetchedAt, First, Advanced
  <2>2. ASSUME NoEventFrom(c, 1)' PROVE listed'[c] = TrueList(c)
    <3>1. NoEventFrom(c, 1) /\ NoEventFrom(c, 1 + 1)
      BY <1>8, <2>1, <2>2
    <3>2. mainQueue[1].snap = TrueList(c)
      BY <2>1, <3>1 DEF FillInv, AnswersTrue
    <3>3. listed[c] \in {{}, TrueList(c)}
      BY <3>1 DEF FillInv, ListTrue
    <3>4. QED
      BY <2>1, <3>2, <3>3
  <2>3. ListTrue(c)'
    BY <1>3, <2>2 DEF ListTrue, NoEventFrom, EventAt
  <2>4. ~NoEventFrom(c, 1)' => Refreshing(c)'
    <3>1. SUFFICES ASSUME NEW j \in 1..Len(mainQueue'), EventAt(c, j)' PROVE Refreshing(c)'
      BY DEF NoEventFrom, EventAt
    <3>2. mainQueue'[j] \in Range(mainQueue')
      BY RangeOfSequences DEF TypeOK
    <3>3. QED
      BY <3>1, <3>2 DEF Refreshing, EventAt
  <2>5. RefreshOwed(c)'
    BY <1>3, <2>2, <2>4 DEF RefreshOwed
  <2>6. QED
    BY <1>7, <2>3, <2>5 DEF FillInv
<1>13. QED
  BY <1>9, <1>10, <1>11, <1>12 DEF MainStep

\* What a step leaves alone when it settles no screen and ends no account.
LEMMA SettledBefore ==
    ASSUME TypeOK, SessionInv, Next, ~DbObserve, ~FirstData, NEW c \in Chats, Settled(c)'
    PROVE  Settled(c) /\ currentUser' = currentUser /\ partner'[c] = partner[c]
<1>1. ASSUME NEW u \in Users \cup {Nobody}, AccountChanges(u) PROVE FALSE
  <2>1. CASE partner[c] = Nobody
    <3>1. seenBy'[c] = {}
      BY <1>1, <2>1 DEF AccountChanges, TypeOK, SessionInv, HistoryKept
    <3>2. QED
      BY <3>1 DEF Settled
  <2>2. CASE partner[c] # Nobody
    <3>1. seenBy'[c] = seenBy[c] \cup {u} /\ currentUser \in seenBy[c] /\ currentUser' = u
          /\ u # currentUser
      BY <1>1, <2>2 DEF AccountChanges, TypeOK, SessionInv, HistoryKept
    <3>2. QED
      BY <3>1 DEF Settled
  <2>3. QED
    BY <2>1, <2>2
<1>2. ASSUME NEW d \in Chats, NEW p \in Partners, OpenChat(d, p)
      PROVE  Settled(c) /\ currentUser' = currentUser /\ partner'[c] = partner[c]
  <2>1. loaded' = loaded /\ listeners' = listeners /\ currentUser' = currentUser
    BY <1>2 DEF OpenChat, dbVars
  <2>2. SomebodySeen(c)
    BY <2>1 DEF Settled, SessionInv
  <2>3. partner[c] # Nobody
    BY <2>2 DEF SomebodySeen, SessionInv, HistoryKept
  <2>4. c # d
    <3>1. d \in d..MaxChats
      BY ChatsAssumption DEF Chats
    <3>2. QED
      BY <1>2, <2>3, <3>1 DEF OpenChat
  <2>5. seenBy'[c] = seenBy[c] /\ partner'[c] = partner[c]
    BY <1>2, <2>4 DEF OpenChat, TypeOK
  <2>6. QED
    BY <2>1, <2>5 DEF Settled
<1>3. CASE UNCHANGED <<loaded, listeners, seenBy, currentUser, partner>>
  BY <1>3 DEF Settled
<1>4. CASE WriteAnswered \/ \E S \in SUBSET Messages : ServerChanges(S)
  BY <1>3, <1>4 DEF WriteAnswered, ServerChanges, screenVars
<1>5. CASE MainStep \/ DbFetch \/ DbWrite
  BY <1>3, <1>5 DEF MainStep, RunEvent, RunGetAll, RunFetched, RunSent, DbFetch, Answer, DbWrite,
     screenVars, dbVars
<1>6. CASE CloseChat \/ Delete \/ SupportOpens \/ SupportStep
  BY <1>3, <1>6 DEF CloseChat, Delete, SupportOpens, SupportStep, screenVars, dbVars
<1>7. ASSUME NEW m \in Messages, Send(m) \/ LongPress(m) \/ SendQuery(m)
      PROVE  UNCHANGED <<loaded, listeners, seenBy, currentUser, partner>>
  BY <1>7 DEF Send, LongPress, SendQuery, Compose, screenVars, dbVars
<1>8. ASSUME NEW t \in Texts, Type(t)
      PROVE  UNCHANGED <<loaded, listeners, seenBy, currentUser, partner>>
  BY <1>8 DEF Type, dbVars
<1>9. QED
  BY <1>1, <1>2, <1>3, <1>4, <1>5, <1>6, <1>7, <1>8 DEF Next, DbStep

\* The requests of c's refreshes stay, or one of them is answered.
RequestsKept(c) ==
    \A o \in Range(dbQueue) : (o.chat = c /\ o.op = "fetch") => o \in Range(dbQueue')

LEMMA RefreshingKept ==
    ASSUME NEW c, RequestsKept(c), Range(mainQueue) \subseteq Range(mainQueue')
    PROVE  Refreshing(c) => Refreshing(c)'
BY DEF Refreshing, RequestsKept

\* The first operation leaves the queue.
LEMMA OperationTaken ==
    ASSUME TypeOK, NEW c, dbQueue # <<>>, dbQueue' = Tail(dbQueue),
           Head(dbQueue).op # "fetch" \/ Head(dbQueue).chat # c
    PROVE  RequestsKept(c)
<1>1. Range(dbQueue) = {Head(dbQueue)} \cup Range(Tail(dbQueue))
  <2>1. PICK q : q = dbQueue
    OBVIOUS
  <2>2. q \in Seq(Operations) /\ q # <<>>
    BY <2>1 DEF TypeOK
  <2>3. QED
    BY <2>1, <2>2, RangeOfTail
<1>2. QED
  BY <1>1 DEF RequestsKept

\* What the events of a change carry, one for every observer.
LEMMA EventsNamed ==
    ASSUME listeners \in Seq(Chats)
    PROVE  /\ Len(Events) = Len(listeners)
           /\ \A i \in 1..Len(Events) : Events[i].kind = "event" /\ Events[i].chat = listeners[i]
<1>1. Len(Events) = Len(listeners)
  BY DEF Events
<1>2. ASSUME NEW i \in 1..Len(Events)
      PROVE  Events[i].kind = "event" /\ Events[i].chat = listeners[i]
  <2>1. PICK d, x : d = listeners[i] /\ x = Events[i]
    OBVIOUS
  <2>2. x = Closure("event", d, {})
    BY <1>1, <2>1 DEF Events
  <2>3. x.kind = "event" /\ x.chat = d
    BY <2>2 DEF Closure
  <2>4. QED
    BY <2>1, <2>3
<1>3. QED
  BY <1>1, <1>2

\* A change of the data or of the writes: every observer has its event before
\* the completion u of a send.
LEMMA FillChanges ==
    ASSUME TypeOK, SessionInv, Grows, NEW c \in Chats, Settled(c), FillInv(c),
           currentUser' = currentUser, partner'[c] = partner[c], listed' = listed,
           NEW u \in Seq(Closures), \A i \in 1..Len(u) : u[i].kind = "sent",
           mainQueue' = mainQueue \o EventsIfChanged \o u, RequestsKept(c)
    PROVE  FillInv(c)'
<1>1. PICK e, t : e = EventsIfChanged /\ t = e \o u
  OBVIOUS
<1>2. e \in Seq(Closures) /\ listeners \in Seq(Chats)
  BY <1>1, EventTypes DEF TypeOK
<1>3. /\ t \in Seq(Closures) /\ Len(e) \in Nat /\ Len(u) \in Nat /\ Len(t) = Len(e) + Len(u)
      /\ \A i \in 1..(Len(e) + Len(u)) : t[i] = IF i <= Len(e) THEN e[i] ELSE u[i - Len(e)]
  BY <1>1, <1>2, ConcatProperties
<1>4. mainQueue' = mainQueue \o t
  <2>1. PICK q : q = mainQueue
    OBVIOUS
  <2>2. q \in Seq(Closures)
    BY <2>1 DEF TypeOK
  <2>3. (q \o e) \o u = q \o (e \o u)
    BY <1>2, <2>2, ConcatAssociative
  <2>4. QED
    BY <1>1, <2>1, <2>3
<1>5. /\ Len(Events) = Len(listeners) /\ Len(listeners) \in Nat
      /\ \A i \in 1..Len(listeners) : Events[i] = Closure("event", listeners[i], {})
  BY <1>2 DEF Events
<1>6. \A i \in 1..Len(e) : e[i].kind = "event"
  <2>1. e = Events \/ e = <<>>
    BY <1>1 DEF EventsIfChanged
  <2>2. \A i \in 1..Len(Events) : Events[i].kind = "event"
    BY <1>2, EventsNamed
  <2>3. QED
    BY <2>1, <2>2
<1>7. \A i \in 1..Len(t) : t[i].kind # "fetched"
  <2>1. ASSUME NEW i \in 1..Len(t) PROVE t[i].kind # "fetched"
    <3>1. CASE i <= Len(e)
      BY <1>3, <1>6, <3>1
    <3>2. CASE ~(i <= Len(e))
      <4>1. i - Len(e) \in 1..Len(u) /\ t[i] = u[i - Len(e)]
        BY <1>3, <3>2
      <4>2. QED
        BY <4>1
    <3>3. QED
      BY <3>1, <3>2
  <2>2. QED
    BY <2>1
<1>8. CASE View' = View
  <2>1. TrueList(c)' = TrueList(c)
    BY <1>8, TrueListKept
  <2>2. Range(mainQueue) \subseteq Range(mainQueue')
    BY <1>3, <1>4, MoreClosures
  <2>3. QED
    BY <1>3, <1>4, <1>7, <2>1, <2>2, RefreshingKept, FillKept
<1>9. CASE View' # View
  <2>1. e = Events
    BY <1>1, <1>9 DEF EventsIfChanged, Settled
  <2>2. PICK j \in 1..Len(listeners) : listeners[j] = c
    BY <1>2, RangeOfSequences DEF Settled
  <2>3. j \in 1..Len(t) /\ t[j] = Closure("event", c, {})
    <3>1. j \in 1..(Len(e) + Len(u)) /\ j <= Len(e)
      BY <1>3, <1>5, <2>1, <2>2
    <3>2. QED
      BY <1>3, <1>5, <2>1, <2>2, <3>1
  <2>4. t[j].kind = "event" /\ t[j].chat = c
    BY <2>3 DEF Closure
  <2>5. QED
    BY <1>3, <1>4, <1>7, <2>3, <2>4, FillRenewed
<1>10. QED
  BY <1>8, <1>9

\* A step that queues no closure.
LEMMA FillQuiet ==
    ASSUME TypeOK, SessionInv, Grows, NEW c \in Chats, Settled(c), FillInv(c),
           currentUser' = currentUser, partner'[c] = partner[c], listed' = listed,
           UNCHANGED <<server, puts, mainQueue>>, RequestsKept(c)
    PROVE  FillInv(c)'
<1>1. PICK t : t = <<>>
  OBVIOUS
<1>2. t \in Seq(Closures) /\ Len(t) = 0
  BY <1>1
<1>3. mainQueue' = mainQueue \o t
  BY <1>1, ConcatEmptySeq DEF TypeOK
<1>4. View' = View
  BY DEF View, LastWrite
<1>5. TrueList(c)' = TrueList(c)
  BY <1>4, TrueListKept
<1>6. Refreshing(c) => Refreshing(c)'
  BY RefreshingKept
<1>7. /\ \A i \in 1..Len(t) : (t[i].kind = "fetched" /\ t[i].chat = c) => t[i].snap = TrueList(c)
      /\ listed'[c] = listed[c]
  BY <1>2
<1>8. QED
  BY <1>2, <1>3, <1>5, <1>6, <1>7, FillKept

\* A screen that observes data which are there gets an event at once.
LEMMA FillObserve ==
    ASSUME TypeOK, SessionInv, Grows, DbObserve, NEW c \in Chats, Settled(c)', FillInv(c)
    PROVE  FillInv(c)'
<1>1. /\ dbQueue # <<>> /\ dbQueue \in Seq(Operations) /\ Head(dbQueue).op = "observe"
      /\ dbQueue' = Tail(dbQueue) /\ loaded' = loaded /\ loaded
      /\ UNCHANGED <<currentUser, partner, seenBy, listed, server, puts>>
  BY DEF DbObserve, FirstOperation, TypeOK, screenVars, clientVars, Settled
<1>2. PICK d, x : d = Head(dbQueue).chat /\ x = Closure("event", d, {})
  OBVIOUS
<1>3. d \in Chats /\ x \in Closures /\ x.kind = "event" /\ x.chat = d
  <2>1. Head(dbQueue) \in Operations
    BY <1>1, HeadTypes
  <2>2. d \in Chats
    BY <1>1, <1>2, <2>1 DEF Operations
  <2>3. QED
    BY <1>2, <2>2, ClosureTypes DEF Closure
<1>4. PICK t : t = <<x>>
  OBVIOUS
<1>5. t \in Seq(Closures) /\ Len(t) = 1 /\ t[1] = x
  BY <1>3, <1>4
<1>6. mainQueue' = mainQueue \o t
  <2>1. mainQueue' = Append(mainQueue, x)
    BY <1>1, <1>2 DEF DbObserve
  <2>2. QED
    BY <1>3, <1>4, <2>1, AppendIsConcat DEF TypeOK
<1>7. CASE d = c
  <2>1. 1 \in 1..Len(t) /\ \A i \in 1..Len(t) : t[i].kind # "fetched"
    BY <1>3, <1>5
  <2>2. QED
    BY <1>3, <1>5, <1>6, <1>7, <2>1, FillRenewed
<1>8. CASE d # c
  <2>1. Settled(c)
    <3>1. listeners \in Seq(Chats) /\ listeners' = Append(listeners, d)
      BY <1>2 DEF DbObserve, TypeOK
    <3>2. Range(listeners') = Range(listeners) \cup {d}
      BY <1>3, <3>1, RangeOfSequences
    <3>3. QED
      BY <1>1, <1>8, <3>2 DEF Settled
  <2>2. View' = View
    BY <1>1 DEF View, LastWrite
  <2>3. TrueList(c)' = TrueList(c)
    BY <1>1, <2>2, TrueListKept
  <2>4. Range(mainQueue) \subseteq Range(mainQueue')
    BY <1>5, <1>6, MoreClosures
  <2>5. RequestsKept(c)
    BY <1>1, OperationTaken
  <2>6. Refreshing(c) => Refreshing(c)'
    BY <2>4, <2>5, RefreshingKept
  <2>7. /\ \A i \in 1..Len(t) : (t[i].kind = "fetched" /\ t[i].chat = c) => t[i].snap = TrueList(c)
        /\ listed'[c] = listed[c]
    BY <1>1, <1>3, <1>5
  <2>8. QED
    BY <1>5, <1>6, <2>1, <2>3, <2>6, <2>7, FillKept
<1>9. QED
  BY <1>7, <1>8

\* The first listen is answered: an event for every observer.
LEMMA FillFirst ==
    ASSUME TypeOK, FirstData, NEW c \in Chats, Settled(c)'
    PROVE  FillInv(c)'
<1>1. listeners \in Seq(Chats) /\ listeners' = listeners
  BY DEF FirstData, TypeOK
<1>2. PICK e : e = Events
  OBVIOUS
<1>3. e \in Seq(Closures) /\ mainQueue' = mainQueue \o e
  BY <1>1, <1>2, EventTypes DEF FirstData
<1>4. /\ Len(e) = Len(listeners)
      /\ \A i \in 1..Len(e) : e[i].kind = "event" /\ e[i].chat = listeners[i]
  BY <1>1, <1>2, EventsNamed
<1>5. PICK j \in 1..Len(listeners) : listeners[j] = c
  BY <1>1, RangeOfSequences DEF Settled
<1>6. j \in 1..Len(e) /\ e[j].kind = "event" /\ e[j].chat = c
  BY <1>4, <1>5
<1>7. \A i \in 1..Len(e) : e[i].kind # "fetched"
  BY <1>4
<1>8. QED
  BY <1>3, <1>6, <1>7, FillRenewed

\* A request is answered with the conversation as the client has it.
LEMMA FillFetch ==
    ASSUME TypeOK, SessionInv, Grows, DbFetch, NEW c \in Chats, Settled(c), FillInv(c)
    PROVE  FillInv(c)'
<1>1. /\ dbQueue # <<>> /\ dbQueue \in Seq(Operations) /\ Head(dbQueue).op = "fetch"
      /\ dbQueue' = Tail(dbQueue)
      /\ UNCHANGED <<currentUser, partner, listed, server, puts>>
  BY DEF DbFetch, Answer, FirstOperation, TypeOK, screenVars, dbVars, clientVars
<1>2. PICK o : o = Head(dbQueue)
  OBVIOUS
<1>3. o \in Operations /\ o.chat \in Chats /\ OperationFine(o)
  <2>1. o \in Operations /\ o \in Range(dbQueue)
    BY <1>1, <1>2, HeadTypes, RangeOfSequences
  <2>2. QED
    BY <1>1, <1>2, <2>1 DEF Operations, SessionInv
<1>4. PICK S : S = {m \in View : message[m].path = o.path}
  OBVIOUS
<1>5. PICK x, t : x = Closure("fetched", o.chat, S) /\ t = <<x>>
  OBVIOUS
<1>6. x \in Closures /\ x.kind = "fetched" /\ x.chat = o.chat /\ x.snap = S
  <2>1. S \in SUBSET Messages
    BY <1>4, ViewOfMessages
  <2>2. QED
    BY <1>3, <1>5, <2>1, ClosureTypes DEF Closure
<1>7. t \in Seq(Closures) /\ Len(t) = 1 /\ t[1] = x
  BY <1>5, <1>6
<1>8. mainQueue' = mainQueue \o t
  <2>1. mainQueue' = Append(mainQueue, x)
    BY <1>2, <1>4, <1>5 DEF DbFetch, Answer
  <2>2. QED
    BY <1>5, <1>6, <2>1, AppendIsConcat DEF TypeOK
<1>9. View' = View
  BY <1>1 DEF View, LastWrite
<1>10. TrueList(c)' = TrueList(c)
  BY <1>1, <1>9, TrueListKept
<1>11. o.chat = c => S = TrueList(c)
  <2>1. SUFFICES ASSUME o.chat = c PROVE o.path = PathOf(c)
    BY <1>4 DEF TrueList
  <2>2. OwnPath(c, o.path)
    BY <1>1, <1>2, <1>3, <2>1 DEF OperationFine
  <2>3. QED
    BY <2>2 DEF OwnPath, Settled, PathOf
<1>12. Range(mainQueue') = Range(mainQueue) \cup Range(t) /\ x \in Range(t)
  BY SMTT(30), <1>7, <1>8, MoreClosures, RangeOfSequences
<1>13. Refreshing(c) => Refreshing(c)'
  <2>1. CASE o.chat = c
    BY <1>6, <1>12, <2>1 DEF Refreshing
  <2>2. CASE o.chat # c
    <3>1. RequestsKept(c)
      BY <1>1, <1>2, <2>2, OperationTaken
    <3>2. QED
      BY <1>12, <3>1, RefreshingKept
  <2>3. QED
    BY <2>1, <2>2
<1>14. /\ \A i \in 1..Len(t) : (t[i].kind = "fetched" /\ t[i].chat = c) => t[i].snap = TrueList(c)
       /\ listed'[c] = listed[c]
  BY <1>1, <1>6, <1>7, <1>11
<1>15. QED
  BY <1>7, <1>8, <1>10, <1>13, <1>14, FillKept

LEMMA FillNext ==
    ASSUME TypeOK, TypeOK', SessionInv, Next, NEW c \in Chats, FillInv(c)
    PROVE  FillInv(c)'
<1>1. Grows
  BY NextGrows
<1>2. SUFFICES ASSUME Settled(c)' PROVE FillInv(c)'
  BY DEF FillInv
<1>3. CASE DbObserve
  BY <1>1, <1>2, <1>3, FillObserve
<1>4. CASE FirstData
  BY <1>2, <1>4, FillFirst
<1>5. CASE ~DbObserve /\ ~FirstData
  <2>1. Settled(c) /\ currentUser' = currentUser /\ partner'[c] = partner[c]
    BY <1>2, <1>5, SettledBefore
  <2>2. dbQueue' = dbQueue => RequestsKept(c)
    BY DEF RequestsKept
  <2>3. <<>> \in Seq(Closures) /\ Len(<<>>) = 0
    OBVIOUS
  <2>4. CASE MainStep
    BY <1>1, <2>1, <2>4, FillMain
  <2>5. CASE DbFetch
    BY <1>1, <2>1, <2>5, FillFetch
  <2>6. CASE DbWrite
    <3>1. dbQueue # <<>> /\ dbQueue' = Tail(dbQueue) /\ Head(dbQueue).op # "fetch"
      BY <2>6 DEF DbWrite, FirstOperation
    <3>2. RequestsKept(c)
      BY <3>1, OperationTaken
    <3>3. PICK u, e : u = <<>> /\ e = EventsIfChanged
      OBVIOUS
    <3>4. u \in Seq(Closures) /\ Len(u) = 0 /\ e \in Seq(Closures)
      BY <3>3, EventTypes DEF TypeOK
    <3>5. mainQueue' = mainQueue \o EventsIfChanged \o u /\ listed' = listed
      <4>1. mainQueue \o e \in Seq(Closures)
        BY <3>4, ConcatProperties DEF TypeOK
      <4>2. (mainQueue \o e) \o u = mainQueue \o e
        BY <3>3, <4>1, ConcatEmptySeq
      <4>3. QED
        BY <2>6, <3>3, <4>2 DEF DbWrite, screenVars
    <3>6. \A i \in 1..Len(u) : u[i].kind = "sent"
      BY <3>4
    <3>7. QED
      BY <1>1, <2>1, <3>2, <3>4, <3>5, <3>6, FillChanges
  <2>7. CASE WriteAnswered
    <3>1. PICK a : a = message[Head(puts).id].chat
      OBVIOUS
    <3>2. PICK u : u = IF Head(puts).op = "put" /\ a # NoChat
                       THEN <<Closure("sent", a, {})>> ELSE <<>>
      OBVIOUS
    <3>3. a \in Chats \cup {NoChat}
      <4>1. Head(puts) \in Writes
        BY <2>7 DEF WriteAnswered, TypeOK, ClientTypeOK
      <4>2. QED
        BY <3>1, <4>1 DEF Writes, TypeOK, Contents, NotWritten
    <3>4. u \in Seq(Closures)
      BY <3>2, <3>3, ClosureTypes
    <3>5. \A i \in 1..Len(u) : u[i].kind = "sent"
      BY <3>2 DEF Closure
    <3>6. mainQueue' = mainQueue \o EventsIfChanged \o u /\ listed' = listed /\ dbQueue' = dbQueue
      BY <2>7, <3>1, <3>2 DEF WriteAnswered, screenVars
    <3>7. QED
      BY <1>1, <2>1, <2>2, <3>4, <3>5, <3>6, FillChanges
  <2>8. ASSUME NEW S \in SUBSET Messages, ServerChanges(S) PROVE FillInv(c)'
    <3>1. PICK u, e : u = <<>> /\ e = EventsIfChanged
      OBVIOUS
    <3>2. u \in Seq(Closures) /\ Len(u) = 0 /\ e \in Seq(Closures)
      BY <3>1, EventTypes DEF TypeOK
    <3>3. /\ mainQueue' = mainQueue \o EventsIfChanged \o u
          /\ listed' = listed /\ dbQueue' = dbQueue
      <4>1. mainQueue \o e \in Seq(Closures)
        BY <3>2, ConcatProperties DEF TypeOK
      <4>2. (mainQueue \o e) \o u = mainQueue \o e
        BY <3>1, <4>1, ConcatEmptySeq
      <4>3. QED
        BY <2>8, <3>1, <4>2 DEF ServerChanges, screenVars
    <3>4. \A i \in 1..Len(u) : u[i].kind = "sent"
      BY <3>2
    <3>5. QED
      BY <1>1, <2>1, <2>2, <3>2, <3>3, <3>4, FillChanges
  <2>9. ASSUME UNCHANGED <<server, puts, mainQueue, listed>>, RequestsKept(c) PROVE FillInv(c)'
    BY <1>1, <2>1, <2>9, FillQuiet
  <2>10. ASSUME NEW T, NEW r \in Seq(T), NEW o \in Seq(T), o = dbQueue, dbQueue' = o \o r
         PROVE  RequestsKept(c)
    BY <2>10, RangeOfSequences DEF RequestsKept
  <2>11. ASSUME NEW o \in Operations, dbQueue' = Append(dbQueue, o) PROVE RequestsKept(c)
    BY <2>11, RangeOfSequences DEF RequestsKept, TypeOK
  <2>12. ASSUME NEW u \in Users \cup {Nobody}, AccountChanges(u) PROVE FillInv(c)'
    BY <2>2, <2>9, <2>12 DEF AccountChanges, dbVars, clientVars
  <2>13. ASSUME NEW d \in Chats, NEW p \in Partners, OpenChat(d, p) PROVE FillInv(c)'
    <3>1. Operation("observe", d, NoPath, NoMessage) \in Operations
      BY OperationTypes DEF Paths
    <3>2. RequestsKept(c)
      BY <2>2, <2>11, <2>13, <3>1 DEF OpenChat
    <3>3. QED
      BY <2>9, <2>13, <3>2 DEF OpenChat, dbVars, clientVars
  <2>14. CASE CloseChat \/ SupportOpens \/ SupportStep \/ \E t \in Texts : Type(t)
    BY <2>2, <2>9, <2>14
    DEF CloseChat, SupportOpens, SupportStep, Type, screenVars, dbVars, clientVars
  <2>15. ASSUME NEW m \in Messages, LongPress(m) PROVE FillInv(c)'
    BY <2>2, <2>9, <2>15 DEF LongPress, dbVars, clientVars
  <2>16. ASSUME NEW m \in Messages, Send(m) \/ SendQuery(m) PROVE FillInv(c)'
    <3>1. /\ \A o \in Range(dbQueue) : o \in Range(dbQueue')
          /\ UNCHANGED <<server, puts, mainQueue, listed>>
      <4>1. PICK p, t, d : Compose(m, p, t, d)
        BY <2>16 DEF Send, SendQuery
      <4>2. dbQueue' = Append(dbQueue, Operation("put", d, p, m))
        BY <4>1 DEF Compose
      <4>3. \A i \in 1..Len(dbQueue) : i \in 1..Len(dbQueue') /\ dbQueue'[i] = dbQueue[i]
        BY <4>2 DEF TypeOK
      <4>4. /\ Range(dbQueue) = {dbQueue[i] : i \in 1..Len(dbQueue)}
            /\ Range(dbQueue') = {dbQueue'[i] : i \in 1..Len(dbQueue')}
        BY RangeOfSequences DEF TypeOK
      <4>5. UNCHANGED <<server, puts, mainQueue, listed>>
        BY <2>16, <4>1 DEF Send, SendQuery, Compose, screenVars
      <4>6. QED
        BY <4>3, <4>4, <4>5
    <3>2. QED
      BY <2>9, <3>1 DEF RequestsKept
  <2>17. CASE Delete
    <3>1. /\ open \in Chats /\ PathOf(open) \in Paths
          /\ deletedMessageIds[open] \in Seq(Messages)
      BY <2>17, PathTypes DEF Delete, TypeOK, PathOf, People
    <3>2. PICK r : r = [i \in 1..Len(deletedMessageIds[open]) |->
                          Operation("remove", open, PathOf(open), deletedMessageIds[open][i])]
      OBVIOUS
    <3>3. r \in Seq(Operations) /\ dbQueue' = dbQueue \o r
      BY <2>17, <3>1, <3>2, OperationTypes DEF Delete
    <3>4. PICK o : o = dbQueue
      OBVIOUS
    <3>5. RequestsKept(c)
      BY <2>10, <3>3, <3>4 DEF TypeOK
    <3>6. QED
      BY <2>9, <2>17, <3>5 DEF Delete, screenVars, dbVars, clientVars
  <2>18. QED
    BY <1>5, <2>4, <2>5, <2>6, <2>7, <2>8, <2>12, <2>13, <2>14, <2>15, <2>16, <2>17
    DEF Next, DbStep
<1>6. QED
  BY <1>3, <1>4, <1>5

(***************************************************************************)
(* However many screens were opened and closed before it, and whatever     *)
(* they still ask for, a screen whose account has not changed and that     *)
(* waits for nothing lists its conversation exactly.                       *)
(***************************************************************************)
THEOREM ChatsCompleteAtRest == Spec => []RestingChatIsComplete
<1> DEFINE AllFill == \A c \in Chats : FillInv(c)
<1>1. Init => AllFill
  BY DEF Init, FillInv, Settled
<1>2. TypeOK /\ TypeOK' /\ SessionInv /\ AllFill /\ [Next]_vars => AllFill'
  <2> SUFFICES ASSUME TypeOK, TypeOK', SessionInv, AllFill, [Next]_vars, NEW c \in Chats
               PROVE  FillInv(c)'
    OBVIOUS
  <2>1. CASE Next
    BY <2>1, FillNext
  <2>2. CASE UNCHANGED vars
    <3>1. /\ UNCHANGED <<mainQueue, dbQueue, loaded, listeners, seenBy, currentUser, listed>>
          /\ UNCHANGED <<server, puts, partner, message>>
      BY <2>2 DEF vars, screenVars, dbVars, clientVars
    <3>2. View' = View
      BY <3>1 DEF View, LastWrite
    <3>3. QED
      BY <3>1, <3>2 DEF FillInv, Settled, AnswersTrue, ListTrue, RefreshOwed, Refreshing, TrueList,
         PathOf, NoEventFrom, EventAt, FetchedAt
  <2>3. QED
    BY <2>1, <2>2
<1>3. AllFill => RestingChatIsComplete
  <2>1. \A c \in Chats : {m \in Messages : BelongsTo(m, c)} = TrueList(c)
    BY ViewOfMessages DEF BelongsTo, TrueList
  <2>2. QED
    BY <2>1 DEF FillInv, RefreshOwed, RestingChatIsComplete
<1>4. QED
  BY <1>1, <1>2, <1>3, InitialSession, NextKeepsSession, TypeCorrect, PTL DEF Spec

=============================================================================
