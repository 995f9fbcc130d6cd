----------------------------- MODULE ChatSession -----------------------------
(***************************************************************************)
(* Several chat screens in one run of the app: opened, closed, written in  *)
(* and deleted from while the account may change behind them.  A closed    *)
(* screen is never gone: observeConversations' closure holds it and the    *)
(* observer is not removed, so it goes on refreshing itself, with whoever  *)
(* is signed in by then.  The support screen writes to the same            *)
(* conversations and raises the same events.                               *)
(*                                                                         *)
(* The steps of a refresh and the two queues are those of Conversation,    *)
(* which has the order of the messages and the table; here each screen     *)
(* lists a set, and what matters is whose messages it lists, which answer  *)
(* clears which text field, and what a deletion reaches.                   *)
(***************************************************************************)
EXTENDS RealtimeClient, SupportChat, Functions

CONSTANTS
    FirstUser,       \* who is signed in when the dashboard opens, Nobody included
    Partners,        \* users that the chat list offers
    AdminBot,        \* the receiver of support messages
    MaxChats,        \* bound: chat screens opened
    NoMessage,       \* no identifier
    Texts,           \* what a user may type
    MaxPending,      \* bound: closures waiting in the two queues
    MaxWrites,       \* bound: writes of this phone not yet acknowledged
    MaxPresses,      \* bound: long presses on one screen
    MaxSwitches      \* bound: changes of the account

ASSUME ChatsAssumption == MaxChats \in Nat
ASSUME TextsAssumption == NoText \notin Texts
ASSUME PartnersAssumption == Nobody \notin Partners
ASSUME FirstUserAssumption == FirstUser \in Users \cup {Nobody}

VARIABLES
    currentUser,     \* Auth.auth().currentUser
    switches,        \* how often it has changed
    open,            \* the chat screen on top
    partner,         \* receiverId of each screen; Nobody: not opened yet
    seenBy,          \* history: who was signed in (Nobody included) in each screen's life
    listed,          \* conversationData of each screen
    text,            \* messageTextField of each screen
    deletedMessageIds,
    listeners,       \* the screens whose observers are registered, oldest first
    loaded,          \* the listen has been answered
    dbQueue,         \* closures waiting in FIRDatabaseQuery.sharedQueue
    mainQueue,       \* closures waiting in the main queue
    message,         \* what is written under each identifier in use
    given            \* history: what each screen has been given, under the path it asked for

screenVars == <<open, partner, seenBy, listed, text, deletedMessageIds>>
dbVars == <<clientVars, listeners, loaded, message, given>>
vars == <<currentUser, switches, screenVars, dbVars, dbQueue, mainQueue, supportVars>>

Chats == 1..MaxChats    \* in the order in which they are opened
NoChat == 0

Between(u, v) == {u, v}
People == Users \cup Partners \cup {Nobody, AdminBot}
NoPath == {}
Paths == {NoPath} \cup {Between(u, v) : u \in People, v \in People}

NotWritten == [path |-> NoPath, text |-> NoText, chat |-> NoChat]
Contents ==
    {NotWritten}
        \cup [path : Paths, text : Texts \cup {NoText, Placeholder}, chat : Chats \cup {NoChat}]

Operations ==
    [op : {"observe", "fetch"}, chat : Chats, path : Paths, id : {NoMessage}]
        \cup [op : {"put", "remove"}, chat : Chats \cup {NoChat}, path : Paths, id : Messages]
Closures == [kind : {"event", "getAll", "fetched", "sent"}, chat : Chats, snap : SUBSET Messages]

Operation(o, c, p, m) == [op |-> o, chat |-> c, path |-> p, id |-> m]
Closure(k, c, s) == [kind |-> k, chat |-> c, snap |-> s]

TypeOK ==
    /\ ClientTypeOK /\ SupportTypeOK
    /\ currentUser \in Users \cup {Nobody}
    /\ switches \in Nat
    /\ open \in Chats \cup {NoChat}
    /\ partner \in [Chats -> Partners \cup {Nobody}]
    /\ seenBy \in [Chats -> SUBSET (Users \cup {Nobody})]
    /\ listed \in [Chats -> SUBSET Messages]
    /\ text \in [Chats -> Texts \cup {NoText}]
    /\ deletedMessageIds \in [Chats -> Seq(Messages)]
    /\ listeners \in Seq(Chats)
    /\ loaded \in BOOLEAN
    /\ dbQueue \in Seq(Operations)
    /\ mainQueue \in Seq(Closures)
    /\ message \in [Messages -> Contents]
    /\ given \in [Chats -> SUBSET (Paths \X Messages)]

\* The conversation that a screen shows to whoever is signed in.
PathOf(c) == Between(currentUser, partner[c])

\* The dashboard, before the first chat.
Init ==
    /\ ClientInit /\ server = {} /\ SupportInit
    /\ currentUser = FirstUser
    /\ switches = 0
    /\ open = NoChat
    /\ partner = [c \in Chats |-> Nobody]
    /\ seenBy = [c \in Chats |-> {}]
    /\ listed = [c \in Chats |-> {}]
    /\ text = [c \in Chats |-> NoText]
    /\ deletedMessageIds = [c \in Chats |-> <<>>]
    /\ listeners = <<>>
    /\ loaded = FALSE
    /\ dbQueue = <<>>
    /\ mainQueue = <<>>
    /\ message = [m \in Messages |-> NotWritten]
    /\ given = [c \in Chats |-> {}]

HasRoom(n) == Len(mainQueue) + Len(dbQueue) + n <= MaxPending

RoomForWrites(n) == HasRoom(n) /\ Len(puts) + Len(dbQueue) + n <= MaxWrites

\* A value event for every observer.
Events == [i \in 1..Len(listeners) |-> Closure("event", listeners[i], {})]
EventsIfChanged == IF loaded /\ View' # View THEN Events ELSE <<>>

----------------------------------------------------------------------------
(* The account. *)

\* A sign-up or a log-in is answered, or Auth drops the account: every screen
\* stays where it is.
AccountChanges(u) ==
    /\ u # currentUser
    /\ switches < MaxSwitches
    /\ switches' = switches + 1
    /\ currentUser' = u
    /\ seenBy' = [c \in Chats |->
                     IF partner[c] # Nobody THEN seenBy[c] \cup {u} ELSE seenBy[c]]
    /\ UNCHANGED <<open, partner, listed, text, deletedMessageIds, dbVars, dbQueue, mainQueue,
                   supportVars>>

----------------------------------------------------------------------------
(* The user. *)

\* A row of the chat list is selected; viewDidLoad registers an observer unless
\* nobody is signed in.
OpenChat(c, p) ==
    /\ open = NoChat /\ supportUser = Closed
    /\ {d \in Chats : partner[d] = Nobody} = c..MaxChats
    /\ HasRoom(1)
    /\ open' = c
    /\ partner' = [partner EXCEPT ![c] = p]
    /\ seenBy' = [seenBy EXCEPT ![c] = {currentUser}]
    /\ dbQueue' = IF currentUser = Nobody THEN dbQueue
                  ELSE Append(dbQueue, Operation("observe", c, NoPath, NoMessage))
    /\ UNCHANGED <<currentUser, switches, listed, text, deletedMessageIds, dbVars, mainQueue,
                   supportVars>>

\* The back button, or a log-in's completion, which replaces the root.
CloseChat ==
    /\ open # NoChat
    /\ open' = NoChat
    /\ UNCHANGED <<currentUser, switches, partner, seenBy, listed, text, deletedMessageIds, dbVars,
                   dbQueue, mainQueue, supportVars>>

Type(t) ==
    /\ open # NoChat
    /\ text[open] # t
    /\ text' = [text EXCEPT ![open] = t]
    /\ UNCHANGED <<currentUser, switches, open, partner, seenBy, listed, deletedMessageIds, dbVars,
                   dbQueue, mainQueue, supportVars>>

\* The identifier is drawn and the write queued for the database.
Compose(m, p, t, c) ==
    /\ m \in unused
    /\ RoomForWrites(1)
    /\ unused' = unused \ {m}
    /\ message' = [message EXCEPT ![m] = [path |-> p, text |-> t, chat |-> c]]
    /\ dbQueue' = Append(dbQueue, Operation("put", c, p, m))
    /\ UNCHANGED <<server, puts, listeners, loaded, given>>

\* Mutant of Send: the text field is cleared without waiting for the answer.
SendClearing(m) ==
    /\ open # NoChat /\ currentUser # Nobody
    /\ Compose(m, PathOf(open), text[open], open)
    /\ text' = [text EXCEPT ![open] = NoText]
    /\ UNCHANGED <<currentUser, switches, open, partner, seenBy, listed, deletedMessageIds,
                   mainQueue, supportVars>>

\* handleSendMessage, from the button or the Return key: an empty text is sent,
\* too, and the text stays in the field until the answer.
Send(m) ==
    /\ open # NoChat /\ currentUser # Nobody
    /\ Compose(m, PathOf(open), text[open], open)
    /\ UNCHANGED <<currentUser, switches, screenVars, mainQueue, supportVars>>

LongPress(m) ==
    /\ open # NoChat
    /\ m \in listed[open]
    /\ Len(deletedMessageIds[open]) < MaxPresses
    /\ deletedMessageIds' = [deletedMessageIds EXCEPT ![open] = Append(@, m)]
    /\ UNCHANGED <<currentUser, switches, open, partner, seenBy, listed, text, dbVars, dbQueue,
                   mainQueue, supportVars>>

\* Mutant of Delete: the paths name the messages alone, in whichever
\* conversation they are.
DeleteAnywhere ==
    /\ open # NoChat
    /\ deletedMessageIds[open] # <<>>
    /\ RoomForWrites(Len(deletedMessageIds[open]))
    /\ dbQueue' = dbQueue \o [i \in 1..Len(deletedMessageIds[open]) |->
                                 Operation("remove", open, message[deletedMessageIds[open][i]].path,
                                           deletedMessageIds[open][i])]
    /\ UNCHANGED <<currentUser, switches, screenVars, dbVars, mainQueue, supportVars>>

\* deleteConversationsAction: every path is built with who is signed in now.
Delete ==
    /\ open # NoChat
    /\ deletedMessageIds[open] # <<>>
    /\ RoomForWrites(Len(deletedMessageIds[open]))
    /\ dbQueue' = dbQueue \o [i \in 1..Len(deletedMessageIds[open]) |->
                                 Operation("remove", open, PathOf(open),
                                           deletedMessageIds[open][i])]
    /\ UNCHANGED <<currentUser, switches, screenVars, dbVars, mainQueue, supportVars>>

----------------------------------------------------------------------------
(* The support screen; chats hide the tab that leads to it. *)

SupportOpens ==
    /\ open = NoChat
    /\ OpenSupport(currentUser)
    /\ UNCHANGED <<currentUser, switches, screenVars, dbVars, dbQueue, mainQueue>>

SupportStep ==
    /\ (\E q \in Queries : ChooseQuery(q)) \/ CloseSupport
    /\ UNCHANGED <<currentUser, switches, screenVars, dbVars, dbQueue, mainQueue>>

\* sendMessagesToAdmin, in the name of who opened the screen.
SendQuery(m) ==
    /\ CanSendQuery
    /\ Compose(m, Between(supportUser, AdminBot), QueryToSend, NoChat)
    /\ UNCHANGED <<currentUser, switches, screenVars, mainQueue, supportVars>>

----------------------------------------------------------------------------
(* The main queue. *)

First(k) == mainQueue # <<>> /\ Head(mainQueue).kind = k

\* The observer of a screen, closed ones included: empty it, ask for a refresh.
RunEvent ==
    /\ First("event")
    /\ listed' = [listed EXCEPT ![Head(mainQueue).chat] = {}]
    /\ mainQueue' = Append(Tail(mainQueue), Closure("getAll", Head(mainQueue).chat, {}))
    /\ UNCHANGED <<currentUser, switches, open, partner, seenBy, text, deletedMessageIds, dbVars,
                   dbQueue, supportVars>>

\* getAllConversations asks for the conversation of who is signed in by now.
RunGetAll ==
    /\ First("getAll")
    /\ LET c == Head(mainQueue).chat
       IN  dbQueue' = IF currentUser = Nobody THEN dbQueue
                      ELSE Append(dbQueue, Operation("fetch", c, PathOf(c), NoMessage))
    /\ mainQueue' = Tail(mainQueue)
    /\ UNCHANGED <<currentUser, switches, screenVars, dbVars, supportVars>>

RunFetched ==
    /\ First("fetched")
    /\ listed' = [listed EXCEPT ![Head(mainQueue).chat] = @ \cup Head(mainQueue).snap]
    /\ mainQueue' = Tail(mainQueue)
    /\ UNCHANGED <<currentUser, switches, open, partner, seenBy, text, deletedMessageIds, dbVars,
                   dbQueue, supportVars>>

\* Mutant of RunSent: the text field on top is cleared.
RunSentOnTop ==
    /\ First("sent")
    /\ text' = [c \in Chats |-> IF c = open THEN NoText ELSE text[c]]
    /\ mainQueue' = Tail(mainQueue)
    /\ UNCHANGED <<currentUser, switches, open, partner, seenBy, listed, deletedMessageIds, dbVars,
                   dbQueue, supportVars>>

\* handleSendMessage's completion, whether or not the message was stored.
RunSent ==
    /\ First("sent")
    /\ text' = [text EXCEPT ![Head(mainQueue).chat] = NoText]
    /\ mainQueue' = Tail(mainQueue)
    /\ UNCHANGED <<currentUser, switches, open, partner, seenBy, listed, deletedMessageIds, dbVars,
                   dbQueue, supportVars>>

MainStep == RunEvent \/ RunGetAll \/ RunFetched \/ RunSent

----------------------------------------------------------------------------
(* The database client's queue. *)

FirstOperation(o) == dbQueue # <<>> /\ Head(dbQueue).op = o

\* Mutant of DbObserve: the first event comes with the listen's answer only.
DbObserveCold ==
    /\ FirstOperation("observe")
    /\ listeners' = Append(listeners, Head(dbQueue).chat)
    /\ dbQueue' = Tail(dbQueue)
    /\ UNCHANGED <<currentUser, switches, screenVars, clientVars, loaded, message, given, mainQueue,
                   supportVars>>

\* The data are there once an earlier screen's listen was answered.
DbObserve ==
    /\ FirstOperation("observe")
    /\ listeners' = Append(listeners, Head(dbQueue).chat)
    /\ mainQueue' = IF loaded THEN Append(mainQueue, Closure("event", Head(dbQueue).chat, {}))
                    ELSE mainQueue
    /\ dbQueue' = Tail(dbQueue)
    /\ UNCHANGED <<currentUser, switches, screenVars, clientVars, loaded, message, given,
                   supportVars>>

\* The request at the front is answered with S.
Answer(S) ==
    /\ mainQueue' = Append(mainQueue, Closure("fetched", Head(dbQueue).chat, S))
    /\ given' = [given EXCEPT ![Head(dbQueue).chat] = @ \cup ({Head(dbQueue).path} \X S)]
    /\ dbQueue' = Tail(dbQueue)
    /\ UNCHANGED <<currentUser, switches, screenVars, clientVars, listeners, loaded, message,
                   supportVars>>

\* Mutant of DbFetch: the filter looks for the partner alone.
DbFetchOfPartner ==
    /\ FirstOperation("fetch")
    /\ LET c == Head(dbQueue).chat
       IN  Answer({m \in View : partner[c] \in message[m].path})

\* All conversations are read; the messages under the path asked for are kept.
DbFetch ==
    /\ FirstOperation("fetch")
    /\ Answer({m \in View : message[m].path = Head(dbQueue).path})

\* A removal under another path than the message's removes nothing.
DbWrite ==
    /\ FirstOperation("put") \/ FirstOperation("remove")
    /\ IF message[Head(dbQueue).id].path = Head(dbQueue).path
       THEN Write([op |-> Head(dbQueue).op, id |-> Head(dbQueue).id])
       ELSE UNCHANGED clientVars
    /\ mainQueue' = mainQueue \o EventsIfChanged
    /\ dbQueue' = Tail(dbQueue)
    /\ UNCHANGED <<currentUser, switches, screenVars, listeners, loaded, message, given,
                   supportVars>>

DbStep == DbObserve \/ DbFetch \/ DbWrite

----------------------------------------------------------------------------
(* The server and the other users. *)

\* The answer to the first listen.
FirstData ==
    /\ ~loaded /\ listeners # <<>>
    /\ HasRoom(Len(listeners))
    /\ loaded' = TRUE
    /\ mainQueue' = mainQueue \o Events
    /\ UNCHANGED <<currentUser, switches, screenVars, clientVars, listeners, message, given, dbQueue,
                   supportVars>>

\* Mutant of WriteAnswered: support messages complete like those of a chat.
WriteAnsweredAlike ==
    /\ puts # <<>>
    /\ HasRoom(Len(listeners) + 1)
    /\ Answered(1)
    /\ LET completion == IF Head(puts).op = "put"
                         THEN <<Closure("sent", message[Head(puts).id].chat, {})>> ELSE <<>>
       IN  mainQueue' = mainQueue \o EventsIfChanged \o completion
    /\ UNCHANGED <<currentUser, switches, screenVars, listeners, loaded, message, given, dbQueue,
                   supportVars>>

\* Stored or refused: events first, then the completion of a chat's message.
WriteAnswered ==
    /\ puts # <<>>
    /\ HasRoom(Len(listeners) + 1)
    /\ Answered(1)
    /\ LET c == message[Head(puts).id].chat
           completion == IF Head(puts).op = "put" /\ c # NoChat
                         THEN <<Closure("sent", c, {})>> ELSE <<>>
       IN  mainQueue' = mainQueue \o EventsIfChanged \o completion
    /\ UNCHANGED <<currentUser, switches, screenVars, listeners, loaded, message, given, dbQueue,
                   supportVars>>

\* What other users write under identifiers of theirs, in any conversation.
WrittenElsewhere(fresh) ==
    \E f \in [fresh -> {Between(u, p) : u \in Users, p \in Partners}] :
        message' = [m \in Messages |-> IF m \in fresh
                                       THEN [path |-> f[m], text |-> NoText, chat |-> NoChat]
                                       ELSE message[m]]

ServerChanges(S) ==
    /\ HasRoom(Len(listeners))
    /\ Update(S)
    /\ WrittenElsewhere(S \cap unused)
    /\ mainQueue' = mainQueue \o EventsIfChanged
    /\ UNCHANGED <<currentUser, switches, screenVars, listeners, loaded, given, dbQueue, supportVars>>

Next ==
    \/ \E u \in Users \cup {Nobody} : AccountChanges(u)
    \/ \E c \in Chats, p \in Partners : OpenChat(c, p)
    \/ CloseChat
    \/ \E t \in Texts : Type(t)
    \/ \E m \in Messages : Send(m) \/ LongPress(m) \/ SendQuery(m)
    \/ Delete
    \/ SupportOpens \/ SupportStep
    \/ MainStep \/ DbStep
    \/ FirstData \/ WriteAnswered
    \/ \E S \in SUBSET Messages : ServerChanges(S)

Spec == Init /\ [][Next]_vars

\* The two queues are drained.
FairSpec == Spec /\ WF_vars(MainStep) /\ WF_vars(DbStep)

----------------------------------------------------------------------------
(* What holds across screens and accounts. *)

(***************************************************************************)
(* Each step of a refresh asks anew who is signed in (APIManager.swift:257 *)
(* and 303), and closed screens go on refreshing.  However the account     *)
(* changes between an event, its request and the answer, a chat lists only *)
(* messages between its partner and somebody who was signed in on this     *)
(* phone while the screen was there, never those of an earlier account.    *)
(***************************************************************************)
ListsOwnConversations ==
    \A c \in Chats : \A m \in listed[c] :
        \E u \in seenBy[c] : message[m].path = Between(u, partner[c])

(***************************************************************************)
(* Closed screens keep refreshing, every change queues a refresh for each  *)
(* of them, and the requests of all of them share two queues.  Still a     *)
(* screen whose account has not changed, with no event or refresh of its   *)
(* own on the way, lists its conversation: every message of it, none that  *)
(* was deleted, and none of another chat's.                                *)
(***************************************************************************)
BelongsTo(m, c) == m \in View /\ message[m].path = PathOf(c)

Settled(c) == loaded /\ c \in Range(listeners) /\ seenBy[c] = {currentUser}

Refreshing(c) ==
    \/ \E k \in Range(mainQueue) : k.chat = c /\ k.kind \in {"event", "getAll", "fetched"}
    \/ \E o \in Range(dbQueue) : o.chat = c /\ o.op = "fetch"

RestingChatIsComplete ==
    \A c \in Chats :
        (Settled(c) /\ ~Refreshing(c)) => listed[c] = {m \in Messages : BelongsTo(m, c)}

(***************************************************************************)
(* deletedMessageIds outlives refreshes, deletions and changes of account  *)
(* (ConversationViewController.swift:196, 222): a list read for one user   *)
(* stays on the screen for the next, who can record its rows, and Delete   *)
(* takes whatever was recorded under whichever account.  Still nobody      *)
(* deletes what the screen was not given for him: a removal that finds its *)
(* message was recorded from the answer to a request, by the same screen,  *)
(* for the conversation of the user who presses Delete.                    *)
(***************************************************************************)
DeletesWhatWasGiven ==
    [][\A i \in (Len(dbQueue) + 1)..Len(dbQueue') :
          (dbQueue'[i].op = "remove" /\ dbQueue'[i].path = message[dbQueue'[i].id].path) =>
              <<PathOf(open), dbQueue'[i].id>> \in given[open]]_vars

(***************************************************************************)
(* The completion of a send clears the text field long after the press     *)
(* (line 156), when another chat may be open or the user types the next    *)
(* message.  A text is cleared only on a screen whose own message has been *)
(* answered: no other screen's answer, and no press alone, takes it.       *)
(***************************************************************************)
Unanswered(m) ==
    \/ \E i \in 1..Len(dbQueue) : dbQueue[i].op = "put" /\ dbQueue[i].id = m
    \/ \E i \in 1..Len(puts) : puts[i] = [op |-> "put", id |-> m]

TextKeptUntilAnswered ==
    [][\A c \in Chats : (text[c] # NoText /\ text'[c] = NoText) =>
          \E m \in Messages : message[m].chat = c /\ ~Unanswered(m)]_vars

(***************************************************************************)
(* The chat that is open fills with its conversation although closed       *)
(* screens keep their observers (line 108) and queue refreshes of their    *)
(* own, provided that changes cease and the account has not changed since  *)
(* the screen was opened: a change of account raises no event.             *)
(***************************************************************************)
EventRaised ==
    \E i \in (Len(mainQueue) + 1)..Len(mainQueue') : mainQueue'[i].kind = "event"

EventsCease == <>[][~EventRaised]_vars

OpenChatFills ==
    EventsCease =>
        \A c \in Chats, m \in Messages :
            (open = c /\ Settled(c) /\ BelongsTo(m, c))
                ~> (m \in listed[c] \/ ~BelongsTo(m, c) \/ ~Settled(c) \/ open # c)

(***************************************************************************)
(* The send button of the support screen warns "Type Something"            *)
(* (SupportChatViewController.swift:85) in place of sending an empty       *)
(* message.                                                                *)
(***************************************************************************)
SupportSendsSomething ==
    [][\A m \in Messages : SendQuery(m) => message'[m].text # NoText]_vars

=============================================================================
