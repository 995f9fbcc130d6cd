---------------------------- MODULE Conversation ----------------------------
(***************************************************************************)
(* The chat screen (ConversationViewController) with the MessageManager    *)
(* calls it makes.  Everything the screen does runs in closures of the     *)
(* main queue; everything the database client does runs in closures of its *)
(* own serial queue.  One change of the data travels                       *)
(*                                                                         *)
(*   cache change -> event (removeAll) -> getAll -> fetch -> fetched       *)
(*   (append) -> reload -> layout                                          *)
(*                                                                         *)
(* and anything may happen between two of these steps: another change, a   *)
(* touch, a layout pass.                                                   *)
(*                                                                         *)
(* Left out: the text field, other screens and changes of the account      *)
(* (ChatSession has them), the wording and look of cells, and the array    *)
(* the observer accumulates (APIManager.swift:301), which its only         *)
(* completion ignores.                                                     *)
(***************************************************************************)
EXTENDS RealtimeClient, FiniteSets, Functions

CONSTANTS
    NoMessage,       \* the content of a row without a cell, or with a blank one; "no identifier"
    Time,            \* Time[m]: the timestamp the sender's clock gave m
    MaxPending,      \* bound: closures waiting in the two queues
    MaxWrites,       \* bound: writes of this phone not yet acknowledged
    MaxPresses       \* bound: long presses on rows

ASSUME MessagesAssumption == IsFiniteSet(Messages)
ASSUME NoMessageAssumption == NoMessage \notin Messages
ASSUME TimeAssumption == Time \in [Messages -> Nat]

VARIABLES
    listening,         \* "off", "waiting" or "on": the observer on "conversations"
    dbQueue,           \* closures waiting in FIRDatabaseQuery.sharedQueue
    mainQueue,         \* closures waiting in the main queue
    conversationData,  \* the data source of the table
    cells,             \* the rows the table believes in, and what each shows
    deletedMessageIds, \* identifiers recorded by long presses
    signedIn,          \* Auth.auth().currentUser # nil
    crashed            \* a subscript of conversationData was out of range

viewVars == <<conversationData, cells, deletedMessageIds, crashed>>
vars == <<clientVars, listening, dbQueue, mainQueue, viewVars, signedIn>>

Kinds == {"event", "getAll", "fetched", "reload"}
Closures == [kind : Kinds, snap : SUBSET Messages]
Operations == [op : {"observe", "fetch"}, id : {NoMessage}] \cup Writes

Closure(k, s) == [kind |-> k, snap |-> s]
Operation(o, m) == [op |-> o, id |-> m]

TypeOK ==
    /\ ClientTypeOK
    /\ listening \in {"off", "waiting", "on"}
    /\ dbQueue \in Seq(Operations)
    /\ mainQueue \in Seq(Closures)
    /\ conversationData \in Seq(Messages)
    /\ cells \in Seq(Messages \cup {NoMessage})
    /\ deletedMessageIds \in Seq(Messages)
    /\ signedIn \in BOOLEAN
    /\ crashed \in BOOLEAN

\* viewDidLoad has run: configureChatUI left a block that reloads the empty
\* table in the main queue and the observer's registration in the database's.
Init ==
    /\ ClientInit
    /\ listening = "off"
    /\ dbQueue = <<Operation("observe", NoMessage)>>
    /\ mainQueue = <<Closure("reload", {})>>
    /\ conversationData = <<>>
    /\ cells = <<>>
    /\ deletedMessageIds = <<>>
    /\ signedIn = TRUE
    /\ crashed = FALSE

\* The orders in which messages.sort may leave a set that came out of a
\* dictionary: by time, and in any order where the times are equal.
Sortings(S) ==
    {q \in [1..Cardinality(S) -> S] :
        /\ \A m \in S : \E i \in DOMAIN q : q[i] = m
        /\ \A i, j \in DOMAIN q : i < j => Time[q[i]] <= Time[q[j]]}

\* Mutant of NotifyIfChanged: the client's own writes raise no event.
NotifyOfServer ==
    mainQueue' = IF listening = "on" /\ server' # server
                 THEN Append(mainQueue, Closure("event", View'))
                 ELSE mainQueue

\* Raise a value event on the observer if the snapshot changed.
NotifyIfChanged ==
    mainQueue' = IF listening = "on" /\ View' # View
                 THEN Append(mainQueue, Closure("event", View'))
                 ELSE mainQueue

----------------------------------------------------------------------------
(* The main queue. *)

\* Mutant of RunEvent: the handler forgets removeAll.
RunEventKeeping ==
    /\ mainQueue # <<>> /\ Head(mainQueue).kind = "event"
    /\ mainQueue' = Append(Tail(mainQueue), Closure("getAll", {}))
    /\ UNCHANGED <<clientVars, listening, dbQueue, viewVars, signedIn>>

\* observeConversations' handler: empty the data, ask for a refresh.
RunEvent ==
    /\ mainQueue # <<>> /\ Head(mainQueue).kind = "event"
    /\ conversationData' = <<>>
    /\ mainQueue' = Append(Tail(mainQueue), Closure("getAll", {}))
    /\ UNCHANGED <<clientVars, listening, dbQueue, cells, deletedMessageIds, signedIn, crashed>>

\* getAllConversations: observeSingleEvent, unless nobody is signed in.
RunGetAll ==
    /\ mainQueue # <<>> /\ Head(mainQueue).kind = "getAll"
    /\ dbQueue' = IF signedIn THEN Append(dbQueue, Operation("fetch", NoMessage)) ELSE dbQueue
    /\ mainQueue' = Tail(mainQueue)
    /\ UNCHANGED <<clientVars, listening, viewVars, signedIn>>

\* Mutants of RunFetched: no reload is asked for; the messages are not sorted.
RunFetchedSilently ==
    /\ mainQueue # <<>> /\ Head(mainQueue).kind = "fetched"
    /\ \E q \in Sortings(Head(mainQueue).snap) : conversationData' = conversationData \o q
    /\ mainQueue' = Tail(mainQueue)
    /\ UNCHANGED <<clientVars, listening, dbQueue, cells, deletedMessageIds, signedIn, crashed>>

RunFetchedUnsorted ==
    /\ mainQueue # <<>> /\ Head(mainQueue).kind = "fetched"
    /\ LET snap == Head(mainQueue).snap
       IN  \E q \in [1..Cardinality(snap) -> snap] :
              Range(q) = snap /\ conversationData' = conversationData \o q
    /\ mainQueue' = Append(Tail(mainQueue), Closure("reload", {}))
    /\ UNCHANGED <<clientVars, listening, dbQueue, cells, deletedMessageIds, signedIn, crashed>>

\* The single event's handler: sort, append, ask for a reload.
RunFetched ==
    /\ mainQueue # <<>> /\ Head(mainQueue).kind = "fetched"
    /\ \E q \in Sortings(Head(mainQueue).snap) : conversationData' = conversationData \o q
    /\ mainQueue' = Append(Tail(mainQueue), Closure("reload", {}))
    /\ UNCHANGED <<clientVars, listening, dbQueue, cells, deletedMessageIds, signedIn, crashed>>

\* reloadData: ask numberOfRowsInSection; no row has a cell until layout.
RunReload ==
    /\ mainQueue # <<>> /\ Head(mainQueue).kind = "reload"
    /\ cells' = [i \in 1..Len(conversationData) |-> NoMessage]
    /\ mainQueue' = Tail(mainQueue)
    /\ UNCHANGED <<clientVars, listening, dbQueue, conversationData, deletedMessageIds,
                   signedIn, crashed>>

MainStep == RunEvent \/ RunGetAll \/ RunFetched \/ RunReload

----------------------------------------------------------------------------
(* The table asks for cells: at layout, and when a row scrolls back. *)

\* cellForRowAt for the rows in R: a blank cell if nobody is signed in.
DrawRows(R) ==
    /\ IF \E i \in R : i > Len(conversationData)
       THEN crashed' = TRUE /\ UNCHANGED cells
       ELSE /\ cells' = [i \in DOMAIN cells |->
                            IF i \notin R THEN cells[i]
                            ELSE IF signedIn THEN conversationData[i] ELSE NoMessage]
            /\ UNCHANGED crashed
    /\ UNCHANGED <<clientVars, listening, dbQueue, mainQueue, conversationData,
                   deletedMessageIds, signedIn>>

Layout ==
    LET blank == {i \in DOMAIN cells : cells[i] = NoMessage}
    IN  blank # {} /\ DrawRows(blank)

Scroll(i) == cells[i] # NoMessage /\ DrawRows({i})

----------------------------------------------------------------------------
(* The user. *)

HasRoom(n) == Len(mainQueue) + Len(dbQueue) + n <= MaxPending

RoomForWrites(n) == HasRoom(n) /\ Len(puts) + Len(dbQueue) + n <= MaxWrites

\* handleSendMessage: a fresh identifier, and an update of its path.
Send(m) ==
    /\ signedIn
    /\ m \in unused
    /\ RoomForWrites(1)
    /\ unused' = unused \ {m}
    /\ dbQueue' = Append(dbQueue, Operation("put", m))
    /\ UNCHANGED <<server, puts, listening, mainQueue, viewVars, signedIn>>

\* Mutants of LongPress: it records what the row shows, blank ones included; it
\* counts the rows from one.
LongPressBlank(i) ==
    /\ Len(deletedMessageIds) < MaxPresses
    /\ deletedMessageIds' = Append(deletedMessageIds, cells[i])
    /\ UNCHANGED <<clientVars, listening, dbQueue, mainQueue, conversationData, cells, signedIn,
                   crashed>>

LongPressNext(i) ==
    /\ Len(deletedMessageIds) < MaxPresses
    /\ IF i + 1 > Len(conversationData)
       THEN crashed' = TRUE /\ UNCHANGED deletedMessageIds
       ELSE /\ deletedMessageIds' = Append(deletedMessageIds, conversationData[i + 1])
            /\ UNCHANGED crashed
    /\ UNCHANGED <<clientVars, listening, dbQueue, mainQueue, conversationData, cells, signedIn>>

\* messageTapRecognizer on a row of the table, blank ones included: the
\* identifier is read from the data at the row's index, not from the cell.
LongPress(i) ==
    /\ Len(deletedMessageIds) < MaxPresses
    /\ IF i > Len(conversationData)
       THEN crashed' = TRUE /\ UNCHANGED deletedMessageIds
       ELSE /\ deletedMessageIds' = Append(deletedMessageIds, conversationData[i])
            /\ UNCHANGED crashed
    /\ UNCHANGED <<clientVars, listening, dbQueue, mainQueue, conversationData, cells, signedIn>>

\* deleteConversationsAction: one removeValue for each recorded identifier,
\* none of which is forgotten.  With nobody signed in the path is another one.
Delete ==
    /\ signedIn
    /\ deletedMessageIds # <<>>
    /\ RoomForWrites(Len(deletedMessageIds))
    /\ dbQueue' = dbQueue \o [i \in 1..Len(deletedMessageIds) |->
                                 Operation("remove", deletedMessageIds[i])]
    /\ UNCHANGED <<clientVars, listening, mainQueue, viewVars, signedIn>>

----------------------------------------------------------------------------
(* The database client's queue. *)

FirstOperation(o) == dbQueue # <<>> /\ Head(dbQueue).op = o

\* addEventRegistration with the data already there (an earlier screen's
\* observer is never removed): the first event is raised at once.
DbObserveWarm ==
    /\ FirstOperation("observe")
    /\ listening' = "on"
    /\ mainQueue' = Append(mainQueue, Closure("event", View))
    /\ dbQueue' = Tail(dbQueue)
    /\ UNCHANGED <<clientVars, viewVars, signedIn>>

\* addEventRegistration with no view yet: a listen is sent to the server.
DbObserveCold ==
    /\ FirstOperation("observe")
    /\ listening = "off"
    /\ listening' = "waiting"
    /\ dbQueue' = Tail(dbQueue)
    /\ UNCHANGED <<clientVars, mainQueue, viewVars, signedIn>>

\* The answer to the listen.
FirstData ==
    /\ listening = "waiting"
    /\ listening' = "on"
    /\ mainQueue' = Append(mainQueue, Closure("event", View))
    /\ UNCHANGED <<clientVars, dbQueue, viewVars, signedIn>>

\* The single event is answered from the cache the observer keeps complete.
DbFetch ==
    /\ FirstOperation("fetch")
    /\ mainQueue' = Append(mainQueue, Closure("fetched", View))
    /\ dbQueue' = Tail(dbQueue)
    /\ UNCHANGED <<clientVars, listening, viewVars, signedIn>>

DbWrite ==
    /\ FirstOperation("put") \/ FirstOperation("remove")
    /\ Write([op |-> Head(dbQueue).op, id |-> Head(dbQueue).id])
    /\ NotifyIfChanged
    /\ dbQueue' = Tail(dbQueue)
    /\ UNCHANGED <<listening, viewVars, signedIn>>

DbStep == DbObserveWarm \/ DbObserveCold \/ DbFetch \/ DbWrite

----------------------------------------------------------------------------
(* The server, the other users and the account. *)

ServerStep ==
    /\ HasRoom(1)
    /\ \/ puts # <<>> /\ Answered(1)
       \/ \E S \in SUBSET Messages : Update(S)
    /\ NotifyIfChanged
    /\ UNCHANGED <<listening, dbQueue, viewVars, signedIn>>

\* The observer is on all of "conversations": a change of another
\* conversation raises an event with this one's messages as they were.
OtherConversationChanges ==
    /\ HasRoom(1)
    /\ listening = "on"
    /\ mainQueue' = Append(mainQueue, Closure("event", View))
    /\ UNCHANGED <<clientVars, listening, dbQueue, viewVars, signedIn>>

\* The Auth library drops the account when its token becomes invalid.
ForcedSignOut ==
    /\ signedIn
    /\ signedIn' = FALSE
    /\ UNCHANGED <<clientVars, listening, dbQueue, mainQueue, viewVars>>

Next ==
    /\ ~crashed
    /\ \/ MainStep
       \/ DbStep
       \/ FirstData
       \/ Layout
       \/ \E i \in DOMAIN cells : Scroll(i) \/ LongPress(i)
       \/ \E m \in Messages : Send(m)
       \/ Delete
       \/ ServerStep
       \/ OtherConversationChanges
       \/ ForcedSignOut

Spec == Init /\ [][Next]_vars

\* The two queues are drained and the table is laid out.
Fairness ==
    /\ WF_vars(~crashed /\ MainStep)
    /\ WF_vars(~crashed /\ DbStep)
    /\ WF_vars(~crashed /\ Layout)

FairSpec == Spec /\ Fairness

----------------------------------------------------------------------------
(* What the screen keeps true. *)

\* A refresh is on its way: between removeAll and the reload that shows its end.
Refreshing ==
    \/ \E i \in 1..Len(mainQueue) : mainQueue[i].kind \in {"getAll", "fetched", "reload"}
    \/ \E i \in 1..Len(dbQueue) : dbQueue[i].op = "fetch"

EventWaiting == \E i \in 1..Len(mainQueue) : mainQueue[i].kind = "event"

(***************************************************************************)
(* removeAll changes the data without reloading the table (lines 108-113), *)
(* so the table is out of step until the refresh ends.  This bounds the    *)
(* damage: with no refresh on its way the table has as many rows as there  *)
(* are messages and every row shows the message at its index, so neither   *)
(* cellForRowAt nor a long press can go out of range or hit another row.   *)
(***************************************************************************)
TableMatchesData ==
    (signedIn /\ ~crashed /\ ~Refreshing) =>
        /\ Len(cells) = Len(conversationData)
        /\ \A i \in 1..Len(cells) : cells[i] \in {NoMessage, conversationData[i]}

(***************************************************************************)
(* The three closures of one refresh are queued separately and events are  *)
(* raised in between (getAllConversations appends, it never replaces).     *)
(* Still, once the observer has handled every event, the data never mixes  *)
(* two versions of the conversation: it is empty, or it shows every        *)
(* message of the present one and no message that was deleted.             *)
(***************************************************************************)
NoVersionMix ==
    ~EventWaiting => Range(conversationData) \in {{}, View}

(***************************************************************************)
(* The observer's event carries no data to the screen (line 108): it only  *)
(* makes it read again (line 141), and reads, events and writes overtake   *)
(* one another in two queues.  No change is forgotten in between: with an  *)
(* observer and a user, and no event or refresh on its way, the list holds *)
(* the whole conversation, this phone's unconfirmed messages included, and *)
(* nothing that was deleted.  The display never needs another event to     *)
(* catch up.                                                               *)
(***************************************************************************)
RestingListIsComplete ==
    (listening = "on" /\ signedIn /\ ~Refreshing /\ ~EventWaiting)
        => Range(conversationData) = View

(***************************************************************************)
(* messageTapRecognizer records conversationData[row] (line 194), not what *)
(* the row shows.  When no refresh is on its way the identifier recorded   *)
(* is that of the message which the row shows, or will show once laid out. *)
(***************************************************************************)
SettledPressTakesShownMessage ==
    [][\A i \in DOMAIN cells :
        (LongPress(i) /\ signedIn /\ ~Refreshing) =>
            \E m \in Messages :
                /\ cells[i] \in {m, NoMessage} /\ m = conversationData[i]
                /\ deletedMessageIds' = Append(deletedMessageIds, m)]_vars

(***************************************************************************)
(* Real-time messaging: a message of the conversation gets onto the screen *)
(* unless it is deleted first, the app stops or the account is dropped,    *)
(* however its changes, the refreshes and the layout passes interleave.    *)
(* The data must come to rest for that: every change of any conversation   *)
(* raises an event (line 308) that empties this screen again (line 109),   *)
(* so endless changes, other people's included, can starve the display.    *)
(***************************************************************************)
EventRaised ==
    /\ Len(mainQueue') > Len(mainQueue)
    /\ mainQueue'[Len(mainQueue')].kind = "event"

EventsCease == <>[][~EventRaised]_vars

EveryMessageShown ==
    EventsCease =>
        \A m \in Messages :
            (listening = "on" /\ m \in View)
                ~> (m \in Range(cells) \/ m \notin View \/ crashed \/ ~signedIn)
=============================================================================
