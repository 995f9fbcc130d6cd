------------------------------ MODULE Delivery ------------------------------
(***************************************************************************)
(* One conversation on several phones: messages sent and deleted by        *)
(* MessageManager, the server that stores them, and connections that fail. *)
(*                                                                         *)
(* A phone shows its own writes at once and sends them when it can; a      *)
(* write is outstanding until the server has answered it, and is sent      *)
(* again after a reconnection, also when only the answer was lost.  After  *)
(* a reconnection answers are held back until the conversation has been    *)
(* read anew.  Writes live in memory: a process that ends loses them.      *)
(*                                                                         *)
(* Assumed of the server: it handles one connection's writes in order and  *)
(* sends every change before it answers the write that made it, but may    *)
(* answer the request to listen later than writes sent after it; nothing   *)
(* of an old connection reaches it after the phone has noticed the loss.   *)
(***************************************************************************)
EXTENDS Naturals, Sequences, SequencesExt

CONSTANTS
    Phones,
    Own,             \* the phone whose client PhoneIsClient is about; it may be any
    Messages,        \* message identifiers (childByAutoId keys)
    Nobody,          \* the author of an identifier not used yet
    MaxWrites,       \* bound: outstanding writes of a phone
    MaxAnswers,      \* bound: what the server has on the way to a phone
    MaxTroubles,     \* bound: lost connections and killed processes
    MaxDeletes       \* bound: presses of the delete button

ASSUME NobodyAssumption == Nobody \notin Phones
ASSUME OwnAssumption == Own \in Phones

VARIABLES
    stored,          \* the messages in the database
    author,          \* author[m]: the phone that sent m
    link,            \* link[p]: "off", "waiting" for the listen's answer, or "on"
    listened,        \* listened[p]: the server has handled p's listen
    loaded,          \* loaded[p]: p has received data of the conversation
    cache,           \* cache[p]: the last of these data
    puts,            \* puts[p]: outstandingPuts, oldest first
    applied,         \* applied[p]: how many of them this connection has seen handled
    putsToAck,       \* putsToAck[p]: answered writes that wait for the listen's answer
    answers,         \* answers[p]: what the server has sent and p has not received
    deletedMessageIds, \* deletedMessageIds[p]: recorded by long presses, once each
    troubles,        \* connections lost and processes killed so far
    deletes,         \* presses of the delete button so far
    confirmed,       \* history: messages whose sending was confirmed to the sender
    deleted,         \* history: deleted[p], removals confirmed to p
    removed,         \* history: messages the server removed
    refused,         \* history: messages the server refused
    arrivals         \* history: arrivals[m], how often m was stored: 0, 1, or 2 for more

phoneVars == <<link, listened, loaded, cache, puts, applied, putsToAck, answers, deletedMessageIds>>
boundVars == <<troubles, deletes>>
historyVars == <<confirmed, deleted, removed, refused, arrivals>>
vars == <<stored, author, phoneVars, boundVars, historyVars>>

Writes == [op : {"put", "remove"}, id : Messages]
Answered == [write : Writes, ok : BOOLEAN]
Answers == [kind : {"data", "listening", "ack"}, snap : SUBSET Messages, ok : BOOLEAN]

Data(S) == [kind |-> "data", snap |-> S, ok |-> TRUE]
Listening == [kind |-> "listening", snap |-> {}, ok |-> TRUE]
Ack(ok) == [kind |-> "ack", snap |-> {}, ok |-> ok]

TypeOK ==
    /\ stored \subseteq Messages
    /\ author \in [Messages -> Phones \cup {Nobody}]
    /\ link \in [Phones -> {"off", "waiting", "on"}]
    /\ listened \in [Phones -> BOOLEAN]
    /\ loaded \in [Phones -> BOOLEAN]
    /\ cache \in [Phones -> SUBSET Messages]
    /\ puts \in [Phones -> Seq(Writes)]
    /\ applied \in [Phones -> Nat]
    /\ \A p \in Phones : applied[p] <= Len(puts[p])
    /\ putsToAck \in [Phones -> Seq(Answered)]
    /\ answers \in [Phones -> Seq(Answers)]
    /\ deletedMessageIds \in [Phones -> Seq(Messages)]
    /\ troubles \in Nat
    /\ deletes \in Nat
    /\ confirmed \subseteq Messages
    /\ deleted \in [Phones -> SUBSET Messages]
    /\ removed \subseteq Messages
    /\ refused \subseteq Messages
    /\ arrivals \in [Messages -> 0..2]

\* Every phone has opened the conversation and is not connected yet.
Init ==
    /\ stored = {}
    /\ author = [m \in Messages |-> Nobody]
    /\ link = [p \in Phones |-> "off"]
    /\ listened = [p \in Phones |-> FALSE]
    /\ loaded = [p \in Phones |-> FALSE]
    /\ cache = [p \in Phones |-> {}]
    /\ puts = [p \in Phones |-> <<>>]
    /\ applied = [p \in Phones |-> 0]
    /\ putsToAck = [p \in Phones |-> <<>>]
    /\ answers = [p \in Phones |-> <<>>]
    /\ deletedMessageIds = [p \in Phones |-> <<>>]
    /\ troubles = 0
    /\ deletes = 0
    /\ confirmed = {}
    /\ deleted = [p \in Phones |-> {}]
    /\ removed = {}
    /\ refused = {}
    /\ arrivals = [m \in Messages |-> 0]

\* The writes laid over the cached data: those whose completion has not run.
Pending(p) == [i \in 1..Len(putsToAck[p]) |-> putsToAck[p][i].write] \o puts[p]

Unused == {m \in Messages : author[m] = Nobody}

Client(p) == INSTANCE RealtimeClient WITH
    server <- cache[p], puts <- Pending(p), unused <- Unused

OwnClient == INSTANCE RealtimeClient WITH
    server <- cache[Own], puts <- Pending(Own), unused <- Unused

\* The messages of a snapshot on p; there is none before the first data.
Shown(p) == IF loaded[p] THEN Client(p)!View ELSE {}

Views == [p \in Phones |-> Shown(p)]

----------------------------------------------------------------------------
(* The user of phone p. *)

\* sendMessagesToUser: a fresh identifier, one update.
Send(p, m) ==
    /\ author[m] = Nobody
    /\ Len(puts[p]) < MaxWrites
    /\ author' = [author EXCEPT ![m] = p]
    /\ puts' = [puts EXCEPT ![p] = Append(@, [op |-> "put", id |-> m])]
    /\ UNCHANGED <<stored, link, listened, loaded, cache, applied, putsToAck, answers,
                   deletedMessageIds, boundVars, historyVars>>

LongPress(p, m) ==
    /\ m \in Shown(p) \ ToSet(deletedMessageIds[p])
    /\ deletedMessageIds' = [deletedMessageIds EXCEPT ![p] = Append(@, m)]
    /\ UNCHANGED <<stored, author, link, listened, loaded, cache, puts, applied, putsToAck,
                   answers, boundVars, historyVars>>

\* deleteUserConversations: a removal of every message recorded so far.
Delete(p) ==
    /\ deletedMessageIds[p] # <<>>
    /\ deletes < MaxDeletes
    /\ Len(puts[p]) + Len(deletedMessageIds[p]) <= MaxWrites
    /\ puts' = [puts EXCEPT ![p] = @ \o
                  [i \in DOMAIN deletedMessageIds[p] |->
                     [op |-> "remove", id |-> deletedMessageIds[p][i]]]]
    /\ deletes' = deletes + 1
    /\ UNCHANGED <<stored, author, link, listened, loaded, cache, applied, putsToAck,
                   answers, deletedMessageIds, troubles, historyVars>>

----------------------------------------------------------------------------
(* The connection of phone p. *)

\* Mutants of Connect: the listen is not sent again; writes sent before are
\* not; they are sent newest first.
ConnectWithoutListen(p) ==
    /\ link[p] = "off"
    /\ link' = [link EXCEPT ![p] = IF loaded[p] THEN "on" ELSE "waiting"]
    /\ UNCHANGED <<stored, author, listened, loaded, cache, puts, applied, putsToAck,
                   answers, deletedMessageIds, boundVars, historyVars>>

ConnectForgetting(p) ==
    /\ link[p] = "off"
    /\ link' = [link EXCEPT ![p] = "waiting"]
    /\ applied' = [applied EXCEPT ![p] = Len(puts[p])]
    /\ UNCHANGED <<stored, author, listened, loaded, cache, puts, putsToAck, answers,
                   deletedMessageIds, boundVars, historyVars>>

ConnectReversing(p) ==
    /\ link[p] = "off"
    /\ link' = [link EXCEPT ![p] = "waiting"]
    /\ puts' = [puts EXCEPT ![p] = Reverse(@)]
    /\ UNCHANGED <<stored, author, listened, loaded, cache, applied, putsToAck, answers,
                   deletedMessageIds, boundVars, historyVars>>

\* restoreState: the listen is sent, then all outstanding writes in order.
Connect(p) ==
    /\ link[p] = "off"
    /\ link' = [link EXCEPT ![p] = "waiting"]
    /\ UNCHANGED <<stored, author, listened, loaded, cache, puts, applied, putsToAck,
                   answers, deletedMessageIds, boundVars, historyVars>>

\* Mutant of Disconnected: what was sent on the old connection still counts.
DisconnectedStillSent(p) ==
    /\ troubles < MaxTroubles
    /\ troubles' = troubles + 1
    /\ link' = [link EXCEPT ![p] = "off"]
    /\ listened' = [listened EXCEPT ![p] = FALSE]
    /\ answers' = [answers EXCEPT ![p] = <<>>]
    /\ UNCHANGED applied

Disconnected(p) ==
    /\ troubles < MaxTroubles
    /\ troubles' = troubles + 1
    /\ link' = [link EXCEPT ![p] = "off"]
    /\ listened' = [listened EXCEPT ![p] = FALSE]
    /\ applied' = [applied EXCEPT ![p] = 0]
    /\ answers' = [answers EXCEPT ![p] = <<>>]

\* onDisconnect: answers under way are lost, held ones keep waiting.
Lose(p) ==
    /\ link[p] # "off"
    /\ Disconnected(p)
    /\ UNCHANGED <<stored, author, loaded, cache, puts, putsToAck, deletedMessageIds,
                   deletes, historyVars>>

\* The process ends; the conversation is opened again.
Kill(p) ==
    /\ Disconnected(p)
    /\ loaded' = [loaded EXCEPT ![p] = FALSE]
    /\ cache' = [cache EXCEPT ![p] = {}]
    /\ puts' = [puts EXCEPT ![p] = <<>>]
    /\ putsToAck' = [putsToAck EXCEPT ![p] = <<>>]
    /\ deletedMessageIds' = [deletedMessageIds EXCEPT ![p] = <<>>]
    /\ UNCHANGED <<stored, author, deletes, historyVars>>

----------------------------------------------------------------------------
(* The server. *)

RoomFor(p, n) == Len(answers[p]) + n <= MaxAnswers

ServerListen(p) ==
    /\ link[p] = "waiting"
    /\ ~listened[p]
    /\ RoomFor(p, 2)
    /\ listened' = [listened EXCEPT ![p] = TRUE]
    /\ answers' = [answers EXCEPT ![p] = @ \o <<Data(stored), Listening>>]
    /\ UNCHANGED <<stored, author, link, loaded, cache, puts, applied, putsToAck,
                   deletedMessageIds, boundVars, historyVars>>

\* The server applies or refuses p's next write, tells everyone who listens of
\* the change, and answers the write.
ServerWrite(p, ok) ==
    LET w == puts[p][applied[p] + 1]
        changed == IF w.op = "put" THEN stored \cup {w.id} ELSE stored \ {w.id}
        news(q) == IF listened[q] /\ stored' # stored THEN <<Data(stored')>> ELSE <<>>
    IN  /\ link[p] # "off"
        /\ applied[p] < Len(puts[p])
        /\ \A q \in Phones : RoomFor(q, IF q = p THEN 2 ELSE 1)
        /\ stored' = IF ok THEN changed ELSE stored
        /\ applied' = [applied EXCEPT ![p] = @ + 1]
        /\ answers' = [q \in Phones |->
                          answers[q] \o news(q) \o (IF q = p THEN <<Ack(ok)>> ELSE <<>>)]
        /\ removed' = IF ok /\ w.op = "remove" THEN removed \cup {w.id} ELSE removed
        /\ arrivals' = IF ok /\ w.op = "put" /\ arrivals[w.id] < 2
                       THEN [arrivals EXCEPT ![w.id] = @ + 1] ELSE arrivals
        /\ UNCHANGED <<author, link, listened, loaded, cache, puts, putsToAck,
                       deletedMessageIds, boundVars, confirmed, deleted, refused>>

----------------------------------------------------------------------------
(* What phone p receives. *)

FirstAnswer(p, k) == answers[p] # <<>> /\ Head(answers[p]).kind = k

\* The completions of the answered writes in A run.
Complete(p, A) ==
    /\ confirmed' = confirmed \cup {a.write.id : a \in {x \in A : x.ok /\ x.write.op = "put"}}
    /\ deleted' = [deleted EXCEPT ![p] =
                      @ \cup {a.write.id : a \in {x \in A : x.ok /\ x.write.op = "remove"}}]
    /\ refused' = refused \cup {a.write.id : a \in {x \in A : ~x.ok /\ x.write.op = "put"}}
    /\ UNCHANGED <<removed, arrivals>>

\* onDataUpdate.
DataArrives(p) ==
    /\ FirstAnswer(p, "data")
    /\ loaded' = [loaded EXCEPT ![p] = TRUE]
    /\ cache' = [cache EXCEPT ![p] = Head(answers[p]).snap]
    /\ answers' = [answers EXCEPT ![p] = Tail(@)]
    /\ UNCHANGED <<stored, author, link, listened, puts, applied, putsToAck,
                   deletedMessageIds, boundVars, historyVars>>

\* The listen's answer: ackPuts completes the writes that were held.
ListenAnswered(p) ==
    /\ FirstAnswer(p, "listening")
    /\ link' = [link EXCEPT ![p] = "on"]
    /\ Complete(p, ToSet(putsToAck[p]))
    /\ putsToAck' = [putsToAck EXCEPT ![p] = <<>>]
    /\ answers' = [answers EXCEPT ![p] = Tail(@)]
    /\ UNCHANGED <<stored, author, listened, loaded, cache, puts, applied, deletedMessageIds,
                   boundVars>>

NextAnswered(p) == [write |-> Head(puts[p]), ok |-> Head(answers[p]).ok]

Answer(p) ==
    /\ FirstAnswer(p, "ack")
    /\ puts' = [puts EXCEPT ![p] = Tail(@)]
    /\ applied' = [applied EXCEPT ![p] = @ - 1]
    /\ answers' = [answers EXCEPT ![p] = Tail(@)]
    /\ UNCHANGED <<stored, author, link, listened, loaded, cache, deletedMessageIds, boundVars>>

\* Mutants of WriteAnswered: it does not wait for the listen; it takes every
\* answer for a success.
WriteAnsweredAtOnce(p) ==
    /\ Answer(p)
    /\ Complete(p, {NextAnswered(p)})
    /\ UNCHANGED putsToAck

WriteAnsweredGladly(p) ==
    /\ Answer(p)
    /\ IF link[p] = "on"
       THEN Complete(p, {[NextAnswered(p) EXCEPT !.ok = TRUE]}) /\ UNCHANGED putsToAck
       ELSE /\ putsToAck' = [putsToAck EXCEPT ![p] = Append(@, NextAnswered(p))]
            /\ UNCHANGED historyVars

\* sendPut's callback: the write is not outstanding any more; its completion
\* runs now, or with the listen's answer.
WriteAnswered(p) ==
    /\ Answer(p)
    /\ IF link[p] = "on"
       THEN Complete(p, {NextAnswered(p)}) /\ UNCHANGED putsToAck
       ELSE /\ putsToAck' = [putsToAck EXCEPT ![p] = Append(@, NextAnswered(p))]
            /\ UNCHANGED historyVars

----------------------------------------------------------------------------
Next ==
    \E p \in Phones :
        \/ \E m \in Messages : Send(p, m) \/ LongPress(p, m)
        \/ Delete(p)
        \/ Connect(p) \/ Lose(p) \/ Kill(p)
        \/ ServerListen(p)
        \/ \E ok \in BOOLEAN : ServerWrite(p, ok)
        \/ DataArrives(p) \/ ListenAnswered(p) \/ WriteAnswered(p)

Spec == Init /\ [][Next]_vars

\* Phones reconnect, the server answers, and what it sends arrives.
Fairness ==
    \A p \in Phones :
        /\ WF_vars(Connect(p))
        /\ WF_vars(ServerListen(p))
        /\ WF_vars(\E ok \in BOOLEAN : ServerWrite(p, ok))
        /\ WF_vars(DataArrives(p) \/ ListenAnswered(p) \/ WriteAnswered(p))

FairSpec == Spec /\ Fairness

----------------------------------------------------------------------------
(* What messaging keeps true. *)

(***************************************************************************)
(* The completion of a send without an error ("Message has been sent to    *)
(* the user", ConversationViewController.swift:159) means that the message *)
(* is in the database, or was until somebody removed it, whatever was lost *)
(* and sent again before.                                                  *)
(***************************************************************************)
ConfirmedIsStored == confirmed \subseteq stored \cup removed

(***************************************************************************)
(* Lost connections, writes sent again (FPersistentConnection.m:1116) and  *)
(* answers held back (738) stay below the client: what a phone sees is a   *)
(* client whose writes form a queue that is answered from its front, each  *)
(* write once, and whose data never hold a message nobody has sent yet.    *)
(* This is all that the chat screen is verified over (Conversation).       *)
(***************************************************************************)
PhoneIsClient == OwnClient!ClientSpec

\* What a phone shows, it shows after the step, or the message was lost by it.
ShownUntilLost ==
    \A p \in Phones : \A m \in Views[p] :
        \/ m \in Views'[p]
        \/ m \in removed' \cup refused'
        \/ Delete(p)
        \/ Kill(p)

(***************************************************************************)
(* A message is shown from the moment it is sent, first from the phone's   *)
(* own writes, then from the server's data.  The change of source is never *)
(* seen: no message leaves a phone's snapshots, with connections lost at   *)
(* any time, unless somebody removes it, the server refuses it or the      *)
(* process ends.                                                           *)
(***************************************************************************)
EchoStays == [][ShownUntilLost]_vars

(***************************************************************************)
(* A removal that was confirmed (APIManager.swift:396-400) is final for    *)
(* the phone's own messages, for a message and its removal are sent again  *)
(* in order.  Another phone's message comes back only when its sender has  *)
(* lost the first confirmation and stores it a second time.                *)
(***************************************************************************)
DeletedStaysDeleted ==
    \A p \in Phones : \A m \in deleted[p] \cap stored :
        author[m] # p /\ arrivals[m] > 1

(***************************************************************************)
(* Connections are lost at any time, and what the server sent on the old   *)
(* one with them; the phone listens anew (FPersistentConnection.m:1116).   *)
(* A phone whose connection holds and that has nothing more to receive or  *)
(* to send shows exactly what the database has: no change is lost for      *)
(* good, and no message is shown on the word of a write that went astray.  *)
(***************************************************************************)
RestingPhonesAgree ==
    \A p \in Phones :
        (link[p] = "on" /\ answers[p] = <<>> /\ puts[p] = <<>>) => Shown(p) = stored

(***************************************************************************)
(* Real-time messaging (README.md:10): once connections hold and nobody    *)
(* writes, every phone shows the messages that the database has.           *)
(***************************************************************************)
PhonesAgree == \A p \in Phones : Shown(p) = stored

Convergence == <>[]PhonesAgree
=============================================================================
