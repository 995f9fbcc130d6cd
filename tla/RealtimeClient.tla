--------------------------- MODULE RealtimeClient ---------------------------
(***************************************************************************)
(* The part of the Firebase Realtime Database client that the chat screens *)
(* rely on: the messages of one conversation as the phone sees them.  The  *)
(* client keeps the last data the server sent it and, over it, the writes  *)
(* of this phone that the server has not acknowledged; a snapshot is the   *)
(* two together, so a message is visible locally before it is stored.      *)
(* What the server and the other users do is the environment.              *)
(*                                                                         *)
(* ClientSpec is what a screen may expect of the client over any network:  *)
(* connections, resending and answers held back are below it (Delivery),   *)
(* the screen's queues above it (Conversation).                            *)
(***************************************************************************)
EXTENDS Naturals, Sequences

CONSTANT Messages    \* message identifiers (childByAutoId keys)

VARIABLES
    server,          \* messages of the conversation in the client's copy of the server data
    puts,            \* outstandingPuts: this phone's unacknowledged writes, oldest first
    unused           \* identifiers no childByAutoId has returned yet

clientVars == <<server, puts, unused>>

Writes == [op : {"put", "remove"}, id : Messages]

ClientTypeOK ==
    /\ server \subseteq Messages
    /\ puts \in Seq(Writes)
    /\ unused \subseteq Messages

ClientInit ==
    /\ server \in SUBSET Messages
    /\ puts = <<>>
    /\ unused = Messages \ server

\* The last unacknowledged write about m is the one at i.
LastWrite(m, i) ==
    /\ puts[i].id = m
    /\ \A j \in (i + 1)..Len(puts) : puts[j].id # m

\* The server data with the unacknowledged writes applied over it.
View ==
    {m \in Messages :
        \/ m \in server /\ \A i \in 1..Len(puts) : puts[i].id # m
        \/ \E i \in 1..Len(puts) : LastWrite(m, i) /\ puts[i].op = "put"}

----------------------------------------------------------------------------
\* set:/update: record the write over the cached data and send it.
Write(w) ==
    /\ puts' = Append(puts, w)
    /\ unused' = unused \ {w.id}
    /\ UNCHANGED server

\* onDataUpdate: the conversation as the server has it now, with messages that
\* other phones stored under identifiers of their own.
Update(S) ==
    /\ server' = S
    /\ unused' = unused \ S
    /\ UNCHANGED puts

\* ackWrite for the n oldest writes: the server has stored or refused each, and
\* has sent the data that came of it before.
Answered(n) ==
    /\ puts' = SubSeq(puts, n + 1, Len(puts))
    /\ UNCHANGED <<server, unused>>

----------------------------------------------------------------------------
(* What a screen may expect. *)

\* Writes made together; a message has a fresh identifier.
WriteTogether ==
    /\ \E n \in 0..Len(puts') : puts = SubSeq(puts', 1, n)
    /\ \A i \in (Len(puts) + 1)..Len(puts') :
          puts'[i].op = "put" => puts'[i].id \in unused \ unused'
    /\ unused' \subseteq unused
    /\ UNCHANGED server

\* The process ends and starts again: cache and writes live in memory.
Restart ==
    /\ server' = {}
    /\ puts' = <<>>
    /\ UNCHANGED unused

\* Another phone takes identifiers.
TakenElsewhere ==
    /\ unused' \subseteq unused
    /\ UNCHANGED <<server, puts>>

ClientNext ==
    \/ WriteTogether
    \/ \E S \in SUBSET Messages : Update(S)
    \/ \E n \in 1..Len(puts) : Answered(n)
    \/ Restart
    \/ TakenElsewhere

ClientSpec == ClientInit /\ [][ClientNext]_clientVars
=============================================================================
