-------------------------- MODULE CalmConversation --------------------------
(***************************************************************************)
(* The chat screen when the conversations change slowly: no change is      *)
(* noticed while the refresh for an earlier one is on its way.  Nothing in *)
(* the code enforces this; the module shows that it is all the screen      *)
(* needs, that is, overlapping refreshes are the only source of the        *)
(* doubled messages that Conversation's behaviours contain.                *)
(***************************************************************************)
EXTENDS Conversation

CalmNext == Next /\ (EventRaised => ~Refreshing /\ ~EventWaiting)

CalmSpec == Init /\ [][CalmNext]_vars

(***************************************************************************)
(* getAllConversations appends to the data (line 144) and relies on the    *)
(* observer having emptied it (line 109).  Without overlapping refreshes   *)
(* no message is listed twice.                                             *)
(***************************************************************************)
NoMessageListedTwice ==
    \A i, j \in 1..Len(conversationData) :
        conversationData[i] = conversationData[j] => i = j

(***************************************************************************)
(* Without overlapping refreshes the event, fetch and append steps         *)
(* (lines 108-113, 141-149) implement the abstract screen: the list goes   *)
(* from empty to the whole current conversation in one step.               *)
(***************************************************************************)
Board == INSTANCE MessageBoard WITH board <- View, shown <- conversationData

ImplementsBoard == Board!BoardSpec
=============================================================================
