----------------------------- MODULE SupportChat -----------------------------
(***************************************************************************)
(* The support screen (SupportChatViewController) up to the message that   *)
(* it sends to the "Admin Bot": seven queries to choose from, a text view  *)
(* and a send button.  The text view's delegate refuses every edit, so its *)
(* text is the storyboard's placeholder for as long as the screen lives.   *)
(*                                                                         *)
(* Left out: the rows of the table, which are constants, and the back      *)
(* button's animation.                                                     *)
(***************************************************************************)
CONSTANTS
    Users,           \* accounts that sign in on this phone
    Nobody,          \* no account; DatabaseManager.currentUserId is ""
    Queries,         \* the queries of QueryTableViewCell
    LastQuery,       \* the seventh one, which the screen ignores
    Placeholder,     \* the text of the storyboard's text view
    NoText,          \* ""
    Closed           \* in place of a user: the screen is not there

ASSUME SupportAssumption ==
    /\ Nobody \notin Users /\ Closed \notin Users \cup {Nobody}
    /\ Placeholder # NoText /\ NoText \notin Queries

VARIABLES
    supportUser,     \* currentUserId: who was signed in when the screen was made
    query            \* message: the query chosen last

supportVars == <<supportUser, query>>

SupportTypeOK ==
    /\ supportUser \in Users \cup {Nobody, Closed}
    /\ query \in Queries \cup {NoText}

SupportInit == supportUser = Closed /\ query = NoText

\* onClickChatAction: the property's initialiser asks for the user once.
OpenSupport(user) ==
    /\ supportUser = Closed
    /\ supportUser' = user
    /\ query' = NoText

\* queryTappedGesture: the switch has no case for the seventh query.
ChooseQuery(q) ==
    /\ supportUser # Closed
    /\ query' = IF q = LastQuery THEN query ELSE q
    /\ UNCHANGED supportUser

CloseSupport ==
    /\ supportUser # Closed
    /\ supportUser' = Closed
    /\ query' = NoText

\* shouldChangeTextIn answers false to every edit.
typeQueryTxtField == Placeholder

\* The send button shows an alert, and sends nothing, for an empty text.
CanSendQuery == supportUser # Closed /\ typeQueryTxtField # NoText

\* onClickSendButtonAction's choice between the query and the text.
QueryToSend ==
    CASE query # NoText /\ typeQueryTxtField = NoText -> query
      [] query = NoText /\ typeQueryTxtField # NoText -> typeQueryTxtField
      [] OTHER -> NoText
=============================================================================
