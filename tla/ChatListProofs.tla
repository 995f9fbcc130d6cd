--------------------------- MODULE ChatListProofs ---------------------------
(***************************************************************************)
(* What ChatList keeps true for any users, any number of lists and any     *)
(* number of changes of the network and the account.                       *)
(***************************************************************************)
EXTENDS ChatList, TLAPS

(***************************************************************************)
(* Rows, requests and the rows of Core Data keep their types; a list has   *)
(* rows only after fetchLastMessages was answered or the phone was offline.*)
(***************************************************************************)
THEOREM TypeCorrect == Spec => []TypeOK
<1>1. Init => TypeOK
  BY MaxChangesAssumption DEF Init, TypeOK, Stages
<1>2. TypeOK /\ [Next]_vars => TypeOK'
  <2> SUFFICES ASSUME TypeOK, [Next]_vars PROVE TypeOK'
    OBVIOUS
  <2> USE MaxChangesAssumption DEF TypeOK, Stages, worldVars, listVars
  <2>1. ASSUME NEW u \in Users, Register(u) PROVE TypeOK'
    BY <2>1 DEF Register
  <2>2. ASSUME NEW u \in Users \cup {Nobody}, SwitchAccount(u) PROVE TypeOK'
    BY <2>2 DEF SwitchAccount
  <2>3. CASE SwitchNetwork
    BY <2>3 DEF SwitchNetwork
  <2>4. CASE Kill
    BY <2>4 DEF Kill
  <2>5. ASSUME NEW s \in Lists, OpenOffline(s) PROVE TypeOK'
    BY <2>5 DEF OpenOffline, Saved
  <2>6. ASSUME NEW s \in Lists, OpenOnline(s) PROVE TypeOK'
    BY <2>6 DEF OpenOnline
  <2>7. ASSUME NEW s \in Lists, UsersRead(s) PROVE TypeOK'
    BY <2>7 DEF UsersRead
  <2>8. ASSUME NEW s \in Lists, ReadRefused(s) PROVE TypeOK'
    BY <2>8 DEF ReadRefused, Waiting
  <2>9. ASSUME NEW s \in Lists, MessagesRead(s) PROVE TypeOK'
    BY <2>9 DEF MessagesRead, Append
  <2>10. ASSUME NEW s \in Lists, Close(s) PROVE TypeOK'
    BY <2>10 DEF Close
  <2>11. CASE UNCHANGED vars
    BY <2>11 DEF vars
  <2>12. QED
    BY <2>1, <2>2, <2>3, <2>4, <2>5, <2>6, <2>7, <2>8, <2>9, <2>10, <2>11 DEF Next
<1>3. QED
  BY <1>1, <1>2, PTL DEF Spec

(***************************************************************************)
(* Nobody is saved twice, for appendUserData looks and saves in one block  *)
(* of the main queue.                                                      *)
(***************************************************************************)
THEOREM NobodySavedTwice == Spec => []SavedOnce
<1>1. Init => SavedOnce
  <2> SUFFICES ASSUME Init, NEW u \in Users PROVE saved[u] <= 1
    BY DEF SavedOnce
  <2>1. saved[u] = 0
    BY DEF Init
  <2>2. QED
    BY <2>1
<1>2. TypeOK /\ SavedOnce /\ [Next]_vars => SavedOnce'
  <2> SUFFICES ASSUME TypeOK, SavedOnce, [Next]_vars PROVE SavedOnce'
    OBVIOUS
  <2>1. ASSUME NEW s \in Lists, MessagesRead(s) PROVE SavedOnce'
    BY <2>1 DEF MessagesRead, Append, Saved, SavedOnce, TypeOK
  <2>2. CASE UNCHANGED saved
    BY <2>2 DEF SavedOnce
  <2>3. QED
    BY <2>1, <2>2 DEF Next, vars, worldVars, listVars, Register, SwitchAccount, SwitchNetwork, Kill,
       OpenOffline, OpenOnline, UsersRead, ReadRefused, Close
<1>3. QED
  BY <1>1, <1>2, TypeCorrect, PTL DEF Spec

\* What lists have shown online is in Core Data.
SeenIsSaved == seen \subseteq Saved

\* SeenIsSaved is kept: rows of Core Data are only added, and the people of a
\* list are among them when it shows them.
LEMMA SeenStaysSaved == TypeOK /\ SeenIsSaved /\ [Next]_vars => SeenIsSaved'
<1> SUFFICES ASSUME TypeOK, SeenIsSaved, [Next]_vars PROVE SeenIsSaved'
  OBVIOUS
<1>1. ASSUME NEW s \in Lists, MessagesRead(s) PROVE SeenIsSaved'
  <2>1. \A u \in Users : saved'[u] = IF u \in data[s] /\ u \notin Saved THEN saved[u] + 1 ELSE saved[u]
    BY <1>1 DEF MessagesRead, Append
  <2>2. \A u \in Users : saved[u] \in Nat
    BY DEF TypeOK
  <2>3. \A u \in Saved \cup data[s] : u \in Users /\ saved'[u] > 0
    BY <2>1, <2>2 DEF Saved, TypeOK
  <2>4. Saved \cup data[s] \subseteq Saved'
    BY <2>3 DEF Saved
  <2>5. QED
    BY <1>1, <2>4 DEF MessagesRead, SeenIsSaved
<1>2. CASE UNCHANGED <<saved, seen>>
  BY <1>2 DEF SeenIsSaved, Saved
<1>3. QED
  BY <1>1, <1>2 DEF Next, vars, worldVars, listVars, Register, SwitchAccount, SwitchNetwork, Kill,
     OpenOffline, OpenOnline, UsersRead, ReadRefused, Close

(***************************************************************************)
(* An offline list has everybody that was ever shown online on this phone, *)
(* except the user: they have been saved, and nothing removes them.        *)
(***************************************************************************)
THEOREM OfflineListsAreComplete == Spec => OfflineKnowsAll
<1>1. Init => SeenIsSaved
  BY DEF Init, SeenIsSaved
<1>2. TypeOK /\ SeenIsSaved /\ [Next]_vars =>
        [\A s \in Lists : OpenOffline(s) => seen \ {currentUser} \subseteq userListData'[s]]_vars
  <2> SUFFICES ASSUME TypeOK, SeenIsSaved, NEW s \in Lists, OpenOffline(s)
               PROVE seen \ {currentUser} \subseteq userListData'[s]
    OBVIOUS
  <2>1. userListData'[s] = Saved \ {currentUser}
    BY DEF OpenOffline, TypeOK
  <2>2. QED
    BY <2>1 DEF SeenIsSaved
<1>3. QED
  BY <1>1, <1>2, SeenStaysSaved, TypeCorrect, PTL DEF Spec, OfflineKnowsAll

----------------------------------------------------------------------------
\* The rows of a list are fixed when its people are read, so ListsOthers says
\* the same of the people whose last messages are on their way.
OthersInv ==
    \A s \in current :
        /\ currentUser \notin userListData[s]
        /\ stage[s] = "messages" => currentUser \notin data[s]

\* Every step keeps OthersInv; a change of the account empties current.
LEMMA OthersStep == TypeOK /\ OthersInv /\ [Next]_vars => OthersInv'
<1> SUFFICES ASSUME TypeOK, OthersInv, [Next]_vars PROVE OthersInv'
  OBVIOUS
<1> USE DEF OthersInv, TypeOK, worldVars, listVars
<1>1. ASSUME NEW u \in Users, Register(u) PROVE OthersInv'
  BY <1>1 DEF Register
<1>2. ASSUME NEW u \in Users \cup {Nobody}, SwitchAccount(u) PROVE OthersInv'
  BY <1>2 DEF SwitchAccount
<1>3. CASE SwitchNetwork
  BY <1>3 DEF SwitchNetwork
<1>4. CASE Kill
  BY <1>4 DEF Kill
<1>5. ASSUME NEW s \in Lists, OpenOffline(s) PROVE OthersInv'
  BY <1>5 DEF OpenOffline
<1>6. ASSUME NEW s \in Lists, OpenOnline(s) PROVE OthersInv'
  BY <1>6 DEF OpenOnline
<1>7. ASSUME NEW s \in Lists, UsersRead(s) PROVE OthersInv'
  BY <1>7 DEF UsersRead
<1>8. ASSUME NEW s \in Lists, ReadRefused(s) PROVE OthersInv'
  BY <1>8 DEF ReadRefused
<1>9. ASSUME NEW s \in Lists, MessagesRead(s) PROVE OthersInv'
  BY <1>9 DEF MessagesRead
<1>10. ASSUME NEW s \in Lists, Close(s) PROVE OthersInv'
  BY <1>10 DEF Close
<1>11. CASE UNCHANGED vars
  BY <1>11 DEF vars
<1>12. QED
  BY <1>1, <1>2, <1>3, <1>4, <1>5, <1>6, <1>7, <1>8, <1>9, <1>10, <1>11 DEF Next

(***************************************************************************)
(* While the account does not change no list has the user among its rows,  *)
(* however its requests are delayed.                                       *)
(***************************************************************************)
THEOREM ListsNeverOfferTheUser == Spec => []ListsOthers
<1>1. Init => OthersInv
  BY DEF Init, OthersInv
<1>2. OthersInv => ListsOthers
  BY DEF OthersInv, ListsOthers
<1>3. QED
  BY <1>1, <1>2, OthersStep, TypeCorrect, PTL DEF Spec
=============================================================================
