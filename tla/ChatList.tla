------------------------------ MODULE ChatList ------------------------------
(***************************************************************************)
(* The list of people to chat with (ChatListViewController), the requests  *)
(* that fill it, and the users saved in Core Data (PersistenceStorage) for *)
(* the times when the phone is offline.                                    *)
(*                                                                         *)
(* A list looks once whether the network is reachable.  If not, it shows   *)
(* the saved users.  Otherwise it asks for all profiles, then for the last *)
(* messages, and shows and saves the people when both have been answered.  *)
(* Several lists can be open, and between two steps the network may change *)
(* and another account may sign in.                                        *)
(*                                                                         *)
(* An account stands for its e-mail address, too, as in Account.  The last *)
(* messages themselves are left out: they are set together with the rows.  *)
(* A failing Core Data store ends the app and is not modelled; neither is  *)
(* a profile that cannot be decoded, which the app does not write.         *)
(***************************************************************************)
EXTENDS Naturals

CONSTANTS
    Users,           \* accounts
    Nobody,          \* nobody is signed in
    Lists,           \* bound: how often a chat list is opened
    MaxChanges       \* bound: changes of the network or of the account

ASSUME NobodyAssumption == Nobody \notin Users
ASSUME MaxChangesAssumption == MaxChanges \in Nat

VARIABLES
    profiles,        \* Realtime Database, "users"
    saved,           \* Core Data: saved[u] rows for u
    currentUser,     \* Auth.auth().currentUser
    reachable,       \* the network
    stage,           \* stage[s]: how far the list s is
    data,            \* data[s]: the people read for s
    userListData,    \* userListData[s]: the rows of s
    changes,         \* changes of the network or of the account so far
    seen,            \* history: people that lists on this phone have shown online
    current          \* history: lists whose people were read for the present account

worldVars == <<profiles, currentUser, reachable>>
listVars == <<stage, data, userListData>>
vars == <<worldVars, saved, listVars, changes, seen, current>>

Stages == {"unused", "users", "messages", "shown", "stuck", "closed"}

TypeOK ==
    /\ profiles \subseteq Users
    /\ saved \in [Users -> Nat]
    /\ currentUser \in Users \cup {Nobody}
    /\ reachable \in BOOLEAN
    /\ stage \in [Lists -> Stages]
    /\ data \in [Lists -> SUBSET Users]
    /\ userListData \in [Lists -> SUBSET Users]
    /\ \A s \in Lists : stage[s] # "shown" => userListData[s] = {}
    /\ changes \in 0..MaxChanges
    /\ seen \subseteq Users
    /\ current \subseteq Lists

\* A new installation.
Init ==
    /\ profiles \in SUBSET Users
    /\ saved = [u \in Users |-> 0]
    /\ currentUser \in Users \cup {Nobody}
    /\ reachable \in BOOLEAN
    /\ stage = [s \in Lists |-> "unused"]
    /\ data = [s \in Lists |-> {}]
    /\ userListData = [s \in Lists |-> {}]
    /\ changes = 0
    /\ seen = {}
    /\ current = {}

Saved == {u \in Users : saved[u] > 0}

\* A request of s is under way.
Waiting(s) == stage[s] \in {"users", "messages"}

----------------------------------------------------------------------------
(* What happens outside the list. *)

\* addUser, on any phone.
Register(u) ==
    /\ u \notin profiles
    /\ profiles' = profiles \cup {u}
    /\ UNCHANGED <<currentUser, reachable, saved, listVars, changes, seen, current>>

\* A sign-up or log-in is answered, or Auth signs the user out.  The screens
\* of the account before stay where they are.
SwitchAccount(u) ==
    /\ u # currentUser
    /\ changes < MaxChanges
    /\ changes' = changes + 1
    /\ currentUser' = u
    /\ current' = {}
    /\ UNCHANGED <<profiles, reachable, saved, listVars, seen>>

SwitchNetwork ==
    /\ changes < MaxChanges
    /\ changes' = changes + 1
    /\ reachable' = ~reachable
    /\ UNCHANGED <<profiles, currentUser, saved, listVars, seen, current>>

\* The process ends: all lists are gone, Core Data and Auth's user are not.
Kill ==
    /\ stage' = [s \in Lists |-> IF stage[s] = "unused" THEN "unused" ELSE "closed"]
    /\ stage' # stage
    /\ userListData' = [s \in Lists |-> {}]
    /\ UNCHANGED <<worldVars, saved, data, changes, seen, current>>

----------------------------------------------------------------------------
(* The chat list. *)

\* fetchAllData without a network: everybody saved but the user.
OpenOffline(s) ==
    /\ stage[s] = "unused"
    /\ ~reachable
    /\ stage' = [stage EXCEPT ![s] = "shown"]
    /\ userListData' = [userListData EXCEPT ![s] = Saved \ {currentUser}]
    /\ current' = current \cup {s}
    /\ UNCHANGED <<worldVars, saved, data, changes, seen>>

\* fetchAllData with a network: ask for the profiles.
OpenOnline(s) ==
    /\ stage[s] = "unused"
    /\ reachable
    /\ stage' = [stage EXCEPT ![s] = "users"]
    /\ UNCHANGED <<worldVars, saved, data, userListData, changes, seen, current>>

\* Mutants of UsersRead: the user is left in; with nobody to list the messages
\* are not asked for; the rows are set before the messages are there.
UsersReadUnfiltered(s) ==
    /\ stage[s] = "users"
    /\ reachable
    /\ data' = [data EXCEPT ![s] = profiles]
    /\ stage' = [stage EXCEPT ![s] = IF currentUser = Nobody THEN "stuck" ELSE "messages"]
    /\ current' = current \cup {s}
    /\ UNCHANGED <<worldVars, saved, userListData, changes, seen>>

UsersReadIfAny(s) == profiles \ {currentUser} # {} /\ UsersReadUnfiltered(s)

UsersReadAtOnce(s) ==
    /\ stage[s] = "users"
    /\ reachable
    /\ data' = [data EXCEPT ![s] = profiles \ {currentUser}]
    /\ userListData' = [userListData EXCEPT ![s] = data'[s]]
    /\ stage' = [stage EXCEPT ![s] = IF currentUser = Nobody THEN "stuck" ELSE "messages"]
    /\ current' = current \cup {s}
    /\ UNCHANGED <<worldVars, saved, changes, seen>>

\* fetchUsers is answered: everybody but the user of this moment, for whom the
\* last messages are asked for; with nobody signed in that request is not made.
UsersRead(s) ==
    /\ stage[s] = "users"
    /\ reachable
    /\ data' = [data EXCEPT ![s] = profiles \ {currentUser}]
    /\ stage' = [stage EXCEPT ![s] = IF currentUser = Nobody THEN "stuck" ELSE "messages"]
    /\ current' = current \cup {s}
    /\ UNCHANGED <<worldVars, saved, userListData, changes, seen>>

\* A read that the database's rules refuse has no completion.
ReadRefused(s) ==
    /\ Waiting(s)
    /\ reachable
    /\ stage' = [stage EXCEPT ![s] = "stuck"]
    /\ UNCHANGED <<worldVars, saved, data, userListData, changes, seen, current>>

\* Mutants of Append: users are saved without a look at what is there; only an
\* empty store is filled.
AppendAlways(people) == [u \in Users |-> IF u \in people THEN saved[u] + 1 ELSE saved[u]]

AppendToEmpty(people) ==
    [u \in Users |-> IF u \in people /\ Saved = {} THEN saved[u] + 1 ELSE saved[u]]

\* appendUserData: each of them that no row has the e-mail address of.
Append(people) ==
    [u \in Users |-> IF u \in people /\ u \notin Saved THEN saved[u] + 1 ELSE saved[u]]

\* fetchLastMessages is answered; without a network this takes an observer that
\* a chat screen has left behind, whose data the client keeps.
MessagesRead(s) ==
    /\ stage[s] = "messages"
    /\ stage' = [stage EXCEPT ![s] = "shown"]
    /\ userListData' = [userListData EXCEPT ![s] = data[s]]
    /\ saved' = Append(data[s])
    /\ seen' = seen \cup data[s]
    /\ UNCHANGED <<worldVars, data, changes, current>>

\* The back button.  The completions hold the list weakly.
Close(s) ==
    /\ stage[s] \in {"users", "messages", "shown", "stuck"}
    /\ stage' = [stage EXCEPT ![s] = "closed"]
    /\ userListData' = [userListData EXCEPT ![s] = {}]
    /\ UNCHANGED <<worldVars, saved, data, changes, seen, current>>

----------------------------------------------------------------------------
Next ==
    \/ \E u \in Users : Register(u)
    \/ \E u \in Users \cup {Nobody} : SwitchAccount(u)
    \/ SwitchNetwork
    \/ Kill
    \/ \E s \in Lists :
          \/ OpenOffline(s) \/ OpenOnline(s)
          \/ UsersRead(s) \/ ReadRefused(s) \/ MessagesRead(s)
          \/ Close(s)

Spec == Init /\ [][Next]_vars

\* Requests are answered while there is a network.
Fairness ==
    \A s \in Lists : WF_vars(UsersRead(s)) /\ WF_vars(reachable /\ MessagesRead(s))

FairSpec == Spec /\ Fairness

----------------------------------------------------------------------------
(* What the chat list keeps true. *)

(***************************************************************************)
(* Nobody is saved twice (ChatListViewController.swift:89), although lists *)
(* overlap, accounts change and the app is killed between two loads.       *)
(***************************************************************************)
SavedOnce == \A u \in Users : saved[u] <= 1

(***************************************************************************)
(* An offline list has everybody whom a list on this phone has shown       *)
(* online, to whichever account and before however many restarts, except   *)
(* the user (ChatListViewController.swift:105-113).                        *)
(***************************************************************************)
OfflineKnowsAll ==
    [][\A s \in Lists : OpenOffline(s) => seen \ {currentUser} \subseteq userListData'[s]]_vars

(***************************************************************************)
(* No list offers the user a conversation with himself, unless the account *)
(* has changed since its people were read: both loads leave the user out   *)
(* who is signed in at that moment (lines 109, and APIManager.swift:79).   *)
(***************************************************************************)
ListsOthers == \A s \in current : currentUser \notin userListData[s]

(***************************************************************************)
(* A list is not left waiting once the network has come back for good      *)
(* (README.md:10): whatever came between its two requests, it is filled,   *)
(* closed, or stuck because a read was refused or nobody was signed in.    *)
(***************************************************************************)
ListFills == <>[]reachable => \A s \in Lists : Waiting(s) ~> ~Waiting(s)
=============================================================================
