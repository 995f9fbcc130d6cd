# Specifications of learn_code

learn_code is an iOS chat app (Swift, UIKit) over Firebase: Authentication, Realtime
Database and Storage. Almost everything it does is a *completion*: a closure that runs
when a request has been answered, on the main queue, long after the touch that asked
for it. No screen waits for an answer, disables a button or cancels a request, so the
order of touches, completions and remote changes is what decides whether the app is
correct. The app's own tests are empty templates, and nearly all the files of
the repository are third-party pods (Firebase, gRPC, BoringSSL and what they need). These TLA+ modules state what the
app keeps true in every order; TLC checks them on small instances and TLAPS proves the
most important of them for all.

Paths below are relative to `src/learn_code/learn_code/`; `APIManager.swift` is
`API Manager/APIManager.swift`.

## Inventory

| component | state | operations | hard behaviour |
| --- | --- | --- | --- |
| Chat screen (`ConversationViewController`, `MessageManager` in `APIManager.swift:219-404`) | `conversationData`, what the table believes, `deletedMessageIds`, the text field | observe, refresh, draw, send, long press, delete | refreshes overlap; data changes under the table; completions after touches |
| Realtime Database client (pod) | server data cached, unacknowledged writes | set, update, remove, listen, single event, acknowledge, revert | local echo, two queues, resending after reconnection |
| Sign-up, log-in, log-out, launch (`Controller/Login Registration`, `DatabaseManager.addUser`, `SceneDelegate`) | Auth's user, remembered e-mail, the screen, three servers | create account, upload picture, save profile, sign in, open dashboard | chains of requests cut short; overlapping attempts; process death |
| Home tabs (`HomeViewController`) | remembered e-mail, posts | remember the user, fetch posts | writes the e-mail at other moments than Auth changes |
| Post editor and feed (`PostViewController`, `FeedViewController`) | picked picture, preview, editor on top, posts shown | pick, cancel, post, back, refresh | completion pops a screen the user left; refreshes overlap |
| Post upload and fetch (`uploadPost`, `fetchUserPosts`) | Storage, "posts" | put picture, link it, store post, read posts | partial failure between picture and post |
| Chat list (`ChatListViewController`) | users, last messages | load online, load offline, save | two requests in a row while account and network change |
| Core Data cache (`PersistenceStorage`) | saved users | save, list, look up by e-mail | never updated, not tied to an account |
| Reachability (`Reachability.swift`) | none | look at the network | its answer is out of date at once |
| Support chat (`SupportChatViewController`) | the user, the query chosen, the text view | choose, send | writes to the chats' data in the name of an earlier user |
| Push notifications, profile, cells | little or none | | |

Components talk through calls with completions; they share Auth's current user, the
remembered e-mail (`UserDefaults`), Core Data and the Firebase servers. What each part
must keep true is in the table under [Runs](#runs); every hazard we know, with its line,
is in `PROJECT.json`.

## Modules

### `RealtimeClient`: the database client

`server` is the client's copy of one conversation, `puts` the writes that the server has
not answered, and `View` what a snapshot shows: the writes over the copy. `Write`,
`Update` and `Answered` are `FRepo`'s `set:`/`update:`, `onDataUpdate` and `ackWrite`;
`unused` are the identifiers that `childByAutoId` has not returned yet, here or on
another phone. `ClientSpec` is what a screen may expect of the client over any network:
writes are added in order and with fresh identifiers (`WriteTogether`), answered oldest
first, lost only when the process ends (`Restart`), and identifiers are taken elsewhere
(`TakenElsewhere`). `Conversation` and `ChatSession` are built on these operations;
`Delivery` is below them and implements `ClientSpec`. The pods are under `src/`, so the
definitions are mapped to the client's own source, reduced to what the app can see.

### `Conversation`: the chat screen

Two serial queues run everything, as in the program: `mainQueue` (UIKit and all
completions) and `dbQueue` (`FIRDatabaseQuery.sharedQueue`). A change of the data
becomes an `event`; its handler empties `conversationData` and queues `getAll`; that asks
the client for a single event, whose `fetched` closure appends the messages and queues
`reload`; after the reload the table asks for cells at the next layout pass. One action
per closure (`RunEvent`, `RunGetAll`, `RunFetched`, `RunReload`), one per touch (`Send`,
`LongPress`, `Delete`), `Layout` and `Scroll` for `cellForRowAt`, and `DbObserve*`,
`DbFetch`, `DbWrite`, `FirstData` for the client. `cells[i]` is what row i shows,
`NoMessage` before it has a cell or when its cell is blank, which is what `cellForRowAt`
returns with nobody signed in; a long press may hit any row. A subscript that is out of range sets `crashed`, after
which nothing happens. The observer is on *all* conversations, hence
`OtherConversationChanges`. An earlier visit of the screen leaves its observer behind,
hence the warm and the cold way to start.

`CalmConversation` restricts it: no change is noticed while a refresh is on its way.
`MessageBoard` is the abstract screen: a list that is cleared, and filled in one step
with the whole conversation in order of time.

### `Delivery`: several phones, one server

The same conversation seen from outside the screen: phones, the database and the
connections between them. It instantiates `RealtimeClient` once for each phone, so that
`Shown(p)` is the client's `View` with `p`'s cache and `p`'s outstanding writes
(`Pending`): those in `puts[p]`, and those in `putsToAck[p]` that have been answered but
whose completion waits. `Send`, `LongPress`, `Delete` are the app's; `Connect`
(`restoreState`: listen again, send every outstanding write again, in order), `Lose`
(`onDisconnect`), `DataArrives`, `ListenAnswered` (`ackPuts`) and `WriteAnswered`
(`sendPut`'s callback) the client's. `Kill` ends the process, whose writes live in
memory. `ServerListen` and `ServerWrite` are the server, which is not in the repository:
it handles a connection's writes in order, may refuse any of them, sends each change
before it answers the write that made it, and may answer the request to listen later
than writes sent after it. Requests are not queued: `applied[p]` says how many of
`puts[p]` the present connection has had handled, `answers[p]` holds what is on its way
back. The histories `confirmed`,
`deleted`, `removed`, `refused` and `arrivals` serve the properties only.

`PhoneIsClient` is the refinement that joins the layers: the phone `Own`, which may be any
of them, is a `RealtimeClient` with its cache for `server` and `Pending(Own)` for `puts`.
Connecting, losing a connection, sending again and holding answers back are invisible
there. What makes it hard is that answers may overtake the listen's answer: an answered
write must stay outstanding until the data that contain it have arrived.

### `ChatSession`: several chats, several users

`Conversation` is one screen in detail; `ChatSession` is what happens between screens.
A chat that is closed is popped but never gone: the closure given to
`observeConversations` holds the screen and nobody removes the observer, so it empties
and refills itself at every change, with whoever is signed in by then. Screens are
numbered in the order in which they are opened; `listeners` are those whose observers
are registered. The refresh takes the same closures as in `Conversation` (`RunEvent`,
`RunGetAll`, `RunFetched`, without the table), `RunSent` is `handleSendMessage`'s
completion, which clears the text field, and every step asks for `currentUser` where the
code does. A message is written under a path, the set of its two users, which stands for
the sorted, joined identifier; `message[m]` remembers it with the text and the screen.
`AccountChanges` is a sign-up or log-in that is answered, or an account that Auth drops, at
any moment (`Account` has how that comes about). `Init` is the dashboard with any
`FirstUser`, nobody included. Two histories serve the properties: `seenBy[c]`, who was
signed in during the life of screen c, and `given[c]`, the messages that answers have
brought to it, each with the path that the screen asked for.

`deletedMessageIds` is only ever appended to. `DeletesWhatWasGiven` is about what that may
lead to: recorded identifiers survive refreshes, deletions and changes of account, and
`Delete` sends whatever is there under the path of who presses. That path alone does not
make this harmless: if the filter of the single event let through messages of another user
(`DbFetchOfPartner`), the screen would list them and the next user could delete what he
was never given. The property therefore relates a deletion to the answers that the screen
has had, for whom it asked, and who presses in the end.

### `SupportChat`: the support screen

The query chosen last, the text view, whose delegate refuses every edit and which
therefore shows the storyboard's placeholder for ever, and `onClickSendButtonAction`'s
choice between the two (`QueryToSend`). `ChatSession` extends it: `SendQuery` writes what
it chooses to the database the chats observe, in the name of who was signed in when the
screen was made.

### `Account`: sign-up, log-in, launch, log-out

`attempt[r]` is one press of a sign-up or log-in button, the address typed in and how far
it has come; several run at once. The stages follow `addUser`: `creating` (request under
way), `created` (answer on its way), `uploading`, `uploaded`, `saving`, `saved`, `ended`.
The server's effect and the completion are separate actions, so a kill or a lost answer
can fall between them. `currentUser` is Auth's; it survives the process, as does
`userEmail`; `screen`, queued completions and attempts do not (`LoseCompletions`).
Log-ins are answered through `answers`, the main queue, because Auth sets its user before
the completion runs. `Launch` follows the commented-out lines of `SceneDelegate`: the
live ones open `GreetingView`, a class that is not in the repository.

### `Posts`: editor, upload and feed

`press[p]` is one press of Post: its editor, whether a picture was picked, whether the
preview was visible, and the upload's stage. `editor` is the editor on top of the feed,
if any; popping it (`Pop`) makes the feed appear, which starts a refresh of two fetches
(`userFetches`, `postFetches`) whose result waits in `answers`. A post is visible to its
own phone from the moment `setValue` is called (`PostsRead`).

### `ChatList`: people to chat with, online and offline

Each opening of the list is an element of `Lists`; `stage[s]` says how far it is:
`users` (waiting for `fetchUsers`), `messages` (waiting for `fetchLastMessages`), `shown`,
`stuck` (a request that nobody will complete: refused, or not made because nobody was
signed in) or `closed`. `data[s]` are the people read, `userListData[s]` the rows, `saved[u]`
the number of rows for u in Core Data. `MessagesRead` is the whole completion: rows set,
missing users saved. The account and the network change at any time: Log out leaves
every screen where it is, so lists outlive the account they were opened by. A set stands
for the list of rows, since its order is that of the server. The data model marks the
entity `Users` abstract; the model assumes that its rows can be stored all the same.

### Checking and proving modules

`MCConversation`, `MCCalm`, `MCDelivery`, `MCChatSession`, `MCChatList`, `MCAccount` and
`MCPosts` name the model values, clocks and symmetries for TLC. `ConversationProofs`,
`CalmProofs`, `DeliveryProofs`, `DeliveryClientProofs`, `ChatSessionProofs`,
`ChatListProofs`, `AccountProofs` and `PostsProofs` hold the theorems. Operators described
as mutants in the component modules are variations of the action below them with a
plausible bug; no specification uses them, and each makes TLC refute the property they are
meant for.

## Runs

| run | what it checks | bounds | outcome |
| --- | --- | --- | --- |
| `conversation` | `TypeOK`, `TableMatchesData`, `NoVersionMix`, `RestingListIsComplete`, `SettledPressTakesShownMessage`, `EveryMessageShown` | 2 messages, 3 waiting closures, 1 unacknowledged write, 1 long press | holds |
| `calm` | `NoMessageListedTwice`, `ImplementsBoard` | 3 messages, two with equal times | holds |
| `delivery` | `TypeOK`, `ConfirmedIsStored`, `DeletedStaysDeleted`, `RestingPhonesAgree`, `PhoneIsClient`, `EchoStays`, `Convergence` | 2 phones, 1 message, 2 lost connections or kills, 2 presses of Delete | holds |
| `chat_session` | `TypeOK`, `ListsOwnConversations`, `RestingChatIsComplete`, `DeletesWhatWasGiven`, `TextKeptUntilAnswered`, `OpenChatFills` | 2 users, 1 partner, 2 chats, 1 message, 1 change of account | holds |
| `support_query` | `SupportSendsSomething` | as `chat_session` | violated: see Findings |
| `chat_list` | `TypeOK`, `SavedOnce`, `ListsOthers`, `OfflineKnowsAll`, `ListFills` | 2 users, 3 lists, 3 changes of account or network | holds |
| `account` | `TypeOK`, `ProfilesAreWhole`, `ProfilesAreFinal`, `RememberedIsRegistered`, `DashboardKnowsUser` | 2 addresses, 3 presses | holds |
| `account_otp` | `DashboardNeedsAccount` | 1 address, 2 presses | violated: see Findings |
| `posts` | `TypeOK`, `PicturesBehindPosts`, `EditorClosesOnItsOwnPost`, `OnlyRefusalsHidePosts` | 2 presses, 2 editors, 2 refreshes | holds |
| `posts_live` | `OwnPostShownForGood` | 2 presses, 1 editor, 2 refreshes | holds |
| `posts_thoughts` | `ThoughtsCanBeViewed` | as `posts` | violated |
| `posts_cancel` | `CancelledPictureNotPosted` | as `posts` | violated |

**At rest.** Three invariants are the safety half of the liveness properties, and hold
without any fairness: whatever state the queues and the network come to rest in is the
right one. `RestingListIsComplete`: a chat screen that observes, with no event or refresh
on its way, lists the whole conversation (`EveryMessageShown` adds that it does come to
rest). `RestingChatIsComplete` is the same of every screen of `ChatSession`, closed ones
included, as long as its account has not changed: refreshes of other screens, sends and
deletions between them lose no change and mix no conversations (`OpenChatFills`).
`RestingPhonesAgree`: a connected phone with nothing left to receive or to send shows what
the database has (`Convergence`). Each fails at once if a change raises no event, if a
screen is left out of an event, or if a phone does not listen again.

**Bounds.** `MaxPending` limits the closures waiting in the two queues together when a
touch or a remote change adds one; three is enough for two overlapping refreshes with an
event between them, which is what breaks naive versions of these properties.
`MaxWrites` is one write of this phone under way in `conversation`, where removals come
from the server as well, and two in `calm`, a put and a removal of the same message
together; the safety properties of both are proved for any number. Two
messages are enough for an order, a duplicate and a mixture; `calm` takes three because
the abstract list is about order. In `delivery`, two lost connections at any steps give
every case of a write or an answer lost and sent again, answers held back before and
after a reconnection included; two phones give a deletion by the receiver between the two
arrivals of a message; a second message would only multiply the interleavings, and the
safety properties are proved for any number of messages, phones and losses. Four
answers under way (`MaxAnswers`) hold a listen's data and answer with a write's; three
outstanding writes (`MaxWrites`) a message and its removal, twice asked for. In
`chat_session`, two chats with one partner are a closed screen whose observer lives on and
the one on top; the message is written by this phone or under an identifier of another, in
either user's conversation; one change of account falls between any two steps of a
refresh, a send or a deletion; what is proved of it holds for any numbers. In
`chat_list`, three lists are two that overlap and an offline one after them. Three
presses in `account` allow two sign-ups with one address and a log-in during them. In
`posts`, two presses and two editors allow the same post twice, and a late completion
while the next editor is open; `MaxRefreshes` only limits extra visits to the feed, a
popped editor may always refresh it.

**Deadlock** is checked in the `account` and `posts` runs. In the conversation,
delivery, chat session and chat list runs it is not: after a crash, or with nothing left
to do, the system rests.

**Symmetry** is used only where no liveness is checked (`account`, `posts`); the messages of `Conversation` are not symmetric because they have times.

**Fairness.** `Conversation`: both queues are drained and the table is laid out (weak
fairness of `MainStep`, `DbStep`, `Layout`); UIKit's run loop and Grand Central Dispatch
justify it. The server, the other users and the user get none. `EveryMessageShown` also
assumes that events cease: without it the display can starve, since every change of any
conversation empties the list again (`APIManager.swift:308`, line 109 of the screen).
`ChatSession` assumes the same of its two queues, and `OpenChatFills` that events cease and
that the account has not changed since the screen was opened: a change of account raises
no event (`APIManager.swift:303`), so such a screen may rest with an old list or none.
`Delivery`: a phone that is not connected tries again (`tryScheduleReconnect`), the
server handles listens and writes, and what it sends arrives; users get none, and
connections fail finitely often by `MaxTroubles`. `ChatList`: requests are answered while
there is a network; `ListFills` assumes that it is back for good in the end. `Posts`: reads are answered and completions run (`UserFetched`, `PostsAnswered`,
`PostsShown`, `PostSaved`); uploads have none. `OwnPostShownForGood` is stated for runs
without a refused read or a kill (`CalmSpec`): a refused read completes with an empty
list and wipes the feed.

## Findings

1. The verification screen opens the dashboard without an account
   (`VerificationViewController.swift:37`), although it announces a one-time password
   (`Constant.swift:80`). With nobody signed in, the feed then asks for the child `""`,
   for which the client raises an exception. Run `account_otp`.
2. A thought without a picture is never shown: `fetchUserPosts` wants a `postImage`
   (`APIManager.swift:190`), `uploadPost` leaves it out (445-448). Run `posts_thoughts`.
3. A cancelled picture is sent anyway (`PostViewController.swift:98-101` keeps
   `pickedImage`). Run `posts_cancel`.
4. The support screen warns "Type Something" (`SupportChatViewController.swift:85`) rather
   than send nothing, but with a query chosen it sends the empty string: the query is taken
   only if the text is empty (92), the text only if no query is chosen (94), and the text
   is always the placeholder because the delegate refuses every edit (173-175). Run
   `support_query`.

Overlapping refreshes list messages twice in `Conversation` (no line of the repository
promises otherwise); `CalmConversation` shows that overlap is the only cause. During a
refresh a scroll or a long press can be out of range (`crashed`), or take another row.

## Proofs

All theorems hold for every value of the constants under the named assumptions in the
modules: finitely many messages (`Conversation` only), `NoMessage`, `Nobody`, `Elsewhere`,
`NoEditor`, `NoText` and `Closed` outside the sets they complement, times that are natural
numbers, and `Own` one of the phones.

* `ConversationProofs`
  * `TypeCorrect`: `TypeOK` is inductive.
  * `TableAlwaysMatches`: `TypeOK /\ TableMatchesData` is inductive. The heart is
    `RefreshGoesOn`: a closure of a refresh stays in its queue, or its successor enters one,
    until `RunReload` makes table and data agree.
  * `SettledPressesAreRight`: an action property from the two invariants.
  * `VersionsNeverMix`: `NoVersionMix` is not inductive, for it says nothing while an event
    waits. `VersionInv` adds `LatestIs(mainQueue, View)`: every waiting snapshot that
    no later event supersedes is the present view; and `QuietBeforeData`: before the
    observer's first data nothing is in flight. One step per action; lemmas on the
    newest event of a queue (`LatestOfTail`, `LatestOfAppend`, ...) carry it.
  * `ListCompleteAtRest`: `VersionInv` says what a refresh brings, not that there is one.
    `NoneForgotten` says that whenever the list is not the present view, an event or a
    closure of a refresh is on its way; with `RefreshGoesOn` it is preserved by each step.
* `CalmProofs`
  * `ListsAreClean` and `CalmIsBoard`, from `CalmInv`: `VersionInv`, no repetition, and
    `OneRefresh`. The last says that one closure of the main queue, or the single event
    asked for, is all there is of a refresh, and that the list is empty until its messages
    arrive; it is what the calm adds, and it makes `RunFetched` the abstract `Fill`.
* `DeliveryProofs`
  * `TypeCorrect`; `SentIsStored` and `RemovedIsGone` from `DeliveryInv`. `ConfirmedIsStored`
    alone says nothing of answers under way, so `AcksMatch` pairs the k-th answer to a write
    in `answers[p]` with the k-th outstanding write; `HeldHappened` says the same of answers
    held back; `PutsFirst` that a message's put precedes its removals among the writes;
    `KnownIds` that writes are about messages which the phone sent or the database has had.
* `DeliveryClientProofs`
  * `DeliveryIsClient`: every step of `Delivery` is a step of `RealtimeClient`'s
    `ClientSpec` at the phone `Own`, or none. It needs `DeliveryInv` and `HeldWaits` (nothing
    is held back once the listen has been answered). One lemma per action shows what it
    does to `Pending(Own)` and to the cache.
  * `PhonesAgreeAtRest` and `SentStaysShown` from `SightInv`, what a phone has been told.
    `Told`: the last data sent to a phone that listens are the database's. `Growing`: from
    one data to the next only removed messages are missing. `ListensOnce`: one answer to the
    listen is on its way, and only while the phone waits for it. `Covered`: a message whose
    write has been answered is in the phone's data when the completion runs, with the answer
    itself or, if that overtakes the listen's, with the listen's; it is stated for answers
    under way (`AcksCovered`) and for those held back (`HeldCovered`). A message leaves a
    snapshot only with the data or with a write that is answered (`VisibleDrop`), and
    `Growing` and `Covered` exclude either unless it was removed or refused.
* `ChatSessionProofs`
  * `TypeCorrect`; `ListsAreOwn` and `DeletedWereGiven` from `SessionInv`: what each waiting
    closure, each list and each record of long presses holds is of a path of the screen's
    users, and was in an answer to a request for that path (`ClosureFine`, `OwnMessages`),
    requests ask for such a path (`OperationFine`), identifiers are not used twice
    (`NoReuse`), and what is written of a message does not change. `seenBy` and `given` only
    grow, so `Grows` carries all of it over every step.
  * `TextsAreKept` from `AnswersInv`: a put is under way at most once (`PutOnce`), and a
    waiting completion belongs to a message of its screen that is no longer outstanding
    (`SentIsAnswered`).
  * `ChatsCompleteAtRest` from `FillInv`, for every screen c whose account has not changed:
    an answer that no later event of c supersedes is c's conversation (`AnswersTrue`), with no
    event waiting the list is empty or that conversation (`ListTrue`), and a list that is
    not has an event or a refresh of its own on its way (`RefreshOwed`). Every step either
    adds an event for c behind all answers (`FillRenewed`), or changes nothing of c's
    conversation and keeps its refresh going (`FillKept`).
* `ChatListProofs`
  * `TypeCorrect`; `NobodySavedTwice`, inductive with `TypeOK`; `OfflineListsAreComplete`
    from `SeenIsSaved` (what was shown is in Core Data); `ListsNeverOfferTheUser` from
    `OthersInv`, which says the same of people whose messages are still to come.
* `AccountProofs`
  * `TypeCorrect`; `ProfilesAlwaysWhole` and `ProfilesNeverChange` from `SignUpInv`:
    `TypeOK`, a sign-up past its upload has its picture (`UploadedHasPicture`), an account
    has at most one sign-up past its creation and none if the account is foreign
    (`RegisteringAlone`), profiles come from sign-ups that have been saving
    (`ProfilesAreOwned`), and `ProfilesAreWhole` itself. `RememberedAlwaysRegistered` adds
    that whoever Auth has, or is about to sign in, is registered (`UsersAreRegistered`);
    `DashboardAlwaysKnowsUser` is an invariant of its own with it.
* `PostsProofs`
  * `TypeCorrect`; `PicturesStored` (an upload past `putting` has its picture);
    `EditorsCloseOnTheirOwnPosts` (a press whose completion waits is stored).
  * `PostsStayShown`: `ReadsGrow` says that whatever is shown or was read stays in every
    later answer that was not a refusal, since reads are answered in order and what they
    read only grows.

Every invariant and action property of the passing runs, and both refinements, are proved.
Only model-checked is liveness (`EveryMessageShown`, `OpenChatFills`,
`OwnPostShownForGood`, `Convergence`, `ListFills`), which rests on fairness and is out of the
prover's reach; the first two and `Convergence` have their safety halves proved (see At rest).
The violations are counterexamples of TLC.

## Not modelled, and why

* The array in which `observeConversations` collects messages (`APIManager.swift:301`): it
  grows with every event and is read by nobody.
* What the user types on a chat between a press of Send and its answer is cleared with the
  text that was sent. `ChatSession` has this, but no line says what a cleared field means,
  so no property is about it.
* Home's list of posts: one call of `fetchUserPosts` when the tab is first selected, never
  repeated. `Posts` models the call and the feed that refreshes itself; `Account` the
  other half of Home.
* In `Delivery`, listens other than that on the conversations: the client holds answers to
  writes back until all its listens have been answered (`FPersistentConnection.m:738-748`),
  so more of them could only hold answers back for longer.
* In `Delivery`, a write of an old connection that reaches the server after the phone has
  noticed the loss: whether the server still accepts it is not visible from here.
* Core Data's `deleteAllUser`, `updateUser` and `fetchManagedObject`
  are never called or do nothing. Last messages in the chat list are display only.
* Push notifications: the token is printed and sent nowhere; no state.
* Profile tab beyond log-out, cells, fonts, colours, keyboard, validation helpers that no
  screen calls: no state a property is about.
* Passwords, form fields, message text: data the properties do not tell apart.
* The pods, apart from the parts of the database and Auth clients named above: third-party
  code, almost all the C, C++ and Objective-C of the repository. The app's own code is
  Swift, so the share of C and C++ lines that the modules translate is nil.

## Plan

Done: `RealtimeClient`, `Conversation`, `CalmConversation` with `MessageBoard`, `Delivery`,
`ChatSession` with `SupportChat`, `ChatList`, `Account` and `Posts`, with their runs; the
safety properties of all of them and the two refinements proved.

Left, in this order:

1. `ChatSession` over `Account`, in place of `AccountChanges`: which changes of account can
   happen behind an open chat depends on the attempts under way.
2. Home's list of posts as a second reader in `Posts`.
