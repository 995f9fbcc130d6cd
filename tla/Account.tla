------------------------------ MODULE Account ------------------------------
(***************************************************************************)
(* Signing up, logging in, logging out and starting the app: the screens   *)
(* of Controller/Login Registration, DatabaseManager.addUser, and what     *)
(* SceneDelegate and HomeViewController do with the remembered e-mail.     *)
(*                                                                         *)
(* A sign-up is a chain of requests, each made in the completion of the    *)
(* one before, and the screens do not wait for it:                         *)
(*                                                                         *)
(*   createUser -> putData -> downloadURL -> updateChildValues             *)
(*                                                                         *)
(* so the account, the picture and the profile appear one by one, several  *)
(* sign-ups and log-ins can be under way at once, and the app can be       *)
(* killed between any two steps.                                           *)
(*                                                                         *)
(* Left out: the form's other fields, the check of the password (a log-in  *)
(* may fail at any time), alerts, and Auth's own storage, which survives.  *)
(***************************************************************************)
EXTENDS Naturals, Sequences

CONSTANTS
    Emails,          \* e-mail addresses; an address stands for its account, too
    Attempts,        \* bound: presses of the sign-up and log-in buttons
    Nobody,          \* no e-mail address
    Elsewhere        \* the sign-up of an account registered on another phone

ASSUME NobodyAssumption == Nobody \notin Emails
ASSUME ElsewhereAssumption == Elsewhere \notin Attempts /\ Nobody \notin Attempts

VARIABLES
    accounts,        \* Firebase Authentication: registered addresses
    pictures,        \* Firebase Storage: sign-ups whose profile picture is stored
    profile,         \* Realtime Database, "users": the sign-up each profile comes from
    attempt,         \* attempt[r]: the address typed in and how far r has come
    answers,         \* successful log-ins whose completion waits in the main queue
    currentUser,     \* Auth.auth().currentUser
    userEmail,       \* UserDefaults, key "userEmail"
    screen,          \* the screen on top, "none" when the app does not run
    homeLoading      \* a new Home screen's block waits in the main queue

serverVars == <<accounts, pictures, profile>>
phoneVars == <<currentUser, userEmail, screen, homeLoading>>
vars == <<serverVars, attempt, answers, phoneVars>>

SignUpStages == {"creating", "created", "uploading", "uploaded", "saving", "saved"}
LogInStages == {"signingIn", "answered"}
NotPressed == [kind |-> "none", email |-> Nobody, stage |-> "unused"]
Records ==
    {NotPressed}
        \cup [kind : {"signUp"}, email : Emails, stage : SignUpStages \cup {"ended"}]
        \cup [kind : {"logIn"}, email : Emails, stage : LogInStages \cup {"ended"}]
Screens == {"none", "intro", "login", "register", "verification", "dashboard"}

TypeOK ==
    /\ accounts \subseteq Emails
    /\ pictures \subseteq Attempts
    /\ profile \in [Emails -> Attempts \cup {Elsewhere, Nobody}]
    /\ attempt \in [Attempts -> Records]
    /\ answers \in Seq(Attempts)
    /\ \A i \in 1..Len(answers) : attempt[answers[i]].kind = "logIn"
    /\ currentUser \in Emails \cup {Nobody}
    /\ userEmail \in Emails \cup {Nobody}
    /\ screen \in Screens
    /\ homeLoading \in BOOLEAN

\* A new installation; other phones have registered some accounts.
Init ==
    /\ accounts \in SUBSET Emails
    /\ pictures = {}
    /\ profile = [e \in Emails |-> IF e \in accounts THEN Elsewhere ELSE Nobody]
    /\ attempt = [r \in Attempts |-> NotPressed]
    /\ answers = <<>>
    /\ currentUser = Nobody
    /\ userEmail = Nobody
    /\ screen = "none"
    /\ homeLoading = FALSE

At(r, s) == attempt[r].stage = s

Advance(r, s) == attempt' = [attempt EXCEPT ![r].stage = s]

Start(r, k, e, s) ==
    /\ At(r, "unused")
    /\ attempt' = [attempt EXCEPT ![r] = [kind |-> k, email |-> e, stage |-> s]]

\* What a process that ends takes with it: every completion still to come.
LoseCompletions ==
    /\ attempt' = [r \in Attempts |->
                      IF At(r, "unused") THEN attempt[r] ELSE [attempt[r] EXCEPT !.stage = "ended"]]
    /\ answers' = <<>>
    /\ homeLoading' = FALSE
    /\ screen' = "none"

----------------------------------------------------------------------------
(* Screens. *)

\* SceneDelegate.  Both branches open GreetingView, which the repository does
\* not have; the commented-out lines name the screens it stands in for.
Launch ==
    /\ screen = "none"
    /\ IF userEmail # Nobody
       THEN screen' = "dashboard" /\ homeLoading' = TRUE
       ELSE screen' = "login" /\ UNCHANGED homeLoading
    /\ UNCHANGED <<serverVars, attempt, answers, currentUser, userEmail>>

ShowLogin ==
    /\ screen = "intro"
    /\ screen' = "login"
    /\ UNCHANGED <<serverVars, attempt, answers, currentUser, userEmail, homeLoading>>

ShowRegister ==
    /\ screen \in {"intro", "login"}
    /\ screen' = "register"
    /\ UNCHANGED <<serverVars, attempt, answers, currentUser, userEmail, homeLoading>>

\* The button of the verification screen pushes the tab controller.
EnterDashboard ==
    /\ screen = "verification"
    /\ screen' = "dashboard"
    /\ homeLoading' = TRUE
    /\ UNCHANGED <<serverVars, attempt, answers, currentUser, userEmail>>

\* Two more tabs are Home screens; each loads when it is first selected.
OpenHomeTab ==
    /\ screen = "dashboard"
    /\ homeLoading' = TRUE
    /\ UNCHANGED <<serverVars, attempt, answers, currentUser, userEmail, screen>>

\* Mutant of HomeLoaded: the e-mail is remembered by log-ins only.
HomeLoadedSilently ==
    /\ homeLoading
    /\ homeLoading' = FALSE
    /\ UNCHANGED <<serverVars, attempt, answers, currentUser, userEmail, screen>>

\* configureUIView's block: remember whoever is signed in by now.
HomeLoaded ==
    /\ homeLoading
    /\ userEmail' = currentUser
    /\ homeLoading' = FALSE
    /\ UNCHANGED <<serverVars, attempt, answers, currentUser, screen>>

\* The feed fetches the user's profile; with nobody signed in the key is "",
\* for which child: throws.
OpenFeed ==
    /\ screen = "dashboard"
    /\ currentUser = Nobody
    /\ LoseCompletions
    /\ UNCHANGED <<serverVars, currentUser, userEmail>>

Logout ==
    /\ screen = "dashboard"
    /\ screen' = "intro"
    /\ UNCHANGED <<serverVars, attempt, answers, currentUser, userEmail, homeLoading>>

Kill ==
    /\ screen # "none"
    /\ LoseCompletions
    /\ UNCHANGED <<serverVars, currentUser, userEmail>>

\* The Auth library drops the account when its token becomes invalid.
ForcedSignOut ==
    /\ screen # "none"
    /\ currentUser # Nobody
    /\ currentUser' = Nobody
    /\ UNCHANGED <<serverVars, attempt, answers, userEmail, screen, homeLoading>>

----------------------------------------------------------------------------
(* Signing up: DatabaseManager.addUser. *)

\* Mutant of PressSignUp: the app believes the form before the server answers.
PressSignUpSignedIn(r, e) ==
    /\ screen = "register"
    /\ Start(r, "signUp", e, "creating")
    /\ screen' = "verification"
    /\ currentUser' = e
    /\ UNCHANGED <<serverVars, answers, userEmail, homeLoading>>

\* The verification screen is pushed without waiting for any answer.
PressSignUp(r, e) ==
    /\ screen = "register"
    /\ Start(r, "signUp", e, "creating")
    /\ screen' = "verification"
    /\ UNCHANGED <<serverVars, answers, currentUser, userEmail, homeLoading>>

\* Mutant of CreateAccount: the early return on an error is missing.
CreateAccountRegardless(r) ==
    /\ At(r, "creating")
    /\ accounts' = accounts \cup {attempt[r].email}
    /\ Advance(r, "created")
    /\ UNCHANGED <<pictures, profile, answers, phoneVars>>

\* The server registers an address that it does not know yet.
CreateAccount(r) ==
    /\ At(r, "creating")
    /\ attempt[r].email \notin accounts
    /\ accounts' = accounts \cup {attempt[r].email}
    /\ Advance(r, "created")
    /\ UNCHANGED <<pictures, profile, answers, phoneVars>>

\* Mutant of AccountCreated: the profile is written without waiting for the picture.
AccountCreatedHasty(r) ==
    /\ At(r, "created")
    /\ currentUser' = attempt[r].email
    /\ Advance(r, "saving")
    /\ UNCHANGED <<serverVars, answers, userEmail, screen, homeLoading>>

\* createUser's completion: the new user is signed in; the upload begins.
AccountCreated(r) ==
    /\ At(r, "created")
    /\ currentUser' = attempt[r].email
    /\ Advance(r, "uploading")
    /\ UNCHANGED <<serverVars, answers, userEmail, screen, homeLoading>>

StorePicture(r) ==
    /\ At(r, "uploading")
    /\ pictures' = pictures \cup {r}
    /\ Advance(r, "uploaded")
    /\ UNCHANGED <<accounts, profile, answers, phoneVars>>

\* downloadURL's completion: write the profile, the picture's address in it.
PictureLinked(r) ==
    /\ At(r, "uploaded")
    /\ Advance(r, "saving")
    /\ UNCHANGED <<serverVars, answers, phoneVars>>

\* Mutant of StoreProfile: the profile keeps the address in place of the form.
StoreProfileByAddress(r) ==
    /\ At(r, "saving")
    /\ profile' = [profile EXCEPT ![attempt[r].email] = attempt[r].email]
    /\ Advance(r, "saved")
    /\ UNCHANGED <<accounts, pictures, answers, phoneVars>>

\* updateChildValues is stored: the profile under the user's identifier.
StoreProfile(r) ==
    /\ At(r, "saving")
    /\ profile' = [profile EXCEPT ![attempt[r].email] = r]
    /\ Advance(r, "saved")
    /\ UNCHANGED <<accounts, pictures, answers, phoneVars>>

ProfileSaved(r) ==
    /\ At(r, "saved")
    /\ Advance(r, "ended")
    /\ UNCHANGED <<serverVars, answers, phoneVars>>

\* Any request may be refused, or its answer lost: the completion is called
\* with an error (line 123 calls none), which RegisterViewController prints.
SignUpFails(r) ==
    /\ attempt[r].stage \in SignUpStages
    /\ Advance(r, "ended")
    /\ UNCHANGED <<serverVars, answers, phoneVars>>

SignUpStep(r) ==
    \/ CreateAccount(r) \/ AccountCreated(r) \/ StorePicture(r) \/ PictureLinked(r)
    \/ StoreProfile(r) \/ ProfileSaved(r) \/ SignUpFails(r)

----------------------------------------------------------------------------
(* Logging in. *)

PressLogIn(r, e) ==
    /\ screen = "login"
    /\ Start(r, "logIn", e, "signingIn")
    /\ UNCHANGED <<serverVars, answers, phoneVars>>

\* Auth signs the user in, then queues the completion.
SignedIn(r) ==
    /\ At(r, "signingIn")
    /\ attempt[r].email \in accounts
    /\ currentUser' = attempt[r].email
    /\ Advance(r, "answered")
    /\ answers' = Append(answers, r)
    /\ UNCHANGED <<serverVars, userEmail, screen, homeLoading>>

LogInFails(r) ==
    /\ At(r, "signingIn")
    /\ Advance(r, "ended")
    /\ UNCHANGED <<serverVars, answers, phoneVars>>

\* The completion: remember the e-mail, make the dashboard the root, whatever
\* screen the user has gone to meanwhile.
LogInDone ==
    /\ answers # <<>>
    /\ userEmail' = attempt[Head(answers)].email
    /\ screen' = "dashboard"
    /\ homeLoading' = TRUE
    /\ Advance(Head(answers), "ended")
    /\ answers' = Tail(answers)
    /\ UNCHANGED <<serverVars, currentUser>>

----------------------------------------------------------------------------
Next ==
    \/ Launch \/ ShowLogin \/ ShowRegister \/ EnterDashboard \/ OpenHomeTab \/ HomeLoaded
    \/ OpenFeed \/ Logout \/ Kill \/ ForcedSignOut
    \/ \E r \in Attempts :
          \/ \E e \in Emails : PressSignUp(r, e) \/ PressLogIn(r, e)
          \/ SignUpStep(r)
          \/ SignedIn(r) \/ LogInFails(r)
    \/ LogInDone

Spec == Init /\ [][Next]_vars

----------------------------------------------------------------------------
(* What the accounts keep true. *)

(***************************************************************************)
(* addUser writes the profile last (lines 38-63).  However sign-ups        *)
(* overlap, fail or are cut short, a stored profile belongs to a           *)
(* registered account, comes from a form with that account's address, and  *)
(* its picture is stored: nobody ever sees a profile with a dead picture.  *)
(***************************************************************************)
ProfilesAreWhole ==
    \A e \in Emails : profile[e] \in Attempts =>
        /\ e \in accounts
        /\ attempt[profile[e]].email = e
        /\ profile[e] \in pictures

(***************************************************************************)
(* Two sign-ups with one address: the second is refused and returns early  *)
(* (lines 39-43), so its form never replaces the profile of the first.     *)
(***************************************************************************)
ProfilesAreFinal ==
    [][\A e \in Emails : profile[e] # Nobody => profile'[e] = profile[e]]_vars

(***************************************************************************)
(* The address remembered for the next launch is written by log-ins        *)
(* (LoginViewController.swift:81) and by every Home screen                 *)
(* (HomeViewController.swift:31), at other moments than Auth changes its   *)
(* user.  It always names a registered account, even when log-ins and      *)
(* sign-ups with mistyped addresses fail around it.                        *)
(***************************************************************************)
RememberedIsRegistered == userEmail # Nobody => userEmail \in accounts

(***************************************************************************)
(* Log-ins may overlap, and the app may be killed after Auth has signed    *)
(* the user in and before the completion has remembered it.  On a          *)
(* dashboard that has loaded, the address remembered is still the one Auth *)
(* has: a Home screen repairs it (HomeViewController.swift:30-31).  A      *)
(* sign-up answered behind the dashboard, or an account that Auth drops,   *)
(* leaves the two apart.  The premise leaves out every history in which a  *)
(* sign-up has got further than its account, or has failed: an attempt     *)
(* does not tell how it ended.                                             *)
(***************************************************************************)
NoSignUpAnswered ==
    \A r \in Attempts : attempt[r].kind = "signUp" => attempt[r].stage \in {"creating", "created"}

DashboardKnowsUser ==
    (screen = "dashboard" /\ ~homeLoading /\ answers = <<>>
        /\ NoSignUpAnswered /\ currentUser # Nobody)
    => userEmail = currentUser

(***************************************************************************)
(* The verification screen says that a one-time password was sent to the   *)
(* number and e-mail just registered (Constant.swift:80), and the README   *)
(* promises log-in with Firebase Authentication (line 9): leaving it for   *)
(* the dashboard (VerificationViewController.swift:37-40) would need a     *)
(* registered, signed-in user.                                             *)
(***************************************************************************)
DashboardNeedsAccount == [][EnterDashboard => currentUser # Nobody]_vars
=============================================================================
