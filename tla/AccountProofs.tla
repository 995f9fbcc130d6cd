--------------------------- MODULE AccountProofs ---------------------------
(***************************************************************************)
(* Proofs about Account, for any sets of addresses and presses.            *)
(***************************************************************************)
EXTENDS Account, TLAPS

\* A step of a sign-up changes that attempt's stage and nothing else.
LEMMA SignUpFacts ==
    ASSUME TypeOK, NEW r \in Attempts, attempt[r].stage \in SignUpStages,
           NEW s \in SignUpStages \cup {"ended"}, Advance(r, s)
    PROVE  /\ attempt' \in [Attempts -> Records]
           /\ attempt[r].email \in Emails
           /\ attempt[r].kind = "signUp"
           /\ attempt'[r].kind = "signUp"
           /\ attempt'[r].email = attempt[r].email
           /\ attempt'[r].stage = s
           /\ \A q \in Attempts \ {r} : attempt'[q] = attempt[q]
BY DEF TypeOK, Records, NotPressed, SignUpStages, LogInStages, Advance

\* So does a step of a log-in.
LEMMA LogInFacts ==
    ASSUME TypeOK, NEW r \in Attempts, attempt[r].kind = "logIn",
           NEW s \in LogInStages \cup {"ended"}, Advance(r, s)
    PROVE  /\ attempt' \in [Attempts -> Records]
           /\ attempt[r].email \in Emails
           /\ attempt'[r].kind = "logIn"
           /\ attempt'[r].email = attempt[r].email
           /\ attempt'[r].stage = s
           /\ \A q \in Attempts \ {r} : attempt'[q] = attempt[q]
BY DEF TypeOK, Records, NotPressed, Advance

\* Pressing a button fills a record that was unused.
LEMMA StartFacts ==
    ASSUME TypeOK, NEW r \in Attempts, NEW k, NEW e \in Emails, NEW s,
           \/ k = "signUp" /\ s \in SignUpStages
           \/ k = "logIn" /\ s \in LogInStages,
           Start(r, k, e, s)
    PROVE  /\ attempt' \in [Attempts -> Records]
           /\ attempt[r].kind = "none"
           /\ attempt[r].stage = "unused"
           /\ attempt'[r].kind = k
           /\ attempt'[r].email = e
           /\ attempt'[r].stage = s
           /\ \A q \in Attempts \ {r} : attempt'[q] = attempt[q]
BY DEF TypeOK, Records, NotPressed, SignUpStages, LogInStages, Start, At

\* No completion waits in an empty queue.
LEMMA EmptyQueue == <<>> \in Seq(Attempts) /\ \A i \in 1..Len(<<>>) : FALSE
  OBVIOUS

\* The end of the process keeps what was typed in and ends what was under way.
LEMMA LoseFacts ==
    ASSUME TypeOK, LoseCompletions
    PROVE  /\ attempt' \in [Attempts -> Records]
           /\ answers' \in Seq(Attempts) /\ \A i \in 1..Len(answers') : FALSE
           /\ homeLoading' = FALSE /\ screen' = "none"
           /\ \A r \in Attempts :
                 /\ attempt'[r].email = attempt[r].email
                 /\ attempt'[r].kind = attempt[r].kind
                 /\ attempt[r].stage = "unused" => attempt'[r].stage = "unused"
                 /\ attempt[r].stage # "unused" => attempt'[r].stage = "ended"
<1>1. attempt' \in [Attempts -> Records]
  BY DEF TypeOK, Records, NotPressed, SignUpStages, LogInStages, LoseCompletions, At
<1>2. \A r \in Attempts :
         /\ attempt'[r].email = attempt[r].email
         /\ attempt'[r].kind = attempt[r].kind
         /\ attempt[r].stage = "unused" => attempt'[r].stage = "unused"
         /\ attempt[r].stage # "unused" => attempt'[r].stage = "ended"
  BY DEF TypeOK, Records, NotPressed, LoseCompletions, At
<1>3. QED
  BY <1>1, <1>2, EmptyQueue DEF LoseCompletions

\* The log-ins whose completions wait are still log-ins after a step that
\* leaves the queue alone.
LEMMA QueueKept ==
    ASSUME TypeOK, UNCHANGED answers,
           \A r \in Attempts : attempt[r].kind = "logIn" => attempt'[r].kind = "logIn"
    PROVE  /\ answers' \in Seq(Attempts)
           /\ \A i \in 1..Len(answers') : attempt'[answers'[i]].kind = "logIn"
BY DEF TypeOK

\* A new installation has its types.
LEMMA InitialTypes == Init => TypeOK
<1> SUFFICES ASSUME Init PROVE TypeOK
  OBVIOUS
<1>1. attempt \in [Attempts -> Records]
  BY DEF Init, Records
<1>2. profile \in [Emails -> Attempts \cup {Elsewhere, Nobody}]
  BY DEF Init
<1>3. answers \in Seq(Attempts) /\ \A i \in 1..Len(answers) : attempt[answers[i]].kind = "logIn"
  BY EmptyQueue DEF Init
<1>4. QED
  BY <1>1, <1>2, <1>3 DEF Init, TypeOK, Screens

(***************************************************************************)
(* The servers' data, the attempts and the screens keep their types.       *)
(***************************************************************************)
THEOREM TypeCorrect == Spec => []TypeOK
<1>1. TypeOK /\ [Next]_vars => TypeOK'
  <2> SUFFICES ASSUME TypeOK, [Next]_vars PROVE TypeOK'
    OBVIOUS
  <2> USE DEF serverVars, phoneVars
  <2>1. CASE Launch
    BY <2>1 DEF Launch, TypeOK, Screens
  <2>2. CASE ShowLogin \/ ShowRegister \/ EnterDashboard \/ OpenHomeTab \/ Logout
    BY <2>2 DEF ShowLogin, ShowRegister, EnterDashboard, OpenHomeTab, Logout, TypeOK, Screens
  <2>3. CASE HomeLoaded \/ ForcedSignOut
    BY <2>3 DEF HomeLoaded, ForcedSignOut, TypeOK
  <2>4. CASE OpenFeed \/ Kill
    <3>1. LoseCompletions
      BY <2>4 DEF OpenFeed, Kill
    <3>2. QED
      BY <2>4, <3>1, LoseFacts DEF OpenFeed, Kill, TypeOK, Screens
  <2>5. ASSUME NEW r \in Attempts, NEW e \in Emails, PressSignUp(r, e) PROVE TypeOK'
    <3>1. /\ attempt' \in [Attempts -> Records]
          /\ \A q \in Attempts : attempt[q].kind = "logIn" => attempt'[q].kind = "logIn"
      <4>1. Start(r, "signUp", e, "creating")
        BY <2>5 DEF PressSignUp
      <4>2. QED
        BY <4>1, StartFacts DEF SignUpStages, NotPressed
    <3>2. QED
      BY <2>5, <3>1, QueueKept DEF PressSignUp, TypeOK, Screens
  <2>6. ASSUME NEW r \in Attempts, NEW e \in Emails, PressLogIn(r, e) PROVE TypeOK'
    <3>1. /\ attempt' \in [Attempts -> Records]
          /\ \A q \in Attempts : attempt[q].kind = "logIn" => attempt'[q].kind = "logIn"
      <4>1. Start(r, "logIn", e, "signingIn")
        BY <2>6 DEF PressLogIn
      <4>2. QED
        BY <4>1, StartFacts DEF LogInStages, NotPressed
    <3>2. QED
      BY <2>6, <3>1, QueueKept DEF PressLogIn, TypeOK
  <2>7. ASSUME NEW r \in Attempts, SignUpStep(r) PROVE TypeOK'
    <3>1. /\ attempt' \in [Attempts -> Records]
          /\ attempt[r].email \in Emails
          /\ \A q \in Attempts : attempt[q].kind = "logIn" => attempt'[q].kind = "logIn"
      BY <2>7, SignUpFacts
      DEF SignUpStep, CreateAccount, AccountCreated, StorePicture, PictureLinked, StoreProfile,
          ProfileSaved, SignUpFails, At, SignUpStages
    <3>2. /\ answers' \in Seq(Attempts)
          /\ \A i \in 1..Len(answers') : attempt'[answers'[i]].kind = "logIn"
      BY <2>7, <3>1, QueueKept
      DEF SignUpStep, CreateAccount, AccountCreated, StorePicture, PictureLinked, StoreProfile,
          ProfileSaved, SignUpFails
    <3>3. CASE CreateAccount(r)
      BY <3>1, <3>2, <3>3 DEF CreateAccount, TypeOK
    <3>4. CASE AccountCreated(r)
      BY <3>1, <3>2, <3>4 DEF AccountCreated, TypeOK
    <3>5. CASE StorePicture(r)
      BY <3>1, <3>2, <3>5 DEF StorePicture, TypeOK
    <3>6. CASE StoreProfile(r)
      BY <3>1, <3>2, <3>6 DEF StoreProfile, TypeOK
    <3>7. CASE PictureLinked(r) \/ ProfileSaved(r) \/ SignUpFails(r)
      BY <3>1, <3>2, <3>7 DEF PictureLinked, ProfileSaved, SignUpFails, TypeOK
    <3>8. QED
      BY <2>7, <3>3, <3>4, <3>5, <3>6, <3>7 DEF SignUpStep
  <2>8. ASSUME NEW r \in Attempts, SignedIn(r) \/ LogInFails(r) PROVE TypeOK'
    <3>1. attempt[r].kind = "logIn"
      BY <2>8 DEF SignedIn, LogInFails, At, TypeOK, Records, NotPressed, SignUpStages
    <3>2. /\ attempt' \in [Attempts -> Records]
          /\ attempt[r].email \in Emails
          /\ \A q \in Attempts : attempt[q].kind = "logIn" => attempt'[q].kind = "logIn"
      BY <2>8, <3>1, LogInFacts DEF SignedIn, LogInFails, LogInStages
    <3>3. CASE SignedIn(r)
      <4>1. /\ answers' \in Seq(Attempts)
            /\ \A i \in 1..Len(answers') : attempt'[answers'[i]].kind = "logIn"
        <5>1. attempt'[r].kind = "logIn" /\ answers' = Append(answers, r)
          BY <3>1, <3>2, <3>3 DEF SignedIn
        <5>2. /\ answers' \in Seq(Attempts)
              /\ Len(answers') = Len(answers) + 1
              /\ answers'[Len(answers) + 1] = r
              /\ \A i \in 1..Len(answers) : answers'[i] = answers[i] /\ answers[i] \in Attempts
          BY <5>1 DEF TypeOK
        <5>3. \A i \in 1..Len(answers') : i = Len(answers) + 1 \/ i \in 1..Len(answers)
          BY <5>2 DEF TypeOK
        <5>4. QED
          BY <3>2, <5>1, <5>2, <5>3 DEF TypeOK
      <4>2. QED
        BY <3>2, <3>3, <4>1 DEF SignedIn, TypeOK
    <3>4. CASE LogInFails(r)
      BY <3>2, <3>4, QueueKept DEF LogInFails, TypeOK
    <3>5. QED
      BY <2>8, <3>3, <3>4
  <2>9. CASE LogInDone
    <3>1. Head(answers) \in Attempts /\ attempt[Head(answers)].kind = "logIn"
      BY <2>9 DEF LogInDone, TypeOK
    <3>2. /\ attempt' \in [Attempts -> Records]
          /\ attempt[Head(answers)].email \in Emails
          /\ \A q \in Attempts : attempt[q].kind = "logIn" => attempt'[q].kind = "logIn"
      <4>1. Advance(Head(answers), "ended")
        BY <2>9 DEF LogInDone
      <4>2. QED
        BY <3>1, <4>1, LogInFacts
    <3>3. /\ answers' \in Seq(Attempts)
          /\ \A i \in 1..Len(answers') : attempt'[answers'[i]].kind = "logIn"
      BY <2>9, <3>2 DEF LogInDone, TypeOK
    <3>4. QED
      BY <2>9, <3>2, <3>3 DEF LogInDone, TypeOK, Screens
  <2>10. CASE UNCHANGED vars
    BY <2>10 DEF vars, TypeOK
  <2>11. QED
    BY <2>1, <2>2, <2>3, <2>4, <2>5, <2>6, <2>7, <2>8, <2>9, <2>10 DEF Next
<1>2. QED
  BY <1>1, InitialTypes, PTL DEF Spec

----------------------------------------------------------------------------
\* Sign-ups whose account exists and whose profile does not yet.
Registering == {"created", "uploading", "uploaded", "saving"}

\* A sign-up past the upload has its picture stored.
UploadedHasPicture ==
    \A r \in Attempts :
        attempt[r].stage \in {"uploaded", "saving", "saved"} => r \in pictures

\* A registering sign-up has the account to itself.
RegisteringAlone ==
    \A r \in Attempts : attempt[r].stage \in Registering =>
        /\ attempt[r].email \in accounts
        /\ profile[attempt[r].email] = Nobody
        /\ \A q \in Attempts :
              (attempt[q].stage \in Registering /\ attempt[q].email = attempt[r].email) => q = r

\* A profile belongs to an account, and its sign-up is not pressed again.
ProfilesAreOwned ==
    \A e \in Emails :
        /\ profile[e] # Nobody => e \in accounts
        /\ profile[e] \in Attempts => attempt[profile[e]].stage # "unused"

SignUpInv ==
    TypeOK /\ UploadedHasPicture /\ RegisteringAlone /\ ProfilesAreOwned /\ ProfilesAreWhole

\* Steps that begin or end attempts, or leave them alone, on the same data.
LEMMA HarmlessStep ==
    ASSUME SignUpInv, UNCHANGED serverVars,
           \A r \in Attempts :
              \/ attempt'[r].stage = attempt[r].stage /\ attempt'[r].email = attempt[r].email
              \/ /\ attempt'[r].stage \in {"creating", "signingIn", "answered", "ended"}
                 /\ attempt[r].stage = "unused" \/ attempt'[r].email = attempt[r].email
    PROVE  UploadedHasPicture' /\ RegisteringAlone' /\ ProfilesAreOwned' /\ ProfilesAreWhole'
<1>1. accounts' = accounts /\ pictures' = pictures /\ profile' = profile
  BY DEF serverVars
<1>2. UploadedHasPicture'
  BY <1>1 DEF SignUpInv, UploadedHasPicture
<1>3. RegisteringAlone'
  BY <1>1 DEF SignUpInv, RegisteringAlone, Registering
<1>4. ProfilesAreOwned' /\ ProfilesAreWhole'
  BY <1>1 DEF SignUpInv, ProfilesAreOwned, ProfilesAreWhole
<1>5. QED
  BY <1>2, <1>3, <1>4

\* What the steps of one sign-up preserve.
LEMMA SignUpStepKeepsInv ==
    ASSUME SignUpInv, NEW r \in Attempts, SignUpStep(r)
    PROVE  UploadedHasPicture' /\ RegisteringAlone' /\ ProfilesAreOwned' /\ ProfilesAreWhole'
<1> USE DEF SignUpInv, UploadedHasPicture, RegisteringAlone, ProfilesAreOwned, ProfilesAreWhole,
            Registering, serverVars, At
<1>1. /\ attempt[r].stage \in SignUpStages
      /\ attempt[r].email \in Emails
      /\ attempt'[r].email = attempt[r].email
      /\ \A q \in Attempts \ {r} : attempt'[q] = attempt[q]
  BY SignUpFacts
  DEF SignUpStep, CreateAccount, AccountCreated, StorePicture, PictureLinked, StoreProfile,
      ProfileSaved, SignUpFails, SignUpStages
<1>2. \A s \in SignUpStages \cup {"ended"} : Advance(r, s) => attempt'[r].stage = s
  BY <1>1, SignUpFacts
<1>3. CASE CreateAccount(r)
  <2>1. attempt'[r].stage = "created"
    BY <1>2, <1>3 DEF CreateAccount, SignUpStages
  <2>2. profile[attempt[r].email] = Nobody
    BY <1>1, <1>3 DEF CreateAccount
  <2>3. \A q \in Attempts : attempt[q].stage \in Registering => attempt[q].email # attempt[r].email
    BY <1>3 DEF CreateAccount
  <2>4. QED
    BY <1>1, <1>3, <2>1, <2>2, <2>3 DEF CreateAccount, TypeOK
<1>4. CASE AccountCreated(r)
  <2>1. attempt[r].stage = "created" /\ attempt'[r].stage = "uploading"
    BY <1>2, <1>4 DEF AccountCreated, SignUpStages
  <2>2. QED
    BY <1>1, <1>4, <2>1 DEF AccountCreated
<1>5. CASE StorePicture(r)
  <2>1. attempt[r].stage = "uploading" /\ attempt'[r].stage = "uploaded"
    BY <1>2, <1>5 DEF StorePicture, SignUpStages
  <2>2. QED
    BY <1>1, <1>5, <2>1 DEF StorePicture
<1>6. CASE PictureLinked(r)
  <2>1. attempt[r].stage = "uploaded" /\ attempt'[r].stage = "saving"
    BY <1>2, <1>6 DEF PictureLinked, SignUpStages
  <2>2. QED
    BY <1>1, <1>6, <2>1 DEF PictureLinked
<1>7. CASE StoreProfile(r)
  <2>1. attempt[r].stage = "saving" /\ attempt'[r].stage = "saved"
    BY <1>2, <1>7 DEF StoreProfile, SignUpStages
  <2>2. /\ profile'[attempt[r].email] = r
        /\ \A e \in Emails \ {attempt[r].email} : profile'[e] = profile[e]
        /\ accounts' = accounts /\ pictures' = pictures
    BY <1>1, <1>7 DEF StoreProfile, TypeOK
  <2>3. UploadedHasPicture' /\ ProfilesAreOwned' /\ ProfilesAreWhole'
    BY <1>1, <2>1, <2>2
  <2>4. \A q \in Attempts : attempt'[q].stage \in Registering =>
           /\ q # r /\ attempt'[q] = attempt[q]
           /\ attempt[q].email # attempt[r].email /\ attempt[q].email \in Emails
    BY <1>1, <2>1 DEF TypeOK
  <2>5. RegisteringAlone'
    BY <2>2, <2>4
  <2>6. QED
    BY <2>3, <2>5
<1>8. CASE ProfileSaved(r) \/ SignUpFails(r)
  <2>1. attempt'[r].stage = "ended" /\ UNCHANGED serverVars
    BY <1>2, <1>8 DEF ProfileSaved, SignUpFails
  <2>2. QED
    BY <1>1, <2>1, HarmlessStep
<1>9. QED
  BY <1>3, <1>4, <1>5, <1>6, <1>7, <1>8 DEF SignUpStep

\* Every reachable state has whole, owned profiles and lone registrations.
LEMMA SignUpInvariance == Spec => []SignUpInv
<1>1. Init => SignUpInv
  <2> SUFFICES ASSUME Init PROVE SignUpInv
    OBVIOUS
  <2>1. \A r \in Attempts : attempt[r].stage = "unused"
    BY DEF Init, NotPressed
  <2>2. \A e \in Emails : profile[e] \notin Attempts /\ (profile[e] # Nobody => e \in accounts)
    BY ElsewhereAssumption DEF Init
  <2>3. QED
    BY <2>1, <2>2, InitialTypes
    DEF SignUpInv, UploadedHasPicture, RegisteringAlone, Registering, ProfilesAreOwned,
        ProfilesAreWhole
<1>2. SignUpInv /\ TypeOK' /\ [Next]_vars => SignUpInv'
  <2> SUFFICES ASSUME SignUpInv, TypeOK', [Next]_vars
               PROVE  UploadedHasPicture' /\ RegisteringAlone' /\ ProfilesAreOwned'
                         /\ ProfilesAreWhole'
    BY DEF SignUpInv
  <2>0. TypeOK
    BY DEF SignUpInv
  <2>1. CASE UNCHANGED <<serverVars, attempt>>
    BY <2>1, HarmlessStep
  <2>2. CASE OpenFeed \/ Kill
    BY <2>0, <2>2, LoseFacts, HarmlessStep DEF OpenFeed, Kill
  <2>3. ASSUME NEW r \in Attempts, NEW e \in Emails, PressSignUp(r, e) \/ PressLogIn(r, e)
        PROVE  UploadedHasPicture' /\ RegisteringAlone' /\ ProfilesAreOwned' /\ ProfilesAreWhole'
    <3>1. Start(r, "signUp", e, "creating") \/ Start(r, "logIn", e, "signingIn")
      BY <2>3 DEF PressSignUp, PressLogIn
    <3>2. /\ attempt[r].stage = "unused" /\ attempt'[r].stage \in {"creating", "signingIn"}
          /\ \A q \in Attempts \ {r} : attempt'[q] = attempt[q]
      BY <2>0, <3>1, StartFacts DEF SignUpStages, LogInStages
    <3>3. UNCHANGED serverVars
      BY <2>3 DEF PressSignUp, PressLogIn
    <3>4. QED
      BY <3>2, <3>3, HarmlessStep
  <2>4. ASSUME NEW r \in Attempts, SignUpStep(r)
        PROVE  UploadedHasPicture' /\ RegisteringAlone' /\ ProfilesAreOwned' /\ ProfilesAreWhole'
    BY <2>4, SignUpStepKeepsInv
  <2>5. ASSUME NEW r \in Attempts, NEW s \in LogInStages \cup {"ended"},
               attempt[r].kind = "logIn", Advance(r, s), UNCHANGED serverVars
        PROVE  UploadedHasPicture' /\ RegisteringAlone' /\ ProfilesAreOwned' /\ ProfilesAreWhole'
    BY <2>0, <2>5, LogInFacts, HarmlessStep DEF LogInStages
  <2>6. ASSUME NEW r \in Attempts, SignedIn(r) \/ LogInFails(r)
        PROVE  UploadedHasPicture' /\ RegisteringAlone' /\ ProfilesAreOwned' /\ ProfilesAreWhole'
    <3>1. attempt[r].kind = "logIn"
      BY <2>0, <2>6 DEF SignedIn, LogInFails, At, TypeOK, Records, NotPressed, SignUpStages
    <3>2. UNCHANGED serverVars /\ \E s \in LogInStages \cup {"ended"} : Advance(r, s)
      BY <2>6 DEF SignedIn, LogInFails, LogInStages
    <3>3. QED
      BY <2>5, <3>1, <3>2
  <2>7. CASE LogInDone
    <3>1. Head(answers) \in Attempts /\ attempt[Head(answers)].kind = "logIn"
      BY <2>0, <2>7 DEF LogInDone, TypeOK
    <3>2. UNCHANGED serverVars /\ Advance(Head(answers), "ended")
      BY <2>7 DEF LogInDone
    <3>3. QED
      BY <2>5, <3>1, <3>2
  <2>8. QED
    BY <2>1, <2>2, <2>3, <2>4, <2>6, <2>7
    DEF Next, vars, Launch, ShowLogin, ShowRegister, EnterDashboard, OpenHomeTab, HomeLoaded,
        Logout, ForcedSignOut
<1>3. QED
  BY <1>1, <1>2, TypeCorrect, PTL DEF Spec

(***************************************************************************)
(* addUser stores the account, the picture and the profile in this order   *)
(* for any number of overlapping, failing and interrupted sign-ups.        *)
(***************************************************************************)
THEOREM ProfilesAlwaysWhole == Spec => []ProfilesAreWhole
<1>1. SignUpInv => ProfilesAreWhole
  BY DEF SignUpInv
<1>2. QED
  BY <1>1, SignUpInvariance, PTL

(***************************************************************************)
(* A stored profile is never replaced by that of another sign-up.          *)
(***************************************************************************)
THEOREM ProfilesNeverChange == Spec => ProfilesAreFinal
<1>1. SignUpInv /\ [Next]_vars =>
         [\A e \in Emails : profile[e] # Nobody => profile'[e] = profile[e]]_vars
  <2> SUFFICES ASSUME SignUpInv, Next, NEW e \in Emails, profile[e] # Nobody
               PROVE  profile'[e] = profile[e]
    BY DEF vars
  <2>1. ASSUME NEW r \in Attempts, StoreProfile(r) PROVE profile'[e] = profile[e]
    <3>1. profile[attempt[r].email] = Nobody
      BY <2>1 DEF SignUpInv, RegisteringAlone, Registering, StoreProfile, At
    <3>2. QED
      BY <2>1, <3>1 DEF SignUpInv, TypeOK, StoreProfile
  <2>2. CASE profile' = profile
    BY <2>2
  <2>3. QED
    BY <2>1, <2>2
    DEF Next, SignUpStep, Launch, ShowLogin, ShowRegister, EnterDashboard, OpenHomeTab,
        HomeLoaded, OpenFeed, Logout, Kill, ForcedSignOut, PressSignUp, PressLogIn, CreateAccount,
        AccountCreated, StorePicture, PictureLinked, ProfileSaved, SignUpFails, SignedIn,
        LogInFails, LogInDone, serverVars
<1>2. QED
  BY <1>1, SignUpInvariance, PTL DEF Spec, ProfilesAreFinal

----------------------------------------------------------------------------
\* Whoever is signed in, remembered or about to be is registered.
UsersAreRegistered ==
    /\ currentUser # Nobody => currentUser \in accounts
    /\ userEmail # Nobody => userEmail \in accounts
    /\ \A i \in 1..Len(answers) : attempt[answers[i]].email \in accounts

RememberedInv == SignUpInv /\ UsersAreRegistered

\* Registered addresses stay registered, and attempts keep theirs.
LEMMA AccountsGrow ==
    ASSUME SignUpInv, [Next]_vars
    PROVE  /\ accounts \subseteq accounts'
           /\ \A r \in Attempts : attempt[r].kind = "logIn" => attempt'[r].email = attempt[r].email
<1> USE DEF serverVars, phoneVars
<1>0. TypeOK
  BY DEF SignUpInv
<1>1. accounts \subseteq accounts'
  BY DEF Next, vars, SignUpStep, Launch, ShowLogin, ShowRegister, EnterDashboard, OpenHomeTab,
         HomeLoaded, OpenFeed, Logout, Kill, ForcedSignOut, PressSignUp, PressLogIn, CreateAccount,
         AccountCreated, StorePicture, PictureLinked, StoreProfile, ProfileSaved, SignUpFails,
         SignedIn, LogInFails, LogInDone
<1>2. ASSUME NEW q \in Attempts, attempt[q].kind = "logIn"
      PROVE  attempt'[q].email = attempt[q].email
  <2>1. CASE OpenFeed \/ Kill
    BY <1>0, <2>1, LoseFacts DEF OpenFeed, Kill
  <2>2. ASSUME NEW r \in Attempts, NEW e \in Emails, PressSignUp(r, e) \/ PressLogIn(r, e)
        PROVE  attempt'[q].email = attempt[q].email
    <3>1. attempt[q].stage # "unused"
      BY <1>0, <1>2 DEF TypeOK, Records, NotPressed, LogInStages
    <3>2. attempt[r].stage = "unused" /\ \A x \in Attempts \ {r} : attempt'[x] = attempt[x]
      BY <1>0, <2>2 DEF PressSignUp, PressLogIn, Start, At, TypeOK
    <3>3. QED
      BY <3>1, <3>2
  <2>3. ASSUME NEW r \in Attempts, NEW s, Advance(r, s)
        PROVE  attempt'[q].email = attempt[q].email
    BY <1>0, <2>3 DEF Advance, TypeOK, Records, NotPressed
  <2>4. CASE \E r \in Attempts : SignUpStep(r) \/ SignedIn(r) \/ LogInFails(r)
    BY <2>3, <2>4
    DEF SignUpStep, CreateAccount, AccountCreated, StorePicture, PictureLinked, StoreProfile,
        ProfileSaved, SignUpFails, SignedIn, LogInFails
  <2>5. CASE LogInDone
    <3>1. Head(answers) \in Attempts
      BY <1>0, <2>5 DEF LogInDone, TypeOK
    <3>2. QED
      BY <2>3, <2>5, <3>1 DEF LogInDone
  <2>6. CASE UNCHANGED attempt
    BY <2>6
  <2>7. QED
    BY <2>1, <2>2, <2>4, <2>5, <2>6
    DEF Next, vars, Launch, ShowLogin, ShowRegister, EnterDashboard, OpenHomeTab, HomeLoaded,
        Logout, ForcedSignOut
<1>3. QED
  BY <1>1, <1>2

\* The next step keeps everybody registered.
LEMMA RememberedStep ==
    ASSUME RememberedInv, [Next]_vars
    PROVE  UsersAreRegistered'
<1> USE DEF serverVars, phoneVars
<1>0. TypeOK /\ SignUpInv /\ UsersAreRegistered
  BY DEF RememberedInv, SignUpInv
<1>1. accounts \subseteq accounts'
  BY <1>0, AccountsGrow
<1>2. \A i \in 1..Len(answers) :
         /\ answers[i] \in Attempts
         /\ attempt'[answers[i]].email = attempt[answers[i]].email
         /\ attempt[answers[i]].email \in accounts
  BY <1>0, AccountsGrow DEF TypeOK, UsersAreRegistered
<1>3. ASSUME UNCHANGED answers
      PROVE  \A i \in 1..Len(answers') : attempt'[answers'[i]].email \in accounts'
  BY <1>1, <1>2, <1>3
<1>4. CASE HomeLoaded
  BY <1>0, <1>3, <1>4 DEF HomeLoaded, UsersAreRegistered
<1>5. CASE ForcedSignOut
  BY <1>0, <1>3, <1>5 DEF ForcedSignOut, UsersAreRegistered
<1>6. CASE OpenFeed \/ Kill
  <2>1. \A i \in 1..Len(answers') : FALSE
    BY <1>0, <1>6, LoseFacts DEF OpenFeed, Kill
  <2>2. QED
    BY <1>0, <1>6, <2>1 DEF OpenFeed, Kill, UsersAreRegistered
<1>7. ASSUME NEW r \in Attempts, AccountCreated(r) PROVE UsersAreRegistered'
  <2>1. attempt[r].email \in accounts
    BY <1>0, <1>7 DEF AccountCreated, At, SignUpInv, RegisteringAlone, Registering
  <2>2. QED
    BY <1>0, <1>1, <1>3, <1>7, <2>1 DEF AccountCreated, UsersAreRegistered
<1>8. ASSUME NEW r \in Attempts, SignedIn(r) PROVE UsersAreRegistered'
  <2>1. /\ attempt[r].email \in accounts /\ accounts' = accounts
        /\ currentUser' = attempt[r].email /\ userEmail' = userEmail
        /\ answers' = Append(answers, r) /\ answers \in Seq(Attempts)
    BY <1>0, <1>8 DEF SignedIn, TypeOK
  <2>2. attempt'[r].email = attempt[r].email
    <3>1. attempt[r].kind = "logIn"
      BY <1>0, <1>8 DEF SignedIn, At, TypeOK, Records, NotPressed, SignUpStages
    <3>2. QED
      BY <1>0, <3>1, AccountsGrow
  <2>3. /\ Len(answers') = Len(answers) + 1
        /\ answers'[Len(answers) + 1] = r
        /\ \A i \in 1..Len(answers) : answers'[i] = answers[i]
        /\ \A i \in 1..(Len(answers) + 1) : i = Len(answers) + 1 \/ i \in 1..Len(answers)
    BY <2>1
  <2>4. \A i \in 1..Len(answers') : attempt'[answers'[i]].email \in accounts'
    BY <1>2, <2>1, <2>2, <2>3
  <2>5. QED
    BY <1>0, <2>1, <2>4 DEF UsersAreRegistered
<1>9. CASE LogInDone
  <2>1. /\ userEmail' = attempt[answers[1]].email /\ accounts' = accounts
        /\ currentUser' = currentUser
        /\ answers # <<>> /\ answers \in Seq(Attempts) /\ answers' = Tail(answers)
    BY <1>0, <1>9 DEF LogInDone, TypeOK
  <2>2. /\ 1 \in 1..Len(answers) /\ Len(answers') = Len(answers) - 1
        /\ \A i \in 1..Len(answers') : answers'[i] = answers[i + 1] /\ i + 1 \in 1..Len(answers)
    BY <2>1
  <2>3. \A i \in 1..Len(answers') : attempt'[answers'[i]].email \in accounts'
    BY <1>2, <2>1, <2>2
  <2>4. QED
    BY <1>0, <1>2, <2>1, <2>2, <2>3 DEF UsersAreRegistered
<1>10. CASE UNCHANGED <<currentUser, userEmail, answers>>
  BY <1>0, <1>1, <1>3, <1>10 DEF UsersAreRegistered
<1>11. QED
  BY <1>4, <1>5, <1>6, <1>7, <1>8, <1>9, <1>10
  DEF Next, vars, SignUpStep, Launch, ShowLogin, ShowRegister, EnterDashboard, OpenHomeTab,
      Logout, PressSignUp, PressLogIn, CreateAccount, StorePicture, PictureLinked, StoreProfile,
      ProfileSaved, SignUpFails, LogInFails

(***************************************************************************)
(* The address remembered for the next launch, written by log-ins          *)
(* (LoginViewController.swift:81) and Home screens                         *)
(* (HomeViewController.swift:31), always names a registered account.       *)
(***************************************************************************)
THEOREM RememberedAlwaysRegistered == Spec => []RememberedIsRegistered
<1>1. Init => UsersAreRegistered
  BY EmptyQueue DEF Init, UsersAreRegistered
<1>2. SignUpInv /\ UsersAreRegistered /\ [Next]_vars => UsersAreRegistered'
  BY RememberedStep DEF RememberedInv
<1>3. UsersAreRegistered => RememberedIsRegistered
  BY DEF UsersAreRegistered, RememberedIsRegistered
<1>4. QED
  BY <1>1, <1>2, <1>3, SignUpInvariance, PTL DEF Spec

\* A sign-up that has been answered stays answered.
LEMMA AnsweredForGood ==
    ASSUME TypeOK, [Next]_vars, NoSignUpAnswered'
    PROVE  NoSignUpAnswered
<1> SUFFICES ASSUME NEW q \in Attempts, attempt[q].kind = "signUp",
                    attempt[q].stage \notin {"creating", "created"}
             PROVE  FALSE
  BY DEF NoSignUpAnswered
<1>0. attempt'[q].kind # "signUp" \/ attempt'[q].stage \in {"creating", "created"}
  BY DEF NoSignUpAnswered
<1>1. CASE OpenFeed \/ Kill
  <2>1. attempt[q].stage # "unused"
    BY DEF TypeOK, Records, NotPressed, SignUpStages
  <2>2. QED
    BY <1>0, <1>1, <2>1, LoseFacts DEF OpenFeed, Kill
<1>2. ASSUME NEW r \in Attempts, NEW e \in Emails, PressSignUp(r, e) \/ PressLogIn(r, e)
      PROVE  FALSE
  <2>1. attempt[q].stage # "unused"
    BY DEF TypeOK, Records, NotPressed, SignUpStages
  <2>2. attempt[r].stage = "unused" /\ \A x \in Attempts \ {r} : attempt'[x] = attempt[x]
    BY <1>2 DEF PressSignUp, PressLogIn, Start, At, TypeOK
  <2>3. QED
    BY <1>0, <2>1, <2>2
<1>3. ASSUME NEW r \in Attempts, NEW s, Advance(r, s), r # q PROVE FALSE
  BY <1>0, <1>3 DEF Advance, TypeOK
<1>4. ASSUME NEW s, Advance(q, s), s \notin {"creating", "created"} PROVE FALSE
  <2>1. attempt'[q].kind = "signUp" /\ attempt'[q].stage = s
    BY <1>4 DEF Advance, TypeOK, Records, NotPressed
  <2>2. QED
    BY <1>0, <1>4, <2>1
<1>5. ASSUME NEW r \in Attempts, SignUpStep(r) PROVE FALSE
  BY <1>3, <1>4, <1>5
  DEF SignUpStep, CreateAccount, AccountCreated, StorePicture, PictureLinked, StoreProfile,
      ProfileSaved, SignUpFails, At
<1>6. ASSUME NEW r \in Attempts, SignedIn(r) \/ LogInFails(r) PROVE FALSE
  BY <1>3, <1>4, <1>6 DEF SignedIn, LogInFails
<1>7. CASE LogInDone
  <2>1. Head(answers) \in Attempts
    BY <1>7 DEF LogInDone, TypeOK
  <2>2. QED
    BY <1>3, <1>4, <1>7, <2>1 DEF LogInDone
<1>8. CASE UNCHANGED attempt
  BY <1>0, <1>8
<1>9. QED
  BY <1>1, <1>2, <1>5, <1>6, <1>7, <1>8
  DEF Next, vars, Launch, ShowLogin, ShowRegister, EnterDashboard, OpenHomeTab, HomeLoaded, Logout,
      ForcedSignOut

(***************************************************************************)
(* On a loaded dashboard the address remembered is the one that Auth has   *)
(* (HomeViewController.swift:30-31), however log-ins overlap and whenever  *)
(* the app is killed.                                                      *)
(***************************************************************************)
THEOREM DashboardAlwaysKnowsUser == Spec => []DashboardKnowsUser
<1>1. Init => DashboardKnowsUser
  BY DEF Init, DashboardKnowsUser
<1>2. TypeOK /\ DashboardKnowsUser /\ [Next]_vars => DashboardKnowsUser'
  <2> SUFFICES ASSUME TypeOK, DashboardKnowsUser, [Next]_vars,
                      screen' = "dashboard", ~homeLoading', answers' = <<>>,
                      NoSignUpAnswered', currentUser' # Nobody
               PROVE  userEmail' = currentUser'
    BY Zenon DEF DashboardKnowsUser
  <2> USE DEF serverVars, phoneVars
  <2>1. NoSignUpAnswered
    BY AnsweredForGood
  <2>2. CASE UNCHANGED <<screen, homeLoading, answers, currentUser, userEmail>>
    BY <2>1, <2>2 DEF DashboardKnowsUser
  <2>3. CASE HomeLoaded
    BY <2>3 DEF HomeLoaded
  <2>4. CASE OpenFeed \/ Kill
    BY <2>4 DEF OpenFeed, Kill, LoseCompletions
  <2>5. CASE Launch \/ ShowLogin \/ ShowRegister \/ EnterDashboard \/ OpenHomeTab \/ Logout
    BY <2>5 DEF Launch, ShowLogin, ShowRegister, EnterDashboard, OpenHomeTab, Logout
  <2>6. CASE ForcedSignOut
    BY <2>6 DEF ForcedSignOut
  <2>7. ASSUME NEW r \in Attempts, NEW e \in Emails, PressSignUp(r, e) PROVE FALSE
    BY <2>7 DEF PressSignUp
  <2>8. ASSUME NEW r \in Attempts, AccountCreated(r) PROVE FALSE
    <3>1. attempt[r].stage = "created"
      BY <2>8 DEF AccountCreated, At
    <3>2. attempt'[r].kind = "signUp" /\ attempt'[r].stage = "uploading"
      <4>1. Advance(r, "uploading") /\ attempt[r].stage \in SignUpStages
        BY <2>8, <3>1 DEF AccountCreated, SignUpStages
      <4>2. QED
        BY <4>1, SignUpFacts DEF SignUpStages
    <3>3. QED
      BY <3>2 DEF NoSignUpAnswered
  <2>9. ASSUME NEW r \in Attempts, SignedIn(r) PROVE FALSE
    <3>1. answers' = Append(answers, r) /\ answers \in Seq(Attempts)
      BY <2>9 DEF SignedIn, TypeOK
    <3>2. Len(answers') = Len(answers) + 1 /\ Len(answers) \in Nat
      BY <3>1
    <3>3. Len(answers') = 0
      OBVIOUS
    <3>4. QED
      BY <3>2, <3>3
  <2>10. CASE LogInDone
    BY <2>10 DEF LogInDone
  <2>11. QED
    BY <2>2, <2>3, <2>4, <2>5, <2>6, <2>7, <2>8, <2>9, <2>10
    DEF Next, vars, SignUpStep, PressLogIn, CreateAccount, StorePicture, PictureLinked,
        StoreProfile, ProfileSaved, SignUpFails, LogInFails
<1>3. QED
  BY <1>1, <1>2, TypeCorrect, PTL DEF Spec

=============================================================================
