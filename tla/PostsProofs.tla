---------------------------- MODULE PostsProofs ----------------------------
(***************************************************************************)
(* Proofs about Posts, for any numbers of presses, editors and refreshes.  *)
(***************************************************************************)
EXTENDS Posts, TLAPS

\* The main queue starts with no answer in it, and a new process has none.
LEMMA NoAnswers == <<>> \in Seq(SUBSET Presses)
  OBVIOUS

\* A freshly started app has its types.
LEMMA InitialTypes == Init => TypeOK
<1> SUFFICES ASSUME Init PROVE TypeOK
  OBVIOUS
<1>1. press \in [Presses -> PressRecords]
  BY DEF Init, PressRecords, Stages
<1>2. answers \in Seq(SUBSET Presses)
  BY NoAnswers DEF Init
<1>3. /\ images \subseteq Presses /\ posts \subseteq Presses /\ mediaModelData \subseteq Presses
      /\ opened \subseteq Editors /\ editor \in Editors \cup {NoEditor}
      /\ userFetches \in Nat /\ postFetches \in Nat
  BY DEF Init
<1>4. {editorUser, pickedImage, imageShown, currentUserData} \subseteq BOOLEAN
  BY DEF Init
<1>5. QED
  BY <1>1, <1>2, <1>3, <1>4 DEF TypeOK

(***************************************************************************)
(* Every variable of the editor, the uploads and the feed keeps its type.  *)
(***************************************************************************)
THEOREM TypeCorrect == Spec => []TypeOK
<1>1. TypeOK /\ [Next]_vars => TypeOK'
  <2> SUFFICES ASSUME TypeOK, [Next]_vars PROVE TypeOK'
    OBVIOUS
  <2> USE DEF TypeOK
  <2>1. ASSUME NEW p \in Presses, NEW s \in Stages, Advance(p, s)
        PROVE press' \in [Presses -> PressRecords]
    BY <2>1 DEF Advance, PressRecords
  <2>2. CASE FeedAppears
    BY <2>2 DEF FeedAppears, uploadVars, editorVars
  <2>3. CASE UserFetched
    BY <2>3 DEF UserFetched, uploadVars, editorVars
  <2>4. CASE PostsAnswered
    BY <2>4 DEF PostsAnswered, PostsRead, uploadVars, editorVars
  <2>5. CASE PostsShown
    <3>1. Head(answers) \in SUBSET Presses /\ Tail(answers) \in Seq(SUBSET Presses)
      BY <2>5 DEF PostsShown
    <3>2. QED
      BY <2>5, <3>1 DEF PostsShown, uploadVars, editorVars
  <2>6. ASSUME NEW e \in Editors, OpenEditor(e) PROVE TypeOK'
    BY <2>6 DEF OpenEditor, uploadVars, feedVars
  <2>7. CASE PickImage
    BY <2>7 DEF PickImage, uploadVars, feedVars
  <2>8. CASE CancelImage
    BY <2>8 DEF CancelImage, uploadVars, feedVars
  <2>9. CASE Back
    BY <2>9 DEF Back, Pop, uploadVars
  <2>10. ASSUME NEW p \in Presses, PressPost(p) PROVE TypeOK'
    BY <2>10 DEF PressPost, editorVars, feedVars, PressRecords, Stages
  <2>11. ASSUME NEW p \in Presses, PicturePut(p) PROVE TypeOK'
    <3>1. press' \in [Presses -> PressRecords]
      BY <2>1, <2>11 DEF PicturePut, Stages
    <3>2. QED
      BY <2>11, <3>1 DEF PicturePut, editorVars, feedVars
  <2>12. ASSUME NEW p \in Presses, PictureLinked(p) PROVE TypeOK'
    <3>1. press' \in [Presses -> PressRecords]
      BY <2>1, <2>12 DEF PictureLinked, Stages
    <3>2. QED
      BY <2>12, <3>1 DEF PictureLinked, editorVars, feedVars
  <2>13. ASSUME NEW p \in Presses, StorePost(p) PROVE TypeOK'
    <3>1. press' \in [Presses -> PressRecords]
      BY <2>1, <2>13 DEF StorePost, Stages
    <3>2. QED
      BY <2>13, <3>1 DEF StorePost, editorVars, feedVars
  <2>14. ASSUME NEW p \in Presses, UploadFails(p) PROVE TypeOK'
    <3>1. press' \in [Presses -> PressRecords]
      BY <2>1, <2>14 DEF UploadFails, Stages
    <3>2. QED
      BY <2>14, <3>1 DEF UploadFails, editorVars, feedVars
  <2>15. ASSUME NEW p \in Presses, PostSaved(p) PROVE TypeOK'
    <3>1. press' \in [Presses -> PressRecords]
      BY <2>1, <2>15 DEF PostSaved, Stages
    <3>2. QED
      BY <2>15, <3>1 DEF PostSaved, Pop, editorVars, feedVars
  <2>16. CASE UserFetchDropped
    BY <2>16 DEF UserFetchDropped, uploadVars, editorVars
  <2>17. CASE PostsRefused
    BY <2>17 DEF PostsRefused, uploadVars, editorVars
  <2>18. CASE Kill
    <3>1. press' \in [Presses -> PressRecords]
      BY <2>18 DEF Kill, PressRecords, Stages
    <3>2. QED
      BY <2>18, <3>1, NoAnswers DEF Kill
  <2>19. CASE UNCHANGED vars
    BY <2>19 DEF vars, uploadVars, editorVars, feedVars
  <2>20. QED
    BY <2>2, <2>3, <2>4, <2>5, <2>6, <2>7, <2>8, <2>9, <2>10, <2>11, <2>12, <2>13, <2>14,
       <2>15, <2>16, <2>17, <2>18, <2>19 DEF Next, Steps, Troubles
<1>2. QED
  BY InitialTypes, <1>1, PTL DEF Spec

----------------------------------------------------------------------------
(* A press whose picture is on its way to the database has stored it. *)
StoredBeforeSaving ==
    \A p \in Presses :
        /\ p \in posts => press[p].stage \in {"saved", "ended"}
        /\ (press[p].picture /\ press[p].stage \in {"linking", "saving", "saved"}) => p \in images

UploadInv == TypeOK /\ StoredBeforeSaving /\ PicturesBehindPosts

(***************************************************************************)
(* uploadPost stores the picture before the post: a stored post never      *)
(* names a picture that is not stored, whatever overlaps or fails.         *)
(***************************************************************************)
THEOREM PicturesStored == Spec => []PicturesBehindPosts
<1>1. Init => UploadInv
  <2>1. Init => TypeOK
    BY InitialTypes
  <2>2. QED
    BY <2>1 DEF Init, UploadInv, StoredBeforeSaving, PicturesBehindPosts
<1>2. UploadInv /\ TypeOK' /\ [Next]_vars => UploadInv'
  <2> SUFFICES ASSUME UploadInv, TypeOK', [Next]_vars
               PROVE  StoredBeforeSaving' /\ PicturesBehindPosts'
    BY DEF UploadInv
  <2> USE DEF UploadInv, StoredBeforeSaving, PicturesBehindPosts, At
  <2>1. ASSUME NEW p \in Presses, NEW s \in Stages, Advance(p, s)
        PROVE /\ press'[p].stage = s /\ press'[p].picture = press[p].picture
              /\ \A q \in Presses \ {p} : press'[q] = press[q]
    BY <2>1 DEF Advance, TypeOK, PressRecords
  <2>2. ASSUME UNCHANGED uploadVars PROVE StoredBeforeSaving' /\ PicturesBehindPosts'
    <3>1. images' = images /\ posts' = posts /\ press' = press
      BY <2>2 DEF uploadVars
    <3>2. QED
      BY <3>1
  <2>3. ASSUME NEW p \in Presses, PressPost(p)
        PROVE  StoredBeforeSaving' /\ PicturesBehindPosts'
    <3>1. p \notin posts
      BY <2>3 DEF PressPost
    <3>2. /\ press'[p].picture => press'[p].stage = "putting"
          /\ \A q \in Presses \ {p} : press'[q] = press[q]
      BY <2>3 DEF PressPost, TypeOK
    <3>3. QED
      BY <2>3, <3>1, <3>2 DEF PressPost, TypeOK
  <2>4. ASSUME NEW p \in Presses, PicturePut(p)
        PROVE  StoredBeforeSaving' /\ PicturesBehindPosts'
    BY <2>1, <2>4 DEF PicturePut, Stages, TypeOK
  <2>5. ASSUME NEW p \in Presses, PictureLinked(p)
        PROVE  StoredBeforeSaving' /\ PicturesBehindPosts'
    BY <2>1, <2>5 DEF PictureLinked, Stages, TypeOK
  <2>6. ASSUME NEW p \in Presses, StorePost(p)
        PROVE  StoredBeforeSaving' /\ PicturesBehindPosts'
    BY <2>1, <2>6 DEF StorePost, Stages, TypeOK
  <2>7. ASSUME NEW p \in Presses, UploadFails(p)
        PROVE  StoredBeforeSaving' /\ PicturesBehindPosts'
    BY <2>1, <2>7 DEF UploadFails, Stages, TypeOK
  <2>8. ASSUME NEW p \in Presses, PostSaved(p)
        PROVE  StoredBeforeSaving' /\ PicturesBehindPosts'
    BY <2>1, <2>8 DEF PostSaved, Stages, TypeOK
  <2>9. CASE Kill
    <3>1. \A q \in Presses :
             /\ press'[q].picture = press[q].picture
             /\ press'[q].stage \in {"unused", "ended"}
             /\ press'[q].stage = "unused" => press'[q] = press[q]
      BY <2>9 DEF Kill, TypeOK, PressRecords
    <3>2. QED
      BY <2>9, <3>1 DEF Kill, TypeOK
  <2>10. QED
    BY <2>2, <2>3, <2>4, <2>5, <2>6, <2>7, <2>8, <2>9
    DEF Next, Steps, Troubles, FeedAppears, UserFetched, PostsAnswered, PostsShown, OpenEditor,
        PickImage, CancelImage, Back, UserFetchDropped, PostsRefused, vars
<1>3. UploadInv => PicturesBehindPosts
  BY DEF UploadInv
<1>4. QED
  BY <1>1, <1>2, <1>3, TypeCorrect, PTL DEF Spec

----------------------------------------------------------------------------
(* A press whose post the server has acknowledged has its post stored. *)
SavedIsStored == \A p \in Presses : press[p].stage = "saved" => p \in posts

(***************************************************************************)
(* The completion of an upload pops the editor the post was written in and *)
(* no other: an editor closes only by its back button, with the process,   *)
(* or when a post of its own is stored.                                    *)
(***************************************************************************)
THEOREM EditorsCloseOnTheirOwnPosts == Spec => EditorClosesOnItsOwnPost
<1>1. Init => SavedIsStored
  BY DEF Init, SavedIsStored
<1>2. TypeOK /\ SavedIsStored /\ [Next]_vars => SavedIsStored'
  <2> SUFFICES ASSUME TypeOK, SavedIsStored, [Next]_vars PROVE SavedIsStored'
    OBVIOUS
  <2> USE DEF SavedIsStored, At
  <2>1. ASSUME NEW p \in Presses, NEW s \in Stages, Advance(p, s)
        PROVE press'[p].stage = s /\ \A q \in Presses \ {p} : press'[q] = press[q]
    BY <2>1 DEF Advance, TypeOK, PressRecords
  <2>2. CASE UNCHANGED uploadVars
    BY <2>2 DEF uploadVars
  <2>3. ASSUME NEW p \in Presses, PressPost(p) PROVE SavedIsStored'
    BY <2>3 DEF PressPost, TypeOK
  <2>4. ASSUME NEW p \in Presses, PicturePut(p) \/ PictureLinked(p) \/ StorePost(p)
                                   \/ UploadFails(p) \/ PostSaved(p)
        PROVE SavedIsStored'
    BY <2>1, <2>4 DEF PicturePut, PictureLinked, StorePost, UploadFails, PostSaved, Stages
  <2>5. CASE Kill
    BY <2>5 DEF Kill, TypeOK, PressRecords
  <2>6. QED
    BY <2>2, <2>3, <2>4, <2>5
    DEF Next, Steps, Troubles, FeedAppears, UserFetched, PostsAnswered, PostsShown, OpenEditor,
        PickImage, CancelImage, Back, UserFetchDropped, PostsRefused, vars
<1>3. SavedIsStored /\ [Next]_vars =>
         [(editor # NoEditor /\ editor' # editor) =>
             \/ Back
             \/ Kill
             \/ \E p \in posts : press[p].editor = editor]_vars
  <2> SUFFICES ASSUME SavedIsStored, Next, editor # NoEditor, editor' # editor, ~Back, ~Kill
               PROVE \E p \in posts : press[p].editor = editor
    BY DEF vars
  <2>1. PICK p \in Presses : PostSaved(p)
    BY DEF Next, Steps, Troubles, FeedAppears, UserFetched, PostsAnswered, PostsShown, OpenEditor,
           PickImage, CancelImage, UserFetchDropped, PostsRefused, PressPost, PicturePut,
           PictureLinked, StorePost, UploadFails, editorVars
  <2>2. p \in posts /\ press[p].editor = editor
    BY <2>1 DEF PostSaved, SavedIsStored, At, editorVars
  <2>3. QED
    BY <2>2
<1>4. QED
  BY <1>1, <1>2, <1>3, TypeCorrect, PTL DEF Spec, EditorClosesOnItsOwnPost

----------------------------------------------------------------------------
\* Answers after one that has the post have it, too, unless they were refused.
KeptByAnswers(p) ==
    /\ p \in mediaModelData => \A i \in 1..Len(answers) : answers[i] = {} \/ p \in answers[i]
    /\ \A i, j \in 1..Len(answers) :
          (i < j /\ p \in answers[i]) => (answers[j] = {} \/ p \in answers[j])

\* Nobody has read the post.
Unread(p) ==
    /\ p \notin posts /\ p \notin mediaModelData
    /\ \A i \in 1..Len(answers) : p \notin answers[i]

Unwritten == {"unused", "putting", "linking"}

\* A post is read by nobody before it is written, and by everybody after.
ReadsGrow ==
    \A p \in Presses :
        /\ p \in PostsRead => KeptByAnswers(p)
        /\ press[p].stage \in Unwritten => Unread(p)

\* A post that nobody has read is kept by all answers.
LEMMA UnreadIsKept ==
    ASSUME NEW p \in Presses, Unread(p)
    PROVE  KeptByAnswers(p)
BY DEF Unread, KeptByAnswers

\* Steps that leave the answers and the feed alone.
LEMMA UploadKeepsReads ==
    ASSUME TypeOK, ReadsGrow, UNCHANGED <<answers, mediaModelData>>,
           \A p \in Presses :
              /\ p \in PostsRead' => p \in PostsRead \/ press[p].stage \in Unwritten
              /\ press'[p].stage \in Unwritten =>
                    press[p].stage \in Unwritten /\ (p \in posts' => p \in posts)
    PROVE  ReadsGrow'
<1> SUFFICES ASSUME NEW p \in Presses
             PROVE  /\ p \in PostsRead' => KeptByAnswers(p)'
                    /\ press'[p].stage \in Unwritten => Unread(p)'
  BY DEF ReadsGrow
<1>1. KeptByAnswers(p) => KeptByAnswers(p)'
  BY DEF KeptByAnswers
<1>2. press'[p].stage \in Unwritten => Unread(p)'
  BY DEF ReadsGrow, Unread
<1>3. p \in PostsRead' => KeptByAnswers(p)
  BY UnreadIsKept DEF ReadsGrow
<1>4. QED
  BY <1>1, <1>2, <1>3

\* An answer that is new holds everything written so far, or was refused.
LEMMA AnswerKeepsReads ==
    ASSUME TypeOK, ReadsGrow, NEW S \in SUBSET Presses, S = {} \/ S = PostsRead,
           answers' = Append(answers, S), UNCHANGED <<uploadVars, mediaModelData>>
    PROVE  ReadsGrow'
<1>1. /\ Len(answers) \in Nat /\ Len(answers') = Len(answers) + 1
      /\ answers'[Len(answers) + 1] = S
      /\ \A i \in 1..Len(answers) : answers'[i] = answers[i]
      /\ \A i \in 1..Len(answers') : i = Len(answers) + 1 \/ i \in 1..Len(answers)
  BY DEF TypeOK
<1>2. posts' = posts /\ press' = press /\ PostsRead' = PostsRead
  BY DEF uploadVars, PostsRead, At
<1>3. ASSUME NEW p \in Presses, p \in PostsRead PROVE KeptByAnswers(p)'
  <2>1. KeptByAnswers(p) /\ (S = {} \/ p \in S)
    BY <1>3 DEF ReadsGrow
  <2>2. p \in mediaModelData => \A i \in 1..Len(answers') : answers'[i] = {} \/ p \in answers'[i]
    BY <1>1, <2>1 DEF KeptByAnswers
  <2>3. ASSUME NEW i \in 1..Len(answers'), NEW j \in 1..Len(answers'), i < j, p \in answers'[i]
        PROVE  answers'[j] = {} \/ p \in answers'[j]
    <3>1. CASE j = Len(answers) + 1
      BY <1>1, <2>1, <3>1
    <3>2. CASE j \in 1..Len(answers)
      <4>1. i \in 1..Len(answers)
        BY <1>1, <2>3, <3>2
      <4>2. QED
        BY <1>1, <2>1, <2>3, <3>2, <4>1 DEF KeptByAnswers
    <3>3. QED
      BY <1>1, <3>1, <3>2
  <2>4. QED
    BY <2>2, <2>3 DEF KeptByAnswers
<1>4. ASSUME NEW p \in Presses, press[p].stage \in Unwritten PROVE Unread(p)'
  <2>1. Unread(p) /\ p \notin S
    BY <1>4 DEF ReadsGrow, Unread, PostsRead, At, Unwritten
  <2>2. QED
    BY <1>1, <1>2, <2>1 DEF Unread
<1>5. QED
  BY <1>2, <1>3, <1>4 DEF ReadsGrow

\* Taking the oldest answer keeps what the later ones have.
LEMMA ShowingKeepsReads ==
    ASSUME TypeOK, ReadsGrow, PostsShown
    PROVE  ReadsGrow'
<1>1. /\ answers # <<>> /\ answers' = Tail(answers) /\ answers \in Seq(SUBSET Presses)
      /\ mediaModelData' = {p \in answers[1] : press[p].picture}
      /\ UNCHANGED uploadVars
  BY DEF PostsShown, TypeOK
<1>2. /\ Len(answers) \in Nat /\ 1 \in 1..Len(answers) /\ Len(answers') = Len(answers) - 1
      /\ \A i \in 1..Len(answers') :
            answers'[i] = answers[i + 1] /\ i + 1 \in 1..Len(answers) /\ 1 < i + 1
  BY <1>1
<1>3. posts' = posts /\ press' = press /\ PostsRead' = PostsRead
  BY <1>1 DEF uploadVars, PostsRead, At
<1>4. ASSUME NEW p \in Presses, p \in PostsRead PROVE KeptByAnswers(p)'
  <2>1. KeptByAnswers(p)
    BY <1>4 DEF ReadsGrow
  <2>2. p \in mediaModelData' =>
           \A i \in 1..Len(answers') : answers'[i] = {} \/ p \in answers'[i]
    BY <1>1, <1>2, <2>1 DEF KeptByAnswers
  <2>3. ASSUME NEW i \in 1..Len(answers'), NEW j \in 1..Len(answers'), i < j, p \in answers'[i]
        PROVE  answers'[j] = {} \/ p \in answers'[j]
    <3>1. i + 1 \in 1..Len(answers) /\ j + 1 \in 1..Len(answers) /\ i + 1 < j + 1
      BY <1>2, <2>3
    <3>2. QED
      BY <1>2, <2>1, <2>3, <3>1 DEF KeptByAnswers
  <2>4. QED
    BY <2>2, <2>3 DEF KeptByAnswers
<1>5. ASSUME NEW p \in Presses, press[p].stage \in Unwritten PROVE Unread(p)'
  BY <1>1, <1>2, <1>3, <1>5 DEF ReadsGrow, Unread
<1>6. QED
  BY <1>3, <1>4, <1>5 DEF ReadsGrow

\* One step per kind of action.
LEMMA NextKeepsReads == TypeOK /\ ReadsGrow /\ [Next]_vars => ReadsGrow'
<1> SUFFICES ASSUME TypeOK, ReadsGrow, [Next]_vars PROVE ReadsGrow'
  OBVIOUS
<1>1. CASE PostsAnswered
  <2>1. PostsRead \in SUBSET Presses
    BY DEF TypeOK, PostsRead
  <2>2. QED
    BY <1>1, <2>1, AnswerKeepsReads DEF PostsAnswered
<1>2. CASE PostsRefused
  <2>1. {} \in SUBSET Presses
    OBVIOUS
  <2>2. QED
    BY <1>2, <2>1, AnswerKeepsReads DEF PostsRefused
<1>3. CASE PostsShown
  BY <1>3, ShowingKeepsReads
<1>4. CASE Kill
  <2>1. answers' = <<>> /\ mediaModelData' = {} /\ posts' = posts
    BY <1>4 DEF Kill
  <2>2. Len(answers') = 0 /\ \A i \in 1..Len(answers') : FALSE
    BY <2>1
  <2>3. \A p \in Presses : press'[p].stage \in Unwritten => press[p].stage \in Unwritten
    BY <1>4 DEF Kill, TypeOK, PressRecords, Unwritten, At
  <2>4. QED
    BY <2>1, <2>2, <2>3 DEF ReadsGrow, KeptByAnswers, Unread
<1>5. CASE UNCHANGED <<uploadVars, answers, mediaModelData>>
  <2>1. posts' = posts /\ press' = press /\ PostsRead' = PostsRead
    BY <1>5 DEF uploadVars, PostsRead, At
  <2>2. QED
    BY <1>5, <2>1, UploadKeepsReads
<1>6. ASSUME NEW p \in Presses, NEW s \in Stages, Advance(p, s)
      PROVE press'[p].stage = s /\ \A q \in Presses \ {p} : press'[q] = press[q]
  BY <1>6 DEF Advance, TypeOK, PressRecords
<1>7. ASSUME NEW p \in Presses, PressPost(p) PROVE ReadsGrow'
  <2>1. /\ press[p].stage \in Unwritten /\ posts' = posts
        /\ \A q \in Presses \ {p} : press'[q] = press[q]
        /\ UNCHANGED <<answers, mediaModelData>>
    BY <1>7 DEF PressPost, TypeOK, At, Unwritten, feedVars
  <2>2. QED
    BY <2>1, UploadKeepsReads DEF PostsRead, At
<1>8. ASSUME NEW p \in Presses, PicturePut(p) \/ PictureLinked(p) PROVE ReadsGrow'
  <2>1. /\ press[p].stage \in Unwritten /\ posts' = posts
        /\ \A q \in Presses \ {p} : press'[q] = press[q]
        /\ UNCHANGED <<answers, mediaModelData>>
    BY <1>6, <1>8 DEF PicturePut, PictureLinked, At, Unwritten, feedVars, Stages
  <2>2. QED
    BY <2>1, UploadKeepsReads DEF PostsRead, At
<1>9. ASSUME NEW p \in Presses, StorePost(p) PROVE ReadsGrow'
  <2>1. /\ p \in PostsRead /\ posts' = posts \cup {p} /\ press'[p].stage = "saved"
        /\ \A q \in Presses \ {p} : press'[q] = press[q]
        /\ UNCHANGED <<answers, mediaModelData>>
    BY <1>6, <1>9 DEF StorePost, At, feedVars, Stages, PostsRead
  <2>2. QED
    BY <2>1, UploadKeepsReads DEF PostsRead, At, Unwritten
<1>10. ASSUME NEW p \in Presses, UploadFails(p) PROVE ReadsGrow'
  <2>1. /\ posts' = posts /\ press'[p].stage = "ended"
        /\ \A q \in Presses \ {p} : press'[q] = press[q]
        /\ UNCHANGED <<answers, mediaModelData>>
    BY <1>6, <1>10 DEF UploadFails, feedVars, Stages
  <2>2. QED
    BY <2>1, UploadKeepsReads DEF PostsRead, At, Unwritten
<1>11. ASSUME NEW p \in Presses, PostSaved(p) PROVE ReadsGrow'
  <2>1. /\ posts' = posts /\ press'[p].stage = "ended"
        /\ \A q \in Presses \ {p} : press'[q] = press[q]
        /\ UNCHANGED <<answers, mediaModelData>>
    BY <1>6, <1>11 DEF PostSaved, Pop, feedVars, Stages
  <2>2. QED
    BY <2>1, UploadKeepsReads DEF PostsRead, At, Unwritten
<1>12. CASE Back
  <2>1. UNCHANGED <<uploadVars, answers, mediaModelData>>
    BY <1>12 DEF Back, Pop
  <2>2. QED
    BY <1>5, <2>1
<1>13. QED
  BY <1>1, <1>2, <1>3, <1>4, <1>5, <1>7, <1>8, <1>9, <1>10, <1>11, <1>12
  DEF Next, Steps, Troubles, FeedAppears, UserFetched, OpenEditor, PickImage, CancelImage,
      UserFetchDropped, vars, feedVars, editorVars

\* The feed keeps posts that have all six fields only; a press that has been
\* read does not change any more.
ShownHavePictures == \A p \in mediaModelData : press[p].picture

LEMMA NextKeepsPictures ==
    TypeOK /\ ReadsGrow /\ ShownHavePictures /\ [Next]_vars => ShownHavePictures'
<1> SUFFICES ASSUME TypeOK, ReadsGrow, ShownHavePictures, [Next]_vars
             PROVE  ShownHavePictures'
  OBVIOUS
<1>1. CASE PostsShown
  BY <1>1 DEF PostsShown, ShownHavePictures, uploadVars
<1>2. CASE Kill
  BY <1>2 DEF Kill, ShownHavePictures
<1>3. CASE UNCHANGED <<press, mediaModelData>>
  BY <1>3 DEF ShownHavePictures
<1>4. ASSUME NEW p \in Presses, PressPost(p) PROVE ShownHavePictures'
  <2>1. p \notin mediaModelData /\ mediaModelData' = mediaModelData
    BY <1>4 DEF PressPost, ReadsGrow, Unread, Unwritten, At, feedVars
  <2>2. \A q \in Presses \ {p} : press'[q] = press[q]
    BY <1>4 DEF PressPost, TypeOK
  <2>3. QED
    BY <2>1, <2>2 DEF ShownHavePictures, TypeOK
<1>5. ASSUME NEW p \in Presses, NEW s \in Stages, Advance(p, s), mediaModelData' = mediaModelData
      PROVE  ShownHavePictures'
  <2>1. \A q \in Presses : press'[q].picture = press[q].picture
    BY <1>5 DEF Advance, TypeOK, PressRecords
  <2>2. QED
    BY <1>5, <2>1 DEF ShownHavePictures, TypeOK
<1>6. ASSUME NEW p \in Presses,
             PicturePut(p) \/ PictureLinked(p) \/ StorePost(p) \/ UploadFails(p) \/ PostSaved(p)
      PROVE  ShownHavePictures'
  <2>1. mediaModelData' = mediaModelData /\ \E s \in Stages : Advance(p, s)
    BY <1>6 DEF PicturePut, PictureLinked, StorePost, UploadFails, PostSaved, Pop, feedVars, Stages
  <2>2. QED
    BY <1>5, <2>1
<1>7. QED
  BY <1>1, <1>2, <1>3, <1>4, <1>6
  DEF Next, Steps, Troubles, FeedAppears, UserFetched, PostsAnswered, OpenEditor, PickImage,
      CancelImage, Back, Pop, UserFetchDropped, PostsRefused, vars, uploadVars, feedVars

(***************************************************************************)
(* Answers reach the feed in the order of the reads, and what was written  *)
(* stays written: a stored post that the feed shows leaves it only by a    *)
(* refused read or with the process, for any number of refreshes.          *)
(***************************************************************************)
THEOREM PostsStayShown == Spec => OnlyRefusalsHidePosts
<1>1. Init => ReadsGrow /\ ShownHavePictures
  <2> SUFFICES ASSUME Init PROVE ReadsGrow /\ ShownHavePictures
    OBVIOUS
  <2>1. Len(answers) = 0 /\ mediaModelData = {} /\ posts = {}
    BY DEF Init
  <2>2. \A p \in Presses : Unread(p)
    BY <2>1 DEF Unread
  <2>3. QED
    BY <2>1, <2>2, UnreadIsKept DEF ReadsGrow, ShownHavePictures
<1>2. TypeOK /\ ReadsGrow /\ ShownHavePictures /\ [Next]_vars =>
         [\A p \in mediaModelData \cap posts :
             p \notin mediaModelData' => Kill \/ (PostsShown /\ Head(answers) = {})]_vars
  <2> SUFFICES ASSUME TypeOK, ReadsGrow, ShownHavePictures, Next,
                      NEW p \in mediaModelData \cap posts,
                      p \notin mediaModelData', ~Kill
               PROVE  PostsShown /\ Head(answers) = {}
    BY DEF vars
  <2>1. PostsShown
    BY DEF Next, Steps, Troubles, FeedAppears, UserFetched, PostsAnswered, OpenEditor, PickImage,
           CancelImage, Back, Pop, UserFetchDropped, PostsRefused, PressPost, PicturePut,
           PictureLinked, StorePost, UploadFails, PostSaved, feedVars
  <2>2. p \in Presses /\ KeptByAnswers(p)
    BY DEF TypeOK, ReadsGrow, PostsRead
  <2>3. 1 \in 1..Len(answers) /\ Head(answers) = answers[1]
    BY <2>1 DEF PostsShown, TypeOK
  <2>4. Head(answers) = {} \/ p \in Head(answers)
    BY <2>2, <2>3 DEF KeptByAnswers
  <2>5. press[p].picture
    BY DEF ShownHavePictures
  <2>6. QED
    BY <2>1, <2>4, <2>5 DEF PostsShown
<1>3. QED
  BY <1>1, <1>2, NextKeepsReads, NextKeepsPictures, TypeCorrect, PTL
  DEF Spec, OnlyRefusalsHidePosts

=============================================================================
