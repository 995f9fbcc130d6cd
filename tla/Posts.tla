------------------------------- MODULE Posts -------------------------------
(***************************************************************************)
(* Posting a thought (PostViewController, MessageManager.uploadPost) and   *)
(* the feed that shows the posts (FeedViewController, fetchUserPosts).     *)
(*                                                                         *)
(*   press Post -> putData -> downloadURL -> setValue -> leave the editor  *)
(*   feed appears -> fetch the user -> fetch the posts -> reload           *)
(*                                                                         *)
(* Every step is the completion of a request.  The editor does not wait:   *)
(* Post can be pressed again, and the editor left, while uploads go on.    *)
(*                                                                         *)
(* Left out: what a post says, its order in the feed, other users' posts,  *)
(* and signing out (the module Account has it): the user is signed in.     *)
(***************************************************************************)
EXTENDS Integers, Sequences

CONSTANTS
    Presses,         \* bound: presses of the Post button; each has its own UUID and key
    Editors,         \* bound: times the editor is opened
    NoEditor,        \* the feed is on top
    MaxRefreshes     \* bound: refreshes of the feed under way when it appears again

ASSUME NoEditorAssumption == NoEditor \notin Editors

VARIABLES
    images,          \* Firebase Storage: presses whose picture is stored
    posts,           \* Realtime Database, "posts": presses whose post is stored
    press,           \* press[p]: what was in the editor, and how far the upload has come
    editor,          \* the editor on top of the feed
    opened,          \* editors opened so far
    editorUser,      \* the editor's currentUserData is not nil
    pickedImage,     \* pickedImage holds a picture (UIImage() has no JPEG data)
    imageShown,      \* imgMedia and the cancel button are visible
    userFetches,     \* fetchCurrentUser calls not answered
    postFetches,     \* fetchUserPosts calls not answered
    answers,         \* snapshots of "posts" whose completions wait in the main queue
    currentUserData, \* the feed's currentUserData is not nil
    mediaModelData   \* the posts the feed shows

uploadVars == <<images, posts, press>>
editorVars == <<editor, opened, editorUser, pickedImage, imageShown>>
feedVars == <<userFetches, postFetches, answers, currentUserData, mediaModelData>>
vars == <<uploadVars, editorVars, feedVars>>

Stages == {"unused", "putting", "linking", "saving", "saved", "ended"}
PressRecords ==
    [editor : Editors \cup {NoEditor}, picture : BOOLEAN, preview : BOOLEAN, stage : Stages]

TypeOK ==
    /\ images \subseteq Presses
    /\ posts \subseteq Presses
    /\ press \in [Presses -> PressRecords]
    /\ editor \in Editors \cup {NoEditor}
    /\ opened \subseteq Editors
    /\ editorUser \in BOOLEAN
    /\ pickedImage \in BOOLEAN
    /\ imageShown \in BOOLEAN
    /\ userFetches \in Nat
    /\ postFetches \in Nat
    /\ answers \in Seq(SUBSET Presses)
    /\ currentUserData \in BOOLEAN
    /\ mediaModelData \subseteq Presses

Init ==
    /\ images = {}
    /\ posts = {}
    /\ press = [p \in Presses |->
                   [editor |-> NoEditor, picture |-> FALSE, preview |-> FALSE, stage |-> "unused"]]
    /\ editor = NoEditor
    /\ opened = {}
    /\ editorUser = FALSE
    /\ pickedImage = FALSE
    /\ imageShown = FALSE
    /\ userFetches = 0
    /\ postFetches = 0
    /\ answers = <<>>
    /\ currentUserData = FALSE
    /\ mediaModelData = {}

At(p, s) == press[p].stage = s

Advance(p, s) == press' = [press EXCEPT ![p].stage = s]

\* "posts" as this phone reads it: its unacknowledged writes are in it.
PostsRead == posts \cup {p \in Presses : At(p, "saving")}

\* Popping the editor shows the feed again, whose viewWillAppear refreshes it.
Pop ==
    /\ editor' = NoEditor
    /\ userFetches' = userFetches + 1
    /\ UNCHANGED <<opened, editorUser, pickedImage, imageShown,
                   postFetches, answers, currentUserData, mediaModelData>>

----------------------------------------------------------------------------
(* The feed. *)

\* viewWillAppear: the feed's tab is selected.
FeedAppears ==
    /\ editor = NoEditor
    /\ userFetches + postFetches + Len(answers) < MaxRefreshes
    /\ userFetches' = userFetches + 1
    /\ UNCHANGED <<uploadVars, editorVars, postFetches, answers, currentUserData, mediaModelData>>

\* fetchCurrentUser's completion, with or without a profile, asks for the posts.
UserFetched ==
    /\ userFetches > 0
    /\ userFetches' = userFetches - 1
    /\ currentUserData' \in BOOLEAN
    /\ postFetches' = postFetches + 1
    /\ UNCHANGED <<uploadVars, editorVars, answers, mediaModelData>>

\* Mutant of UserFetchDropped: a refused read of the profile takes a read of
\* the posts with it.
UserFetchDroppedWithPosts ==
    /\ userFetches > 0
    /\ userFetches' = userFetches - 1
    /\ postFetches' = postFetches - 1
    /\ UNCHANGED <<uploadVars, editorVars, answers, currentUserData, mediaModelData>>

\* A refused read of the profile: its observer has no cancel block.
UserFetchDropped ==
    /\ userFetches > 0
    /\ userFetches' = userFetches - 1
    /\ UNCHANGED <<uploadVars, editorVars, postFetches, answers, currentUserData, mediaModelData>>

\* The database answers fetchUserPosts; the completion goes to the main queue.
PostsAnswered ==
    /\ postFetches > 0
    /\ postFetches' = postFetches - 1
    /\ answers' = Append(answers, PostsRead)
    /\ UNCHANGED <<uploadVars, editorVars, userFetches, currentUserData, mediaModelData>>

\* A refused read of the posts completes with no post at all.
PostsRefused ==
    /\ postFetches > 0
    /\ postFetches' = postFetches - 1
    /\ answers' = Append(answers, {})
    /\ UNCHANGED <<uploadVars, editorVars, userFetches, currentUserData, mediaModelData>>

\* Mutant of PostsShown: answers are taken newest first.
PostsShownNewestFirst ==
    /\ answers # <<>>
    /\ mediaModelData' = {p \in answers[Len(answers)] : press[p].picture}
    /\ answers' = SubSeq(answers, 1, Len(answers) - 1)
    /\ UNCHANGED <<uploadVars, editorVars, userFetches, postFetches, currentUserData>>

\* fetchMediaPost's completion: keep the posts that have all six fields.
PostsShown ==
    /\ answers # <<>>
    /\ mediaModelData' = {p \in Head(answers) : press[p].picture}
    /\ answers' = Tail(answers)
    /\ UNCHANGED <<uploadVars, editorVars, userFetches, postFetches, currentUserData>>

----------------------------------------------------------------------------
(* The editor. *)

\* didSelectRowAt: a new editor gets the user as the feed has it now.
OpenEditor(e) ==
    /\ editor = NoEditor
    /\ e \notin opened
    /\ editor' = e
    /\ opened' = opened \cup {e}
    /\ editorUser' = currentUserData
    /\ pickedImage' = FALSE
    /\ imageShown' = FALSE
    /\ UNCHANGED <<uploadVars, feedVars>>

PickImage ==
    /\ editor # NoEditor
    /\ pickedImage' = TRUE
    /\ imageShown' = TRUE
    /\ UNCHANGED <<uploadVars, editor, opened, editorUser, feedVars>>

\* onClickMediaCancelAction hides the picture; pickedImage stays.
CancelImage ==
    /\ editor # NoEditor
    /\ imageShown
    /\ imageShown' = FALSE
    /\ UNCHANGED <<uploadVars, editor, opened, editorUser, pickedImage, feedVars>>

\* Mutant of PressPost: it sends what is in the editor at once, upload or not.
PressPostHasty(p) ==
    /\ editor # NoEditor
    /\ editorUser
    /\ At(p, "unused")
    /\ press' = [press EXCEPT ![p] =
                    [editor |-> editor, picture |-> pickedImage, preview |-> imageShown,
                     stage |-> "saving"]]
    /\ UNCHANGED <<images, posts, editorVars, feedVars>>

\* onClickPostAction does nothing without a user; without a picture uploadPost
\* goes straight to the database.
PressPost(p) ==
    /\ editor # NoEditor
    /\ editorUser
    /\ At(p, "unused")
    /\ press' = [press EXCEPT ![p] =
                    [editor |-> editor, picture |-> pickedImage, preview |-> imageShown,
                     stage |-> IF pickedImage THEN "putting" ELSE "saving"]]
    /\ UNCHANGED <<images, posts, editorVars, feedVars>>

Back ==
    /\ editor # NoEditor
    /\ Pop
    /\ UNCHANGED uploadVars

----------------------------------------------------------------------------
(* uploadPost. *)

PicturePut(p) ==
    /\ At(p, "putting")
    /\ images' = images \cup {p}
    /\ Advance(p, "linking")
    /\ UNCHANGED <<posts, editorVars, feedVars>>

\* downloadURL's completion: setValue, visible to this phone from now on.
PictureLinked(p) ==
    /\ At(p, "linking")
    /\ Advance(p, "saving")
    /\ UNCHANGED <<images, posts, editorVars, feedVars>>

StorePost(p) ==
    /\ At(p, "saving")
    /\ posts' = posts \cup {p}
    /\ Advance(p, "saved")
    /\ UNCHANGED <<images, editorVars, feedVars>>

\* Any request may be refused: completion(error), which only prints it.
UploadFails(p) ==
    /\ press[p].stage \in {"putting", "linking", "saving"}
    /\ Advance(p, "ended")
    /\ UNCHANGED <<images, posts, editorVars, feedVars>>

\* Mutant of PostSaved: it pops whatever editor is on top.
PostSavedPopsTop(p) ==
    /\ At(p, "saved")
    /\ Advance(p, "ended")
    /\ IF editor # NoEditor THEN Pop ELSE UNCHANGED <<editorVars, feedVars>>
    /\ UNCHANGED <<images, posts>>

\* setValue's completion pops the editor the button was pressed in; an editor
\* that is not on the stack any more has no navigationController.
PostSaved(p) ==
    /\ At(p, "saved")
    /\ Advance(p, "ended")
    /\ IF press[p].editor = editor THEN Pop ELSE UNCHANGED <<editorVars, feedVars>>
    /\ UNCHANGED <<images, posts>>

----------------------------------------------------------------------------
\* The process ends and is started again, on another tab.
Kill ==
    /\ press' = [p \in Presses |->
                    IF At(p, "unused") THEN press[p] ELSE [press[p] EXCEPT !.stage = "ended"]]
    /\ editor' = NoEditor
    /\ userFetches' = 0
    /\ postFetches' = 0
    /\ answers' = <<>>
    /\ currentUserData' = FALSE
    /\ mediaModelData' = {}
    /\ UNCHANGED <<images, posts, opened, editorUser, pickedImage, imageShown>>

Steps ==
    \/ FeedAppears \/ UserFetched \/ PostsAnswered \/ PostsShown
    \/ \E e \in Editors : OpenEditor(e)
    \/ PickImage \/ CancelImage \/ Back
    \/ \E p \in Presses :
          \/ PressPost(p) \/ PicturePut(p) \/ PictureLinked(p) \/ StorePost(p)
          \/ UploadFails(p) \/ PostSaved(p)

Troubles == UserFetchDropped \/ PostsRefused \/ Kill

Next == Steps \/ Troubles

Spec == Init /\ [][Next]_vars

\* Reads are answered and the main queue is drained.
Fairness ==
    /\ WF_vars(UserFetched) /\ WF_vars(PostsAnswered) /\ WF_vars(PostsShown)
    /\ \A p \in Presses : WF_vars(PostSaved(p))

\* The app keeps running and no read is refused.
CalmSpec == Init /\ [][Steps]_vars /\ Fairness

----------------------------------------------------------------------------
(* What posting keeps true. *)

(***************************************************************************)
(* uploadPost writes the post last (lines 420-444): however presses of the *)
(* button overlap, fail or are cut short, a stored post that names a       *)
(* picture names one that is stored, its own.                              *)
(***************************************************************************)
PicturesBehindPosts == \A p \in posts : press[p].picture => p \in images

(***************************************************************************)
(* The completion runs long after the press, when the editor may have been *)
(* left, another one opened, or the same post sent twice.  An editor is    *)
(* closed only by its back button, with the process, or when a post of its *)
(* own has been stored (PostViewController.swift:80-86): no text that was  *)
(* being written is thrown away by an earlier upload.                      *)
(***************************************************************************)
EditorClosesOnItsOwnPost ==
    [][(editor # NoEditor /\ editor' # editor) =>
          \/ Back
          \/ Kill
          \/ \E p \in posts : press[p].editor = editor]_vars

(***************************************************************************)
(* Each appearance of the feed starts its own chain of two fetches and     *)
(* nothing cancels the earlier ones (FeedViewController.swift:41-68).      *)
(* Still, a post with a picture that is stored while its editor is open is *)
(* shown in the end, and no late answer of an earlier refresh takes it     *)
(* away again, unless a read is refused or the process ends.               *)
(***************************************************************************)
OwnPostShownForGood ==
    \A p \in Presses :
        (At(p, "saved") /\ press[p].editor = editor /\ press[p].picture)
            ~> [](p \in mediaModelData)

(***************************************************************************)
(* Every answer replaces the posts on the screen, and a refused read is    *)
(* answered with no post at all (APIManager.swift:206-209).  However       *)
(* refreshes, uploads and failures overlap, a stored post that the feed    *)
(* shows leaves it only by such an answer or with the process: no late     *)
(* answer of an earlier refresh takes it away.  A read that is answered    *)
(* with no post is not told from a refused one.                            *)
(***************************************************************************)
OnlyRefusalsHidePosts ==
    [][\A p \in mediaModelData \cap posts :
          p \notin mediaModelData' => Kill \/ (PostsShown /\ Head(answers) = {})]_vars

(***************************************************************************)
(* "Users can share and view thoughts" (README.md:12): every post an       *)
(* answer holds gets onto the feed.  fetchUserPosts wants a "postImage"    *)
(* (APIManager.swift:190), which uploadPost leaves out of a post without a *)
(* picture (lines 445-448).                                                *)
(***************************************************************************)
ThoughtsCanBeViewed == [][PostsShown => Head(answers) \subseteq mediaModelData']_vars

(***************************************************************************)
(* "OnClick Cancel Media Selection" (PostViewController.swift:97): after   *)
(* the picture has been cancelled, a press of Post does not send it.       *)
(***************************************************************************)
CancelledPictureNotPosted == \A p \in Presses : press[p].picture => press[p].preview
=============================================================================
