----------------------------- MODULE ImageSources -----------------------------
(***************************************************************************)
(* Where the image of a question comes from: the camera and the photo      *)
(* library (one sheet, told apart by a flag), a file, or Google Drive with *)
(* its sign-in, its list and its download.                                 *)
(*                                                                         *)
(* The handlers run on the main queue.  The answer to the camera's         *)
(* permission dialog does not: its two assignments are two steps, between  *)
(* which the view may be drawn.  A sheet can be swiped away at any time;   *)
(* the calls it has made go on.                                            *)
(***************************************************************************)
EXTENDS Integers, Sequences, FiniteSets, SequencesExt

CONSTANTS
  Photos,         \* images the camera, the library and the file browser offer
  DriveFiles,     \* images on Google Drive
  NoImage,
  MaxDownloads    \* bound: downloads in flight

ASSUME ImagesAssumption ==
  /\ Photos \cap DriveFiles = {}
  /\ IsFiniteSet(DriveFiles)
  /\ NoImage \notin Photos \cup DriveFiles
  /\ MaxDownloads \in Nat

Images == Photos \cup DriveFiles
Permissions == {"notDetermined", "asking", "authorized", "denied"}

VARIABLES
  shouldPresentImagePicker, shouldPresentCamera,
  shown,             \* the sheet on the screen, or "none"
  camera, photos,    \* the permissions
  cameraBlock,       \* openCameraBlock off the main queue: the assignments left to do
  photosBlocks,      \* openPhotosBlock on the main queue
  image,             \* the image of the draft
  currentUser,       \* GIDSignIn has a user
  googleAPIs,        \* the manager has a service
  restoring,         \* calls of restorePreviousSignIn in flight
  drive,             \* what the sheet waits for: "nothing", "signIn", "list", "download"
  isLoading, files, selectedIndexes,   \* its view model
  downloads,         \* downloads in flight, the one of the open sheet included
  chosen,            \* history: the source chosen last
  checked,           \* history: the files of the sheet the user has checked
  lastPick           \* history: the images the user's last pick allows

picker == <<shouldPresentImagePicker, shouldPresentCamera, camera, photos, cameraBlock,
            photosBlocks>>
account == <<currentUser, googleAPIs, restoring>>
sheet == <<drive, isLoading, files, selectedIndexes>>
result == <<image, lastPick>>
vars == <<picker, chosen, shown, account, sheet, downloads, result, checked>>

TypeOK ==
  /\ shouldPresentImagePicker \in BOOLEAN /\ shouldPresentCamera \in BOOLEAN
  /\ shown \in {"none", "camera", "library", "files", "drive"}
  /\ camera \in Permissions /\ photos \in Permissions
  /\ cameraBlock \in 0 .. 2
  /\ photosBlocks \in 0 .. 1
  /\ image \in Images \cup {NoImage}
  /\ currentUser \in BOOLEAN /\ googleAPIs \in BOOLEAN
  /\ restoring \in 0 .. 2
  /\ drive \in {"nothing", "signIn", "list", "download"}
  /\ isLoading \in BOOLEAN
  /\ files \in Seq(DriveFiles)
  /\ selectedIndexes \in Seq(DOMAIN files)
  /\ downloads \in Seq(DriveFiles)
  /\ chosen \in {"none", "camera", "gallery", "files", "drive"}
  /\ checked \in SUBSET DriveFiles
  /\ lastPick \in SUBSET Images

(* GoogleDriveManager.init and ContentView.onAppear both try to restore an *)
(* earlier sign-in.                                                        *)
Init ==
  /\ shouldPresentImagePicker = FALSE /\ shouldPresentCamera = FALSE
  /\ shown = "none"
  /\ camera \in Permissions \ {"asking"} /\ photos \in Permissions \ {"asking"}
  /\ cameraBlock = 0 /\ photosBlocks = 0
  /\ image = NoImage
  /\ currentUser = FALSE /\ googleAPIs = FALSE /\ restoring = 2
  /\ drive = "nothing" /\ isLoading = FALSE
  /\ files = <<>> /\ selectedIndexes = <<>> /\ downloads = <<>>
  /\ chosen = "none" /\ checked = {} /\ lastPick = {}

-----------------------------------------------------------------------------
(* The camera and the photo library.                                       *)

(* The menu of sources can be opened.  A user is slower than the blocks.   *)
MenuShown ==
  /\ shown = "none" /\ ~shouldPresentImagePicker
  /\ camera # "asking" /\ photos # "asking"
  /\ cameraBlock = 0 /\ photosBlocks = 0

(* onCameraAction; when denied it shows an alert.                          *)
OnCameraAction ==
  /\ MenuShown
  /\ \/ /\ camera = "notDetermined"
        /\ camera' = "asking"
        /\ UNCHANGED <<shouldPresentImagePicker, shouldPresentCamera>>
     \/ /\ camera = "authorized"
        /\ shouldPresentImagePicker' = TRUE /\ shouldPresentCamera' = TRUE
        /\ UNCHANGED camera
  /\ chosen' = "camera"
  /\ UNCHANGED <<shown, photos, cameraBlock, photosBlocks, account, sheet, downloads,
                 result, checked>>

(* The user answers the camera's dialog; if granted, openCameraBlock runs  *)
(* on a queue of AVFoundation.                                             *)
CameraAnswered(granted) ==
  /\ camera = "asking"
  /\ camera' = IF granted THEN "authorized" ELSE "denied"
  /\ cameraBlock' = IF granted THEN 2 ELSE 0
  /\ UNCHANGED <<shouldPresentImagePicker, shouldPresentCamera, photos, photosBlocks,
                 chosen, shown, account, sheet, downloads, result, checked>>

(* One assignment of openCameraBlock: first the sheet, then the camera.    *)
CameraBlockRuns ==
  /\ cameraBlock > 0
  /\ cameraBlock' = cameraBlock - 1
  /\ \/ /\ cameraBlock = 2
        /\ shouldPresentImagePicker' = TRUE
        /\ UNCHANGED shouldPresentCamera
     \/ /\ cameraBlock = 1
        /\ shouldPresentCamera' = TRUE
        /\ UNCHANGED shouldPresentImagePicker
  /\ UNCHANGED <<camera, photos, photosBlocks, chosen, shown, account, sheet,
                 downloads, result, checked>>

(* onGalleryAction; when denied it shows an alert.                         *)
OnGalleryAction ==
  /\ MenuShown
  /\ \/ /\ photos = "notDetermined"
        /\ photos' = "asking"
        /\ UNCHANGED photosBlocks
     \/ /\ photos = "authorized"
        /\ photosBlocks' = photosBlocks + 1
        /\ UNCHANGED photos
  /\ chosen' = "gallery"
  /\ UNCHANGED <<shouldPresentImagePicker, shouldPresentCamera, camera, cameraBlock,
                 shown, account, sheet, downloads, result, checked>>

PhotosAnswered(granted) ==
  /\ photos = "asking"
  /\ photos' = IF granted THEN "authorized" ELSE "denied"
  /\ photosBlocks' = IF granted THEN photosBlocks + 1 ELSE photosBlocks
  /\ UNCHANGED <<shouldPresentImagePicker, shouldPresentCamera, camera, cameraBlock,
                 chosen, shown, account, sheet, downloads, result, checked>>

(* Mutant: the flag of an earlier visit to the camera stays.               *)
PhotosBlockRunsKeeps ==
  /\ photosBlocks > 0
  /\ photosBlocks' = photosBlocks - 1
  /\ shouldPresentImagePicker' = TRUE
  /\ UNCHANGED <<shouldPresentCamera, camera, photos, cameraBlock, chosen, shown,
                 account, sheet, downloads, result, checked>>

(* openPhotosBlock, in one block on the main queue.                        *)
PhotosBlockRuns ==
  /\ photosBlocks > 0
  /\ photosBlocks' = photosBlocks - 1
  /\ shouldPresentImagePicker' = TRUE /\ shouldPresentCamera' = FALSE
  /\ UNCHANGED <<camera, photos, cameraBlock, chosen, shown, account, sheet,
                 downloads, result, checked>>

(* The sheet is made with the source of this moment and never updated.     *)
PresentPicker ==
  /\ shown = "none" /\ shouldPresentImagePicker
  /\ shown' = IF shouldPresentCamera THEN "camera" ELSE "library"
  /\ UNCHANGED <<picker, chosen, account, sheet, downloads, result, checked>>

(* didFinishPickingMediaWithInfo; an image that cannot be resized clears   *)
(* the draft's.                                                            *)
Picked(i) ==
  /\ shown \in {"camera", "library"} /\ cameraBlock = 0
  /\ shown' = "none" /\ shouldPresentImagePicker' = FALSE
  /\ image' \in {i, NoImage} /\ lastPick' = {i}
  /\ UNCHANGED <<chosen, shouldPresentCamera, camera, photos, cameraBlock, photosBlocks, account,
                 sheet, downloads, checked>>

(* imagePickerControllerDidCancel, or a swipe.                             *)
PickerCancelled ==
  /\ shown \in {"camera", "library"} /\ cameraBlock = 0
  /\ shown' = "none" /\ shouldPresentImagePicker' = FALSE
  /\ UNCHANGED <<chosen, shouldPresentCamera, camera, photos, cameraBlock, photosBlocks, account,
                 sheet, downloads, result, checked>>

-----------------------------------------------------------------------------
(* Files.                                                                  *)

OpenFiles ==
  /\ MenuShown
  /\ shown' = "files"
  /\ chosen' = "files"
  /\ UNCHANGED <<picker, account, sheet, downloads, result, checked>>

(* The importer's result: an image, or a file without one.                 *)
FilePicked(i) ==
  /\ shown = "files"
  /\ shown' = "none"
  /\ image' \in {i, image}
  /\ lastPick' = {i}
  /\ UNCHANGED <<picker, chosen, account, sheet, downloads, checked>>

FilesCancelled ==
  /\ shown = "files"
  /\ shown' = "none"
  /\ UNCHANGED <<picker, chosen, account, sheet, downloads, result, checked>>

(* The badge on the draft's image.                                         *)
RemoveImage ==
  /\ shown = "none" /\ image # NoImage
  /\ image' = NoImage
  /\ UNCHANGED <<picker, chosen, shown, account, sheet, downloads, lastPick, checked>>

-----------------------------------------------------------------------------
(* Google Drive.                                                           *)

(* A call of restorePreviousSignIn ends, with or without a user; then      *)
(* checkStatus.                                                            *)
RestoreEnds(found) ==
  /\ restoring > 0
  /\ restoring' = restoring - 1
  /\ currentUser' = (currentUser \/ found)
  /\ googleAPIs' = currentUser'
  /\ UNCHANGED <<picker, chosen, shown, sheet, downloads, result, checked>>

(* The sheet appears: its view model calls fetchFiles, which signs in if   *)
(* there is no service.                                                    *)
OpenDrive ==
  /\ MenuShown
  /\ shown' = "drive"
  /\ isLoading' = TRUE
  /\ files' = <<>> /\ selectedIndexes' = <<>>
  /\ drive' = IF googleAPIs THEN "list" ELSE "signIn"
  /\ chosen' = "drive"
  /\ UNCHANGED <<picker, account, downloads, result, checked>>

(* Mutant: the listing that is not possible leaves the sheet loading.      *)
SignInEndsLoading(ok) ==
  /\ drive = "signIn"
  /\ currentUser' = (currentUser \/ ok)
  /\ googleAPIs' = currentUser'
  /\ drive' = IF currentUser' THEN "list" ELSE "nothing"
  /\ UNCHANGED <<picker, chosen, shown, restoring, isLoading, files, selectedIndexes, downloads,
                 result, checked>>

(* signIn's completion: checkStatus, then the list, if there is a service  *)
(* now.                                                                    *)
SignInEnds(ok) ==
  /\ drive = "signIn"
  /\ currentUser' = (currentUser \/ ok)
  /\ googleAPIs' = currentUser'
  /\ drive' = IF currentUser' THEN "list" ELSE "nothing"
  /\ isLoading' = currentUser'
  /\ UNCHANGED <<picker, chosen, shown, restoring, files, selectedIndexes, downloads, result,
                 checked>>

(* The list arrives, or an error.                                          *)
ListEnds(list) ==
  /\ drive = "list"
  /\ drive' = "nothing"
  /\ isLoading' = FALSE
  /\ files' = list
  /\ UNCHANGED <<picker, chosen, shown, account, selectedIndexes, downloads, result, checked>>

(* Mutant: of the selection, the oldest entry goes.                        *)
WithoutOldest(s, k) == Tail(s)

(* removeAll(where:): a sequence without its occurrences of k.             *)
Without(s, k) ==
  LET rest[i \in 0 .. Len(s)] ==
        IF i = 0 THEN <<>>
        ELSE IF s[i] = k THEN rest[i - 1] ELSE Append(rest[i - 1], s[i])
  IN  rest[Len(s)]

(* onTapFileAtIndex; the loading view takes the taps while it is there.    *)
TapFile(k) ==
  /\ shown = "drive" /\ ~isLoading
  /\ k \in DOMAIN files
  /\ selectedIndexes' = IF Contains(selectedIndexes, k)
                        THEN Without(selectedIndexes, k)
                        ELSE Append(selectedIndexes, k)
  /\ checked' = IF files[k] \in checked THEN checked \ {files[k]} ELSE checked \cup {files[k]}
  /\ UNCHANGED <<picker, chosen, shown, account, drive, isLoading, files, downloads, result>>

(* Open: of the files the user has checked, the one tapped first is        *)
(* downloaded, the others are not.                                         *)
OpenTapped ==
  /\ shown = "drive" /\ ~isLoading /\ selectedIndexes # <<>>
  /\ Len(downloads) < MaxDownloads
  /\ isLoading' = TRUE
  /\ drive' = "download"
  /\ downloads' = Append(downloads, files[Head(selectedIndexes)])
  /\ lastPick' = checked
  /\ UNCHANGED <<picker, chosen, shown, account, files, selectedIndexes, image, checked>>

(* Mutant: the selection outlives the list it points into.                 *)
ClosedKeepsSelection ==
  /\ shown' = "none"
  /\ drive' = "nothing" /\ isLoading' = FALSE
  /\ files' = <<>>
  /\ UNCHANGED selectedIndexes

(* The sheet goes, and its view model with it.                             *)
Closed ==
  /\ shown' = "none"
  /\ drive' = "nothing" /\ isLoading' = FALSE
  /\ files' = <<>> /\ selectedIndexes' = <<>>

(* Cancel, or a swipe at any time; the sign-in covers the sheet.           *)
CloseDrive ==
  /\ shown = "drive" /\ drive # "signIn"
  /\ Closed
  /\ checked' = {}
  /\ UNCHANGED <<picker, chosen, account, downloads, result>>

(* The download of the sheet on the screen ends: with data that make an    *)
(* image onDone sets it; the sheet is dismissed either way.                *)
DownloadEnds ==
  /\ drive = "download"
  /\ image' \in {Last(downloads), image}
  /\ downloads' = Front(downloads)
  /\ Closed
  /\ checked' = {}
  /\ UNCHANGED <<picker, chosen, account, lastPick>>

(* A download whose sheet is gone ends.  The view model may live as long   *)
(* as the completion that holds the view, and then onDone sets the image   *)
(* all the same.  Its dissmiss() does nothing: the view is not presented.  *)
LateDownloadEnds(k) ==
  /\ k \in DOMAIN downloads
  /\ drive = "download" => k < Len(downloads)
  /\ image' \in {downloads[k], image}
  /\ downloads' = RemoveAt(downloads, k)
  /\ UNCHANGED <<picker, chosen, shown, account, sheet, lastPick, checked>>

Next ==
  \/ OnCameraAction
  \/ \E granted \in BOOLEAN : CameraAnswered(granted) \/ PhotosAnswered(granted)
  \/ CameraBlockRuns
  \/ OnGalleryAction
  \/ PhotosBlockRuns
  \/ PresentPicker
  \/ \E i \in Photos : Picked(i) \/ FilePicked(i)
  \/ PickerCancelled
  \/ OpenFiles
  \/ FilesCancelled
  \/ RemoveImage
  \/ \E ok \in BOOLEAN : RestoreEnds(ok) \/ SignInEnds(ok)
  \/ OpenDrive
  \/ \E list \in {<<>>} \cup SetToSeqs(DriveFiles) : ListEnds(list)
  \/ \E k \in DOMAIN files : TapFile(k)
  \/ OpenTapped
  \/ CloseDrive
  \/ DownloadEnds
  \/ \E k \in DOMAIN downloads : LateDownloadEnds(k)

(* The network calls end and the sign-in is completed or cancelled; the    *)
(* user need not do anything else.                                         *)
Fairness ==
  /\ WF_vars(\E ok \in BOOLEAN : SignInEnds(ok))
  /\ WF_vars(\E list \in {<<>>} \cup SetToSeqs(DriveFiles) : ListEnds(list))
  /\ WF_vars(DownloadEnds)

Spec == Init /\ [][Next]_vars /\ Fairness

-----------------------------------------------------------------------------
(* The camera opens only for a user who has just chosen it: the flag of an *)
(* earlier visit never makes the sheet of the photo library a camera.      *)
CameraOnlyAsked == shown = "camera" => chosen = "camera"

(* The draft gets no other image than the user's last pick: the photo or   *)
(* file picked, or one of the files that were checked on Google Drive when *)
(* Open was tapped.  The code keeps indexes into a list, toggled by taps,  *)
(* and downloads by index; the user checks files.  An earlier pick comes   *)
(* back only in the very step in which a download ends whose sheet was     *)
(* swiped away.                                                            *)
LastPickWins ==
  [][image' \notin {image, NoImage} =>
       image' \in lastPick' \/ \E k \in DOMAIN downloads : LateDownloadEnds(k)]_vars

(* The Google Drive sheet does not load for ever, whether the sign-in, the *)
(* list or the download works or not.                                      *)
DriveLoadingEnds == isLoading ~> ~isLoading
=============================================================================
