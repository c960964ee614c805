------------------------- MODULE ImageSourcesProofs -------------------------
(***************************************************************************)
(* The sources of an image, for any photos, any files on Google Drive and  *)
(* any number of downloads in flight.                                      *)
(***************************************************************************)
EXTENDS ImageSources, SequenceTheorems, FiniteSetTheorems, WellFoundedInduction,
        NaturalsInduction, TLAPS

(* The picker: whatever is under way for the camera or for the library was *)
(* chosen last, and the flag of the camera is up only while the camera is  *)
(* the choice, once the sheet is to be shown.                              *)
PickerTypes ==
  /\ shouldPresentImagePicker \in BOOLEAN /\ shouldPresentCamera \in BOOLEAN
  /\ shown \in {"none", "camera", "library", "files", "drive"}
  /\ camera \in Permissions /\ photos \in Permissions
  /\ cameraBlock \in 0 .. 2
  /\ photosBlocks \in 0 .. 1
  /\ chosen \in {"none", "camera", "gallery", "files", "drive"}

PickerInv ==
  /\ camera = "asking" \/ cameraBlock > 0 => chosen = "camera"
  /\ photos = "asking" \/ photosBlocks > 0 => chosen = "gallery"
  /\ photos = "asking" => photosBlocks = 0
  /\ shouldPresentImagePicker
       => chosen = "camera" \/ (chosen = "gallery" /\ ~shouldPresentCamera)
  /\ shown = "camera" => chosen = "camera"

AccountTypes ==
  /\ currentUser \in BOOLEAN /\ googleAPIs \in BOOLEAN
  /\ restoring \in 0 .. 2

(* The Google Drive sheet: a call it waits for keeps it loading; its own   *)
(* download is the last one and of an image of the last pick; nothing is   *)
(* checked before there is a list; the files that are checked are those at *)
(* the selected indexes, which takes that no file is listed twice.         *)
DriveTypes ==
  /\ drive \in {"nothing", "signIn", "list", "download"}
  /\ isLoading \in BOOLEAN
  /\ files \in Seq(DriveFiles)
  /\ selectedIndexes \in Seq(DOMAIN files)
  /\ downloads \in Seq(DriveFiles)
  /\ checked \in SUBSET DriveFiles

SheetInv ==
  /\ drive # "nothing" => shown = "drive" /\ isLoading
  /\ drive \in {"signIn", "list"} => selectedIndexes = <<>>
  /\ drive = "download" => downloads # <<>> /\ Last(downloads) \in lastPick
  /\ shown # "drive" \/ drive \in {"signIn", "list"} => checked = {}

ChecksInv ==
  /\ \A i, j \in DOMAIN files : files[i] = files[j] => i = j
  /\ \A k \in DOMAIN files : files[k] \in checked <=> Contains(selectedIndexes, k)

DriveInv == SheetInv /\ ChecksInv

ResultTypes ==
  /\ image \in Images \cup {NoImage}
  /\ lastPick \in SUBSET Images

Inv == PickerTypes /\ PickerInv /\ AccountTypes /\ DriveTypes /\ DriveInv /\ ResultTypes

(* A set of natural numbers that is not empty has a least element.         *)
LEMMA FirstOf ==
  ASSUME NEW S, S \subseteq Nat, S # {}
  PROVE  \E i \in S : \A j \in S : i <= j
<1> DEFINE less == OpToRel(<, Nat)
<1>1. \A i \in Nat, j \in Nat : j < i => <<j, i>> \in less
  BY Zenon DEF OpToRel
<1>2. IsWellFoundedOn(less, Nat)
  BY NatLessThanWellFounded, Zenon
<1> HIDE DEF less
<1>3. PICK i \in S : \A j \in S : ~(<<j, i>> \in less)
  BY <1>2, WFMin
<1>4. ASSUME NEW j \in S PROVE i <= j
  <2>1. i \in Nat /\ j \in Nat
    OBVIOUS
  <2>2. ~(j < i)
    BY <1>1, <1>3, <2>1, Zenon
  <2> QED
    BY <2>1, <2>2
<1> QED
  BY <1>4

(* Induction over the natural numbers up to n: the set of those for which  *)
(* a statement holds contains 0 and, with each of them, the next.          *)
LEMMA UpTo ==
  ASSUME NEW n \in Nat, NEW S, 0 \in S, \A m \in 0 .. n - 1 : m \in S => m + 1 \in S
  PROVE  0 .. n \subseteq S
<1> DEFINE bad == {m \in 0 .. n : m \notin S}
<1> SUFFICES ASSUME bad # {} PROVE FALSE
  OBVIOUS
<1>1. bad \subseteq Nat
  OBVIOUS
<1>2. PICK m \in bad : \A j \in bad : m <= j
  <2> HIDE DEF bad
  <2> QED
    BY <1>1, FirstOf
<1>3. m \in 1 .. n /\ m \notin S
  OBVIOUS
<1>4. m - 1 \in 0 .. n - 1 /\ m - 1 \notin bad
  BY <1>2, <1>3
<1>5. m - 1 \in S
  BY <1>4
<1> QED
  BY <1>3, <1>4, <1>5

(* What is in a sequence with one more element.                            *)
LEMMA AppendContains ==
  ASSUME NEW S, NEW s \in Seq(S), NEW e \in S, NEW x
  PROVE  /\ Append(s, e) \in Seq(S)
         /\ Contains(Append(s, e), x) <=> Contains(s, x) \/ x = e
<1>1. /\ Append(s, e) \in Seq(S) /\ Len(s) \in Nat
      /\ Len(Append(s, e)) = Len(s) + 1
      /\ \A i \in 1 .. Len(s) : Append(s, e)[i] = s[i]
      /\ Append(s, e)[Len(s) + 1] = e
  BY AppendProperties, LenProperties
<1> DEFINE t == Append(s, e)
<1> HIDE DEF t
<1>2. ASSUME Contains(t, x) PROVE Contains(s, x) \/ x = e
  <2>1. PICK i \in 1 .. Len(s) + 1 : t[i] = x
    BY <1>1, <1>2 DEF Contains, t
  <2>2. i \in 1 .. Len(s) \/ i = Len(s) + 1
    BY <1>1
  <2> QED
    BY <1>1, <2>1, <2>2 DEF Contains, t
<1>3. ASSUME Contains(s, x) \/ x = e PROVE Contains(t, x)
  <2>1. 1 .. Len(s) \subseteq 1 .. Len(s) + 1 /\ Len(s) + 1 \in 1 .. Len(s) + 1
    BY <1>1
  <2> QED
    BY <1>1, <1>3, <2>1 DEF Contains, t
<1> QED
  BY <1>1, <1>2, <1>3 DEF t

(* removeAll(where:) leaves a sequence of the same kind and with the other *)
(* elements: by induction over the prefixes, since the recursion of        *)
(* Without has a solution on each.                                         *)
LEMMA WithoutElements ==
  ASSUME NEW S, NEW s \in Seq(S), NEW k
  PROVE  /\ Without(s, k) \in Seq(S)
         /\ \A x : Contains(Without(s, k), x) <=> Contains(s, x) /\ x # k
<1> DEFINE n == Len(s)
           none == <<>>
           Body(g, i) == IF i = 0 THEN none
                         ELSE IF s[i] = k THEN g[i - 1] ELSE Append(g[i - 1], s[i])
           Def(g) == g = [i \in 0 .. n |-> Body(g, i)]
           rest == CHOOSE g : Def(g)
           Part(m, g) ==
             /\ g \in [0 .. m -> Seq(S)]
             /\ g[0] = none
             /\ \A i \in 1 .. m :
                  g[i] = IF s[i] = k THEN g[i - 1] ELSE Append(g[i - 1], s[i])
           P == {m \in 0 .. n : \E g : Part(m, g)}
<1>0. n \in Nat /\ none \in Seq(S) /\ \A i \in 1 .. n : s[i] \in S
  OBVIOUS
<1>1. Without(s, k) = rest[n]
  BY DEF Without
<1> HIDE DEF n, none
<1>2. 0 \in P
  <2> DEFINE g == [i \in 0 .. 0 |-> none]
  <2>1. Part(0, g)
    BY <1>0
  <2> HIDE DEF Part, g
  <2> QED
    BY <1>0, <2>1
<1>3. ASSUME NEW m \in 0 .. n - 1, m \in P PROVE m + 1 \in P
  <2>1. PICK g : Part(m, g)
    BY <1>3
  <2> DEFINE x == IF s[m + 1] = k THEN g[m] ELSE Append(g[m], s[m + 1])
             h == [i \in 0 .. m + 1 |-> IF i = m + 1 THEN x ELSE g[i]]
  <2>2. m + 1 \in 0 .. n /\ m \in Nat /\ m \in 0 .. m /\ s[m + 1] \in S
    BY <1>0
  <2>3. x \in Seq(S)
    <3>1. g[m] \in Seq(S)
      BY <2>1, <2>2
    <3>2. Append(g[m], s[m + 1]) \in Seq(S)
      BY <2>2, <3>1, AppendProperties
    <3> QED
      BY <3>1, <3>2
  <2>4. x = IF s[m + 1] = k THEN g[m] ELSE Append(g[m], s[m + 1])
    OBVIOUS
  <2> HIDE DEF x
  <2>5. \A i \in 0 .. m : h[i] = g[i]
    BY <2>2
  <2>6. h[m + 1] = x /\ h \in [0 .. m + 1 -> Seq(S)]
    BY <2>1, <2>2, <2>3
  <2>7. ASSUME NEW i \in 1 .. m + 1
        PROVE  h[i] = IF s[i] = k THEN h[i - 1] ELSE Append(h[i - 1], s[i])
    <3> HIDE DEF h
    <3>1. CASE i = m + 1
      <4>1. h[i - 1] = g[m]
        BY <2>2, <2>5, <3>1
      <4> QED
        BY <2>4, <2>6, <3>1, <4>1
    <3>2. CASE i # m + 1
      <4>1. i \in 1 .. m /\ i - 1 \in 0 .. m /\ i \in 0 .. m
        BY <2>2, <3>2
      <4>2. h[i] = g[i] /\ h[i - 1] = g[i - 1]
        BY <2>5, <4>1
      <4>3. g[i] = IF s[i] = k THEN g[i - 1] ELSE Append(g[i - 1], s[i])
        BY <2>1, <4>1
      <4> QED
        BY <4>2, <4>3, Zenon
    <3> QED
      BY <3>1, <3>2
  <2>8. h[0] = none
    BY <2>1, <2>2
  <2>9. Part(m + 1, h)
    <3> HIDE DEF h
    <3> QED
      BY <2>6, <2>7, <2>8
  <2> HIDE DEF Part, h
  <2> QED
    BY <2>2, <2>9
<1>4. 0 .. n \subseteq P
  <2> HIDE DEF P
  <2> QED
    BY <1>0, <1>2, <1>3, UpTo
<1>5. \E g : Def(g)
  <2>1. n \in 0 .. n
    BY <1>0
  <2>2. PICK g : Part(n, g)
    <3> HIDE DEF Part
    <3> QED
      BY <1>4, <2>1
  <2>3. ASSUME NEW i \in 0 .. n PROVE g[i] = Body(g, i)
    <3>1. i = 0 \/ (i \in 1 .. n /\ i # 0)
      BY <1>0
    <3>2. CASE i = 0
      BY <2>2, <3>2, Zenon
    <3>3. CASE i \in 1 .. n /\ i # 0
      BY <2>2, <3>3, Zenon
    <3> QED
      BY <3>1, <3>2, <3>3
  <2>4. g \in [0 .. n -> Seq(S)]
    BY <2>2, Zenon
  <2>5. Def(g)
    <3> HIDE DEF Body, Part
    <3> QED
      BY <2>3, <2>4
  <2> HIDE DEF Def
  <2> QED
    BY <2>5
<1>6. Def(rest)
  <2> HIDE DEF Def
  <2> QED
    BY <1>5
<1> HIDE DEF rest
<1>7. /\ rest[0] = none
      /\ \A i \in 1 .. n :
           rest[i] = IF s[i] = k THEN rest[i - 1] ELSE Append(rest[i - 1], s[i])
  <2>1. \A i \in 0 .. n : rest[i] = Body(rest, i)
    <3> HIDE DEF Body
    <3> QED
      BY <1>6
  <2>2. 0 \in 0 .. n /\ \A i \in 1 .. n : i \in 0 .. n /\ i # 0
    BY <1>0
  <2> QED
    BY <2>1, <2>2, Zenon
<1> HIDE DEF Def, Body, Part, P
<1> DEFINE Left(i) == /\ rest[i] \in Seq(S)
                      /\ \A x : Contains(rest[i], x) <=> x # k /\ \E j \in 1 .. i : s[j] = x
           T == {i \in 0 .. n : Left(i)}
<1>8. 0 \in T
  <2>1. \A x : ~Contains(none, x)
    BY DEF Contains, none
  <2>2. \A j \in 1 .. 0 : FALSE
    OBVIOUS
  <2>3. Left(0)
    BY <1>0, <1>7, <2>1, <2>2
  <2> HIDE DEF Left
  <2> QED
    BY <1>0, <2>3
<1>9. ASSUME NEW m \in 0 .. n - 1, m \in T PROVE m + 1 \in T
  <2>1. m + 1 \in 1 .. n /\ m + 1 \in 0 .. n /\ (m + 1) - 1 = m
        /\ \A j : j \in 1 .. m + 1 <=> j \in 1 .. m \/ j = m + 1
    BY <1>0
  <2>2. Left(m)
    BY <1>9
  <2>3. s[m + 1] \in S
    BY <1>0, <2>1
  <2>4. rest[m + 1] = IF s[m + 1] = k THEN rest[m] ELSE Append(rest[m], s[m + 1])
    BY <1>7, <2>1
  <2>5. CASE s[m + 1] = k
    <3>1. \A x : (x # k /\ \E j \in 1 .. m + 1 : s[j] = x)
                 <=> (x # k /\ \E j \in 1 .. m : s[j] = x)
      BY <2>1, <2>5, Zenon
    <3>2. Left(m + 1)
      BY <2>2, <2>4, <2>5, <3>1
    <3> HIDE DEF Left
    <3> QED
      BY <2>1, <3>2
  <2>6. CASE s[m + 1] # k
    <3>1. /\ Append(rest[m], s[m + 1]) \in Seq(S)
          /\ \A x : Contains(Append(rest[m], s[m + 1]), x)
                     <=> Contains(rest[m], x) \/ x = s[m + 1]
      BY <2>2, <2>3, AppendContains
    <3>2. \A x : (x # k /\ \E j \in 1 .. m + 1 : s[j] = x)
                 <=> (x # k /\ \E j \in 1 .. m : s[j] = x) \/ x = s[m + 1]
      BY <2>1, <2>6, Zenon
    <3>3. rest[m + 1] = Append(rest[m], s[m + 1])
      BY <2>4, <2>6
    <3>4. Left(m + 1)
      BY <2>2, <3>1, <3>2, <3>3, Zenon
    <3> HIDE DEF Left
    <3> QED
      BY <2>1, <3>4
  <2> QED
    BY <2>5, <2>6
<1>10. 0 .. n \subseteq T
  <2> HIDE DEF T
  <2> QED
    BY <1>0, <1>8, <1>9, UpTo
<1>11. n \in 0 .. n
  BY <1>0
<1>12. Left(n)
  <2> HIDE DEF Left
  <2> QED
    BY <1>10, <1>11
<1>13. \A x : Contains(s, x) <=> \E j \in 1 .. n : s[j] = x
  BY DEF Contains, n
<1> QED
  BY <1>1, <1>12, <1>13, Zenon

LEMMA TypesAgree == PickerTypes /\ AccountTypes /\ DriveTypes /\ ResultTypes <=> TypeOK
BY Zenon DEF TypeOK, PickerTypes, AccountTypes, DriveTypes, ResultTypes

LEMMA InitInv == Init => Inv
<1> SUFFICES ASSUME Init PROVE Inv
  OBVIOUS
<1>0. /\ shouldPresentImagePicker \in BOOLEAN /\ shouldPresentCamera \in BOOLEAN
      /\ currentUser \in BOOLEAN /\ googleAPIs \in BOOLEAN
      /\ isLoading \in BOOLEAN
  BY Zenon DEF Init
<1>1. PickerTypes
  BY <1>0 DEF Init, PickerTypes, Permissions
<1>2. PickerInv
  BY DEF Init, PickerInv
<1>3. AccountTypes
  BY <1>0 DEF Init, AccountTypes
<1>4. DriveTypes
  <2>1. \A S : <<>> \in Seq(S)
    OBVIOUS
  <2>2. /\ drive = "nothing" /\ files = <<>> /\ selectedIndexes = <<>> /\ downloads = <<>>
        /\ checked = {}
    BY DEF Init
  <2>3. checked \in SUBSET DriveFiles
    BY <2>2
  <2> QED
    BY <1>0, <2>1, <2>2, <2>3, Zenon DEF DriveTypes
<1>5. DriveInv
  <2>1. SheetInv
    BY DEF Init, SheetInv
  <2>2. ChecksInv
    BY DEF Init, ChecksInv
  <2> QED
    BY <2>1, <2>2 DEF DriveInv
<1>6. ResultTypes
  BY DEF Init, ResultTypes
<1> QED
  BY <1>1, <1>2, <1>3, <1>4, <1>5, <1>6 DEF Inv

(* The handlers of the camera and the library, one after the other.        *)
LEMMA PickerStep ==
  ASSUME PickerTypes, PickerInv, [Next]_vars
  PROVE  PickerTypes' /\ PickerInv'
<1> USE DEF PickerTypes, PickerInv, MenuShown, Permissions
<1>1. CASE OnCameraAction
  BY <1>1 DEF OnCameraAction
<1>2. CASE \E granted \in BOOLEAN : CameraAnswered(granted)
  BY <1>2 DEF CameraAnswered
<1>3. CASE \E granted \in BOOLEAN : PhotosAnswered(granted)
  BY <1>3 DEF PhotosAnswered
<1>4. CASE CameraBlockRuns
  <2>1. CASE cameraBlock = 2
    BY <1>4, <2>1 DEF CameraBlockRuns
  <2>2. CASE cameraBlock = 1
    BY <1>4, <2>2 DEF CameraBlockRuns
  <2> QED
    BY <1>4, <2>1, <2>2 DEF CameraBlockRuns
<1>5. CASE OnGalleryAction
  BY <1>5 DEF OnGalleryAction
<1>6. CASE PhotosBlockRuns
  <2>1. /\ shouldPresentImagePicker' = TRUE /\ shouldPresentCamera' = FALSE
        /\ photosBlocks' = photosBlocks - 1 /\ photosBlocks > 0
        /\ UNCHANGED <<camera, photos, cameraBlock, chosen, shown>>
    BY <1>6 DEF PhotosBlockRuns
  <2>2. shouldPresentImagePicker' \in BOOLEAN /\ shouldPresentCamera' \in BOOLEAN
    BY <2>1, Zenon
  <2>3. photosBlocks' = 0 /\ photosBlocks' \in 0 .. 1 /\ ~(photosBlocks' > 0)
    BY <2>1
  <2>4. chosen = "gallery"
    BY <2>1
  <2>5. PickerTypes'
    BY <2>1, <2>2, <2>3
  <2>6. PickerInv'
    BY <2>1, <2>3, <2>4, Zenon
  <2> QED
    BY <2>5, <2>6
<1>7. CASE PresentPicker
  BY <1>7 DEF PresentPicker, picker
<1>8. CASE \E i \in Photos : Picked(i)
  BY <1>8 DEF Picked
<1>9. CASE PickerCancelled
  BY <1>9 DEF PickerCancelled
<1>10. CASE OpenFiles \/ OpenDrive
  BY <1>10 DEF OpenFiles, OpenDrive, picker
<1>11. CASE UNCHANGED <<picker, chosen>> /\ shown' \in {shown, "none"}
  BY <1>11 DEF picker
<1>12. ASSUME FilesCancelled \/ RemoveImage \/ OpenTapped \/ CloseDrive \/ DownloadEnds
              \/ (\E i \in Photos : FilePicked(i))
              \/ (\E ok \in BOOLEAN : RestoreEnds(ok) \/ SignInEnds(ok))
              \/ (\E list \in {<<>>} \cup SetToSeqs(DriveFiles) : ListEnds(list))
              \/ (\E k \in DOMAIN files : TapFile(k))
              \/ (\E k \in DOMAIN downloads : LateDownloadEnds(k))
              \/ UNCHANGED vars
       PROVE  UNCHANGED <<picker, chosen>> /\ shown' \in {shown, "none"}
  BY <1>12, Zenon DEF FilesCancelled, RemoveImage, OpenTapped, CloseDrive, DownloadEnds,
     FilePicked, RestoreEnds, SignInEnds, ListEnds, TapFile, LateDownloadEnds, Closed, vars
<1> QED
  BY <1>1, <1>2, <1>3, <1>4, <1>5, <1>6, <1>7, <1>8, <1>9, <1>10, <1>11, <1>12 DEF Next

LEMMA AccountStep ==
  ASSUME AccountTypes, [Next]_vars
  PROVE  AccountTypes'
<1>1. CASE \E ok \in BOOLEAN : RestoreEnds(ok)
  <2>1. PICK ok \in BOOLEAN : RestoreEnds(ok)
    BY <1>1
  <2>2. currentUser' \in BOOLEAN /\ googleAPIs' \in BOOLEAN
    BY <2>1, Zenon DEF RestoreEnds, AccountTypes
  <2>3. restoring' \in 0 .. 2
    BY <2>1 DEF RestoreEnds, AccountTypes
  <2> QED
    BY <2>2, <2>3 DEF AccountTypes
<1>2. CASE \E ok \in BOOLEAN : SignInEnds(ok)
  <2>1. PICK ok \in BOOLEAN : SignInEnds(ok)
    BY <1>2
  <2>2. currentUser' \in BOOLEAN /\ googleAPIs' \in BOOLEAN
    BY <2>1, Zenon DEF SignInEnds, AccountTypes
  <2> QED
    BY <2>1, <2>2, Zenon DEF SignInEnds, AccountTypes
<1>3. CASE UNCHANGED account
  BY <1>3, Zenon DEF account, AccountTypes
<1>4. ASSUME ~(\E ok \in BOOLEAN : RestoreEnds(ok) \/ SignInEnds(ok))
      PROVE  UNCHANGED account
  <2>1. CASE OnCameraAction \/ CameraBlockRuns \/ OnGalleryAction \/ PhotosBlockRuns
             \/ PresentPicker \/ PickerCancelled \/ OpenFiles \/ FilesCancelled \/ RemoveImage
    BY <2>1, Zenon DEF OnCameraAction, CameraBlockRuns, OnGalleryAction, PhotosBlockRuns,
       PresentPicker, PickerCancelled, OpenFiles, FilesCancelled, RemoveImage
  <2>2. CASE \E granted \in BOOLEAN : CameraAnswered(granted) \/ PhotosAnswered(granted)
    BY <2>2, Zenon DEF CameraAnswered, PhotosAnswered
  <2>3. CASE \E i \in Photos : Picked(i) \/ FilePicked(i)
    BY <2>3, Zenon DEF Picked, FilePicked
  <2>4. CASE OpenDrive \/ OpenTapped \/ CloseDrive \/ DownloadEnds
    BY <2>4, Zenon DEF OpenDrive, OpenTapped, CloseDrive, DownloadEnds
  <2>5. CASE \E list \in {<<>>} \cup SetToSeqs(DriveFiles) : ListEnds(list)
    BY <2>5, Zenon DEF ListEnds
  <2>6. CASE \E k \in DOMAIN files : TapFile(k)
    BY <2>6, Zenon DEF TapFile
  <2>7. CASE \E k \in DOMAIN downloads : LateDownloadEnds(k)
    BY <2>7, Zenon DEF LateDownloadEnds
  <2>8. CASE UNCHANGED vars
    BY <2>8, Zenon DEF vars
  <2> QED
    BY <1>4, <2>1, <2>2, <2>3, <2>4, <2>5, <2>6, <2>7, <2>8, Zenon DEF Next
<1> QED
  BY <1>1, <1>2, <1>3, <1>4, Zenon

(* Removing an element leaves a shorter sequence; unless it was the last   *)
(* one, the last one stays.                                                *)
LEMMA RemoveAtKeepsLast ==
  ASSUME NEW S, NEW s \in Seq(S), NEW i \in DOMAIN s
  PROVE  /\ RemoveAt(s, i) \in Seq(S)
         /\ Len(RemoveAt(s, i)) = Len(s) - 1
         /\ i < Len(s) => /\ RemoveAt(s, i) # <<>>
                          /\ Last(RemoveAt(s, i)) = Last(s)
<1>0. /\ Len(s) \in Nat /\ i \in 1 .. Len(s)
      /\ \A k \in 1 .. Len(s) : s[k] \in S
  BY ElementOfSeq, LenProperties
<1> DEFINE n == Len(s)
           a == SubSeq(s, 1, i - 1)
           b == SubSeq(s, i + 1, n)
<1>1. a \in Seq(S) /\ Len(a) = i - 1
  <2>1. 1 \in Int /\ i - 1 \in Int /\ \A j \in 1 .. i - 1 : s[j] \in S
    BY <1>0
  <2>2. /\ a \in Seq(S)
        /\ Len(a) = IF 1 <= i - 1 THEN (i - 1) - 1 + 1 ELSE 0
    BY <2>1, SubSeqProperties
  <2> HIDE DEF a
  <2> QED
    BY <1>0, <2>2
<1>2. /\ b \in Seq(S) /\ Len(b) = n - i
      /\ \A j \in 1 .. n - i : b[j] = s[i + j]
  <2>1. i + 1 \in Int /\ n \in Int /\ \A j \in i + 1 .. n : s[j] \in S
    BY <1>0
  <2>2. /\ b \in Seq(S)
        /\ Len(b) = IF i + 1 <= n THEN n - (i + 1) + 1 ELSE 0
        /\ \A j \in 1 .. n - (i + 1) + 1 : b[j] = s[(i + 1) + j - 1]
    BY <2>1, SubSeqProperties
  <2>3. n \in Nat /\ i \in 1 .. n
    BY <1>0
  <2> HIDE DEF b, n
  <2>4. Len(b) = n - i
    BY <2>2, <2>3
  <2>5. ASSUME NEW j \in 1 .. n - i PROVE b[j] = s[i + j]
    <3>1. j \in 1 .. n - (i + 1) + 1 /\ (i + 1) + j - 1 = i + j
      BY <2>3
    <3> QED
      BY <2>2, <3>1
  <2> QED
    BY <2>2, <2>4, <2>5
<1>3. RemoveAt(s, i) = a \o b
  BY DEF RemoveAt
<1>4. n \in Nat /\ i \in 1 .. n /\ Last(s) = s[n]
  BY <1>0 DEF Last
<1> HIDE DEF a, b, n
<1>5. /\ a \o b \in Seq(S) /\ Len(a \o b) = n - 1
      /\ \A j \in 1 .. n - 1 : j > i - 1 => (a \o b)[j] = b[j - (i - 1)]
  <2>1. /\ a \o b \in Seq(S) /\ Len(a \o b) = Len(a) + Len(b)
        /\ \A j \in 1 .. Len(a) + Len(b) :
             (a \o b)[j] = IF j <= Len(a) THEN a[j] ELSE b[j - Len(a)]
    BY <1>1, <1>2, ConcatProperties
  <2>2. Len(a) + Len(b) = n - 1
    BY <1>1, <1>2, <1>4
  <2>3. ASSUME NEW j \in 1 .. n - 1, j > i - 1 PROVE (a \o b)[j] = b[j - (i - 1)]
    <3>1. ~(j <= Len(a)) /\ j \in 1 .. Len(a) + Len(b)
      BY <1>1, <1>4, <2>2, <2>3
    <3> QED
      BY <1>1, <2>1, <3>1
  <2> QED
    BY <2>1, <2>2, <2>3
<1>6. ASSUME i < n PROVE a \o b # <<>> /\ Last(a \o b) = s[n]
  <2>1. n - 1 \in 1 .. n - 1 /\ n - 1 > i - 1 /\ (n - 1) - (i - 1) = n - i
        /\ n - i \in 1 .. n - i /\ i + (n - i) = n
    BY <1>4, <1>6
  <2>2. (a \o b)[n - 1] = s[n]
    BY <1>2, <1>5, <2>1
  <2>3. Len(a \o b) # 0
    BY <1>5, <2>1
  <2>4. a \o b # <<>>
    <3>1. Len(<<>>) = 0
      OBVIOUS
    <3> QED
      BY <2>3, <3>1, Zenon
  <2> QED
    BY <1>5, <2>2, <2>4, Zenon DEF Last
<1> QED
  BY <1>3, <1>4, <1>5, <1>6 DEF n

(* Leaving out the last element, and adding one.                           *)
LEMMA FrontShorter ==
  ASSUME NEW S, NEW s \in Seq(S), s # <<>>
  PROVE  /\ Last(s) \in S /\ Front(s) \in Seq(S)
         /\ Len(s) = 1 => Front(s) = <<>>
<1>0. Len(s) \in Nat /\ Len(s) \in 1 .. Len(s) /\ \A k \in 1 .. Len(s) : s[k] \in S
  BY ElementOfSeq, EmptySeq, LenProperties
<1>1. 1 \in Int /\ Len(s) - 1 \in Int /\ \A j \in 1 .. Len(s) - 1 : s[j] \in S
  BY <1>0
<1> DEFINE f == SubSeq(s, 1, Len(s) - 1)
<1>2. f \in Seq(S) /\ Len(f) = IF 1 <= Len(s) - 1 THEN (Len(s) - 1) - 1 + 1 ELSE 0
  BY <1>1, SubSeqProperties
<1> HIDE DEF f
<1>3. Len(s) = 1 => f = <<>>
  <2>1. Len(s) = 1 => Len(f) = 0
    BY <1>0, <1>2
  <2> QED
    BY <1>2, <2>1, EmptySeq
<1> QED
  BY <1>0, <1>2, <1>3 DEF f, Front, Last

(* A listing of the files on Google Drive is a sequence of them, none      *)
(* listed twice.                                                           *)
LEMMA ListTyped ==
  ASSUME NEW list \in {<<>>} \cup SetToSeqs(DriveFiles)
  PROVE  /\ list \in Seq(DriveFiles)
         /\ \A i, j \in DOMAIN list : list[i] = list[j] => i = j
<1>1. CASE list = <<>>
  BY <1>1
<1>2. CASE list \in SetToSeqs(DriveFiles)
  <2>1. Cardinality(DriveFiles) \in Nat
    BY ImagesAssumption, FS_CardinalityType
  <2>2. /\ list \in [1 .. Cardinality(DriveFiles) -> DriveFiles]
        /\ \A i, j \in 1 .. Cardinality(DriveFiles) : i # j => list[i] # list[j]
    BY <1>2 DEF SetToSeqs
  <2> QED
    BY <2>1, <2>2
<1> QED
  BY <1>1, <1>2

(* What a step that leaves the sheet, its downloads and the last pick      *)
(* alone keeps; another sheet may only come when this one is not there.    *)
LEMMA DriveLeft ==
  ASSUME DriveTypes, DriveInv,
         UNCHANGED <<sheet, downloads, checked>>,
         UNCHANGED lastPick \/ shown # "drive",
         UNCHANGED shown \/ shown # "drive"
  PROVE  DriveTypes' /\ DriveInv'
<1>1. UNCHANGED <<drive, isLoading, files, selectedIndexes, downloads, checked>>
  BY DEF sheet
<1>2. DriveTypes'
  BY <1>1, Zenon DEF DriveTypes
<1>3. ChecksInv'
  BY <1>1, Zenon DEF DriveInv, ChecksInv
<1>4. CASE drive = "nothing"
  <2>1. SheetInv'
    BY <1>1, <1>4 DEF DriveInv, SheetInv
  <2> QED
    BY <1>2, <1>3, <2>1 DEF DriveInv
<1>5. CASE drive # "nothing"
  <2>1. shown' = shown /\ lastPick' = lastPick
    BY <1>5 DEF DriveInv, SheetInv
  <2>2. SheetInv'
    BY <1>1, <2>1, Zenon DEF DriveInv, SheetInv
  <2> QED
    BY <1>2, <1>3, <2>2 DEF DriveInv
<1> QED
  BY <1>4, <1>5

(* With no file listed there is nothing to check.                          *)
LEMMA NoFilesChecked == \A f : f = <<>> => DOMAIN f = {}
OBVIOUS

(* The sheet is closed and a new one opened; nothing is selected.          *)
LEMMA OpenDriveKeeps ==
  ASSUME Inv, OpenDrive
  PROVE  DriveTypes' /\ DriveInv'
<1>1. /\ shown' = "drive" /\ isLoading' = TRUE /\ files' = <<>> /\ selectedIndexes' = <<>>
      /\ drive' \in {"list", "signIn"} /\ shown = "none"
      /\ UNCHANGED <<downloads, checked>>
  BY DEF OpenDrive, MenuShown
<1>2. checked = {}
  BY <1>1 DEF Inv, DriveInv, SheetInv
<1>3. DriveTypes'
  <2>1. isLoading' \in BOOLEAN
    BY <1>1, Zenon
  <2>2. files' \in Seq(DriveFiles) /\ selectedIndexes' \in Seq(DOMAIN files')
    BY <1>1
  <2> QED
    BY <1>1, <2>1, <2>2 DEF Inv, DriveTypes
<1>4. SheetInv'
  BY <1>1, <1>2 DEF SheetInv
<1>5. ChecksInv'
  BY <1>1, NoFilesChecked DEF ChecksInv
<1> QED
  BY <1>3, <1>4, <1>5 DEF DriveInv

LEMMA SignInKeeps ==
  ASSUME Inv, NEW ok \in BOOLEAN, SignInEnds(ok)
  PROVE  DriveTypes' /\ DriveInv'
<1>1. /\ drive = "signIn" /\ drive' = (IF currentUser' THEN "list" ELSE "nothing")
      /\ isLoading' = currentUser' /\ currentUser' = (currentUser \/ ok)
      /\ UNCHANGED <<shown, files, selectedIndexes, downloads, lastPick, checked>>
  BY DEF SignInEnds, result
<1>2. isLoading' \in BOOLEAN
  BY <1>1, Zenon DEF Inv, AccountTypes
<1>3. DriveTypes'
  BY <1>1, <1>2 DEF Inv, DriveTypes
<1>4. ChecksInv'
  BY <1>1, Zenon DEF Inv, DriveInv, ChecksInv
<1>5. checked' = {} /\ selectedIndexes' = <<>> /\ shown' = "drive"
  BY <1>1 DEF Inv, DriveInv, SheetInv
<1>6. SheetInv'
  <2>1. CASE currentUser'
    BY <1>1, <1>5, <2>1 DEF SheetInv
  <2>2. CASE ~currentUser'
    BY <1>1, <1>5, <2>2 DEF SheetInv
  <2> QED
    BY <2>1, <2>2
<1> QED
  BY <1>3, <1>4, <1>6 DEF DriveInv

(* The list comes before anything can be selected.                         *)
LEMMA ListKeeps ==
  ASSUME Inv, NEW list \in {<<>>} \cup SetToSeqs(DriveFiles), ListEnds(list)
  PROVE  DriveTypes' /\ DriveInv'
<1>1. /\ drive = "list" /\ drive' = "nothing" /\ isLoading' = FALSE /\ files' = list
      /\ UNCHANGED <<shown, selectedIndexes, downloads, lastPick, checked>>
  BY DEF ListEnds, result
<1>2. selectedIndexes' = <<>> /\ checked' = {}
  BY <1>1 DEF Inv, DriveInv, SheetInv
<1>3. DriveTypes'
  <2>1. isLoading' \in BOOLEAN
    BY <1>1, Zenon
  <2>2. files' \in Seq(DriveFiles)
    BY <1>1, ListTyped
  <2>3. selectedIndexes' \in Seq(DOMAIN files')
    BY <1>2
  <2> QED
    BY <1>1, <2>1, <2>2, <2>3 DEF Inv, DriveTypes
<1>4. SheetInv'
  BY <1>1, <1>2 DEF SheetInv
<1>5. ChecksInv'
  <2>1. \A i, j \in DOMAIN files' : files'[i] = files'[j] => i = j
    BY <1>1, ListTyped
  <2>2. \A k : ~Contains(<<>>, k)
    BY DEF Contains
  <2>3. \A k \in DOMAIN files' : files'[k] \in checked' <=> Contains(selectedIndexes', k)
    BY <1>2, <2>2
  <2> QED
    BY <2>1, <2>3 DEF ChecksInv
<1> QED
  BY <1>3, <1>4, <1>5 DEF DriveInv

(* A tap selects or deselects an index of the list that is shown, and the  *)
(* file at that index gets or loses its check mark.                        *)
LEMMA TapKeeps ==
  ASSUME Inv, NEW k \in DOMAIN files, TapFile(k)
  PROVE  DriveTypes' /\ DriveInv'
<1>1. /\ shown = "drive" /\ ~isLoading
      /\ selectedIndexes' = IF Contains(selectedIndexes, k)
                            THEN Without(selectedIndexes, k)
                            ELSE Append(selectedIndexes, k)
      /\ checked' = IF files[k] \in checked
                    THEN checked \ {files[k]} ELSE checked \cup {files[k]}
      /\ UNCHANGED <<shown, drive, isLoading, files, downloads, lastPick>>
  BY DEF TapFile, result
<1>2. selectedIndexes \in Seq(DOMAIN files) /\ files[k] \in DriveFiles
      /\ checked \subseteq DriveFiles
  BY ElementOfSeq DEF Inv, DriveTypes
<1>3. /\ \A i, j \in DOMAIN files : files[i] = files[j] => i = j
      /\ \A j \in DOMAIN files : files[j] \in checked <=> Contains(selectedIndexes, j)
  BY DEF Inv, DriveInv, ChecksInv
<1>4. drive = "nothing"
  BY <1>1 DEF Inv, DriveInv, SheetInv
<1>5. CASE Contains(selectedIndexes, k)
  <2>1. selectedIndexes' = Without(selectedIndexes, k) /\ checked' = checked \ {files[k]}
    BY <1>1, <1>3, <1>5
  <2>2. /\ selectedIndexes' \in Seq(DOMAIN files)
        /\ \A x : Contains(selectedIndexes', x) <=> Contains(selectedIndexes, x) /\ x # k
    BY <1>2, <2>1, WithoutElements
  <2>3. ASSUME NEW j \in DOMAIN files
        PROVE  files[j] \in checked' <=> Contains(selectedIndexes', j)
    BY <1>3, <2>1, <2>2, Zenon
  <2>4. checked' \subseteq DriveFiles
    BY <1>2, <2>1
  <2> QED
    BY <1>1, <1>3, <1>4, <2>2, <2>3, <2>4
    DEF Inv, DriveTypes, DriveInv, SheetInv, ChecksInv
<1>6. CASE ~Contains(selectedIndexes, k)
  <2>1. selectedIndexes' = Append(selectedIndexes, k) /\ checked' = checked \cup {files[k]}
    BY <1>1, <1>3, <1>6
  <2>2. /\ selectedIndexes' \in Seq(DOMAIN files)
        /\ \A x : Contains(selectedIndexes', x) <=> Contains(selectedIndexes, x) \/ x = k
    BY <1>2, <2>1, AppendContains
  <2>3. ASSUME NEW j \in DOMAIN files
        PROVE  files[j] \in checked' <=> Contains(selectedIndexes', j)
    BY <1>3, <2>1, <2>2, Zenon
  <2>4. checked' \subseteq DriveFiles
    BY <1>2, <2>1
  <2> QED
    BY <1>1, <1>3, <1>4, <2>2, <2>3, <2>4
    DEF Inv, DriveTypes, DriveInv, SheetInv, ChecksInv
<1> QED
  BY <1>5, <1>6

(* Open starts a download of a file that is checked.                       *)
LEMMA OpenTappedKeeps ==
  ASSUME Inv, OpenTapped
  PROVE  DriveTypes' /\ DriveInv' /\ lastPick' \in SUBSET DriveFiles
<1> DEFINE h == Head(selectedIndexes)
           f == files[h]
<1>1. /\ shown = "drive" /\ ~isLoading /\ selectedIndexes # <<>>
      /\ isLoading' = TRUE /\ drive' = "download" /\ lastPick' = checked
      /\ downloads' = Append(downloads, f)
      /\ UNCHANGED <<shown, files, selectedIndexes, checked>>
  BY DEF OpenTapped
<1>2. h \in DOMAIN files /\ Contains(selectedIndexes, h)
  <2>1. selectedIndexes \in Seq(DOMAIN files) /\ selectedIndexes # <<>>
    BY <1>1 DEF Inv, DriveTypes
  <2>2. h \in DOMAIN files /\ h = selectedIndexes[1] /\ 1 \in 1 .. Len(selectedIndexes)
    BY <2>1
  <2> QED
    BY <2>2 DEF Contains
<1>3. f \in DriveFiles /\ f \in checked
  BY <1>2 DEF Inv, DriveTypes, DriveInv, ChecksInv
<1> HIDE DEF f, h
<1>4. /\ downloads' \in Seq(DriveFiles) /\ downloads' # <<>>
      /\ Len(downloads') = Len(downloads) + 1 /\ downloads'[Len(downloads) + 1] = f
  BY <1>1, <1>3, AppendProperties DEF Inv, DriveTypes
<1>5. DriveTypes'
  <2>1. isLoading' \in BOOLEAN
    BY <1>1, Zenon
  <2> QED
    BY <1>1, <1>4, <2>1 DEF Inv, DriveTypes
<1>6. SheetInv'
  <2>1. Last(downloads') \in lastPick'
    BY <1>1, <1>3, <1>4 DEF Last
  <2> QED
    BY <1>1, <1>4, <2>1 DEF SheetInv
<1>7. ChecksInv'
  BY <1>1, Zenon DEF Inv, DriveInv, ChecksInv
<1> QED
  BY <1>1, <1>5, <1>6, <1>7 DEF Inv, DriveTypes, DriveInv

(* A sheet that is gone shows no files and has nothing selected.           *)
LEMMA ClosedKeeps ==
  ASSUME Inv, Closed, checked' = {}, downloads' \in Seq(DriveFiles)
  PROVE  DriveTypes' /\ DriveInv'
<1>1. /\ drive' = "nothing" /\ isLoading' = FALSE
      /\ files' = <<>> /\ selectedIndexes' = <<>> /\ checked' = {}
  BY DEF Closed
<1>2. DriveTypes'
  <2>1. isLoading' \in BOOLEAN
    BY <1>1, Zenon
  <2>2. files' \in Seq(DriveFiles) /\ selectedIndexes' \in Seq(DOMAIN files')
        /\ checked' \in SUBSET DriveFiles
    BY <1>1
  <2> QED
    BY <1>1, <2>1, <2>2 DEF DriveTypes
<1>3. SheetInv'
  BY <1>1 DEF SheetInv
<1>4. ChecksInv'
  BY <1>1, NoFilesChecked DEF ChecksInv
<1> QED
  BY <1>2, <1>3, <1>4 DEF DriveInv

(* The sheet is swiped away; what it was downloading goes on.              *)
LEMMA CloseDriveKeeps ==
  ASSUME Inv, CloseDrive
  PROVE  DriveTypes' /\ DriveInv'
<1>1. Closed /\ checked' = {} /\ downloads' \in Seq(DriveFiles)
  BY DEF CloseDrive, Inv, DriveTypes
<1> QED
  BY <1>1, ClosedKeeps

LEMMA DownloadKeeps ==
  ASSUME Inv, DownloadEnds
  PROVE  /\ DriveTypes' /\ DriveInv'
         /\ Last(downloads) \in lastPick /\ Last(downloads) \in DriveFiles
<1>1. drive = "download" /\ Closed /\ checked' = {} /\ downloads' = Front(downloads)
  BY DEF DownloadEnds
<1>2. downloads \in Seq(DriveFiles) /\ downloads # <<>> /\ Last(downloads) \in lastPick
  BY <1>1 DEF Inv, DriveInv, SheetInv, DriveTypes
<1>3. downloads' \in Seq(DriveFiles) /\ Last(downloads) \in DriveFiles
  BY <1>1, <1>2, FrontShorter
<1> QED
  BY <1>1, <1>2, <1>3, ClosedKeeps

(* A download whose sheet is gone leaves the one of the sheet on the       *)
(* screen in its place.                                                    *)
LEMMA LateDownloadKeeps ==
  ASSUME Inv, NEW k \in DOMAIN downloads, LateDownloadEnds(k)
  PROVE  DriveTypes' /\ DriveInv' /\ downloads[k] \in DriveFiles
<1>1. /\ drive = "download" => k < Len(downloads)
      /\ downloads' = RemoveAt(downloads, k)
      /\ UNCHANGED <<drive, isLoading, files, selectedIndexes, shown, lastPick, checked>>
  BY DEF LateDownloadEnds, sheet
<1>2. downloads \in Seq(DriveFiles) /\ k \in 1 .. Len(downloads) /\ Len(downloads) \in Nat
  BY DEF Inv, DriveTypes
<1>3. /\ downloads' \in Seq(DriveFiles)
      /\ k < Len(downloads) => downloads' # <<>> /\ Last(downloads') = Last(downloads)
  BY <1>1, <1>2, RemoveAtKeepsLast
<1>4. DriveTypes'
  BY <1>1, <1>3, Zenon DEF Inv, DriveTypes
<1>5. SheetInv'
  BY <1>1, <1>3, Zenon DEF Inv, DriveInv, SheetInv
<1>6. ChecksInv'
  BY <1>1, Zenon DEF Inv, DriveInv, ChecksInv
<1>7. downloads[k] \in DriveFiles
  BY <1>2, ElementOfSeq
<1> QED
  BY <1>4, <1>5, <1>6, <1>7 DEF DriveInv

(* The Google Drive sheet under every step.                                *)
LEMMA DriveStep ==
  ASSUME Inv, [Next]_vars
  PROVE  DriveTypes' /\ DriveInv'
<1>0. DriveTypes /\ DriveInv
  BY DEF Inv
<1>1. CASE OnCameraAction \/ CameraBlockRuns \/ OnGalleryAction \/ PhotosBlockRuns
           \/ PresentPicker \/ PickerCancelled \/ OpenFiles \/ FilesCancelled \/ RemoveImage
  <2>1. UNCHANGED <<sheet, downloads, checked, lastPick>>
        /\ (UNCHANGED shown \/ shown # "drive")
    BY <1>1 DEF OnCameraAction, CameraBlockRuns, OnGalleryAction, PhotosBlockRuns,
       PresentPicker, PickerCancelled, OpenFiles, FilesCancelled, RemoveImage, MenuShown, result
  <2> QED
    BY <1>0, <2>1, DriveLeft
<1>2. CASE \E granted \in BOOLEAN : CameraAnswered(granted) \/ PhotosAnswered(granted)
  <2>1. UNCHANGED <<sheet, downloads, checked, lastPick, shown>>
    BY <1>2 DEF CameraAnswered, PhotosAnswered, result
  <2> QED
    BY <1>0, <2>1, DriveLeft
<1>3. CASE \E i \in Photos : Picked(i) \/ FilePicked(i)
  <2>1. UNCHANGED <<sheet, downloads, checked>> /\ shown # "drive"
    BY <1>3 DEF Picked, FilePicked
  <2> QED
    BY <1>0, <2>1, DriveLeft
<1>4. CASE \E ok \in BOOLEAN : RestoreEnds(ok)
  <2>1. UNCHANGED <<sheet, downloads, checked, lastPick, shown>>
    BY <1>4 DEF RestoreEnds, result
  <2> QED
    BY <1>0, <2>1, DriveLeft
<1>5. CASE \E ok \in BOOLEAN : SignInEnds(ok)
  BY <1>5, SignInKeeps
<1>6. CASE OpenDrive
  BY <1>6, OpenDriveKeeps
<1>7. CASE \E list \in {<<>>} \cup SetToSeqs(DriveFiles) : ListEnds(list)
  BY <1>7, ListKeeps
<1>8. CASE \E k \in DOMAIN files : TapFile(k)
  BY <1>8, TapKeeps
<1>9. CASE OpenTapped
  BY <1>9, OpenTappedKeeps
<1>10. CASE CloseDrive
  BY <1>10, CloseDriveKeeps
<1>11. CASE DownloadEnds
  BY <1>11, DownloadKeeps
<1>12. CASE \E k \in DOMAIN downloads : LateDownloadEnds(k)
  BY <1>12, LateDownloadKeeps
<1>13. CASE UNCHANGED vars
  <2>1. UNCHANGED <<sheet, downloads, checked, lastPick, shown>>
    BY <1>13 DEF vars, result
  <2> QED
    BY <1>0, <2>1, DriveLeft
<1> QED
  BY <1>1, <1>2, <1>3, <1>4, <1>5, <1>6, <1>7, <1>8, <1>9, <1>10, <1>11, <1>12, <1>13,
     Zenon DEF Next

(* The image of the draft is one that can be picked, and it becomes        *)
(* another one only as the last pick, but for the end of a late download.  *)
LEMMA ResultStep ==
  ASSUME Inv, [Next]_vars
  PROVE  /\ ResultTypes'
         /\ image' \notin {image, NoImage} =>
              image' \in lastPick' \/ \E k \in DOMAIN downloads : LateDownloadEnds(k)
<1>0. ResultTypes
  BY DEF Inv
<1> USE DEF ResultTypes, Images
<1>1. CASE UNCHANGED result
  BY <1>0, <1>1 DEF result
<1>2. CASE \E i \in Photos : Picked(i) \/ FilePicked(i)
  BY <1>0, <1>2 DEF Picked, FilePicked
<1>3. CASE RemoveImage
  BY <1>0, <1>3 DEF RemoveImage
<1>4. CASE OpenTapped
  <2>1. lastPick' \in SUBSET DriveFiles /\ image' = image
    BY <1>4, OpenTappedKeeps DEF OpenTapped
  <2> QED
    BY <1>0, <2>1
<1>5. CASE DownloadEnds
  <2>1. /\ image' \in {Last(downloads), image} /\ lastPick' = lastPick
        /\ Last(downloads) \in lastPick /\ Last(downloads) \in DriveFiles
    BY <1>5, DownloadKeeps DEF DownloadEnds
  <2> QED
    BY <1>0, <2>1
<1>6. CASE \E k \in DOMAIN downloads : LateDownloadEnds(k)
  <2>1. PICK k \in DOMAIN downloads : LateDownloadEnds(k)
    BY <1>6
  <2>2. /\ image' \in {downloads[k], image} /\ lastPick' = lastPick
        /\ downloads[k] \in DriveFiles
    BY <2>1, LateDownloadKeeps DEF LateDownloadEnds
  <2> QED
    BY <1>0, <1>6, <2>2
<1>7. ASSUME OnCameraAction \/ CameraBlockRuns \/ OnGalleryAction \/ PhotosBlockRuns
             \/ PresentPicker \/ PickerCancelled \/ OpenFiles \/ FilesCancelled
             \/ OpenDrive \/ CloseDrive
             \/ (\E granted \in BOOLEAN : CameraAnswered(granted) \/ PhotosAnswered(granted))
             \/ (\E ok \in BOOLEAN : RestoreEnds(ok) \/ SignInEnds(ok))
             \/ (\E list \in {<<>>} \cup SetToSeqs(DriveFiles) : ListEnds(list))
             \/ (\E k \in DOMAIN files : TapFile(k))
             \/ UNCHANGED vars
      PROVE  UNCHANGED result
  BY <1>7, Zenon DEF OnCameraAction, CameraBlockRuns, OnGalleryAction, PhotosBlockRuns,
     PresentPicker, PickerCancelled, OpenFiles, FilesCancelled, OpenDrive, CloseDrive,
     CameraAnswered, PhotosAnswered, RestoreEnds, SignInEnds, ListEnds, TapFile, vars
<1> QED
  BY <1>1, <1>2, <1>3, <1>4, <1>5, <1>6, <1>7, Zenon DEF Next

LEMMA NextInv == Inv /\ [Next]_vars => Inv'
<1> SUFFICES ASSUME Inv, [Next]_vars PROVE Inv'
  OBVIOUS
<1>1. PickerTypes' /\ PickerInv'
  BY PickerStep DEF Inv
<1>2. AccountTypes'
  BY AccountStep DEF Inv
<1>3. DriveTypes' /\ DriveInv' /\ ResultTypes'
  BY DriveStep, ResultStep
<1> QED
  BY <1>1, <1>2, <1>3 DEF Inv

(* Where the pickers, the sheet and the downloads stand, in every state.   *)
THEOREM ImagesInvariant == Spec => []Inv
<1> QED
  BY InitInv, NextInv, PTL DEF Spec

(* Flags, lists and downloads keep their types; in particular a selected   *)
(* index always points into the list of files that is shown.               *)
THEOREM ImagesTyped == Spec => []TypeOK
<1>1. Inv => TypeOK
  BY TypesAgree DEF Inv
<1> QED
  BY <1>1, ImagesInvariant, PTL

(* The sheet made by onCameraAction or onGalleryAction is a camera only    *)
(* for a user who has just chosen the camera.                              *)
THEOREM CameraHolds == Spec => []CameraOnlyAsked
<1>1. Inv => CameraOnlyAsked
  BY DEF Inv, PickerInv, CameraOnlyAsked
<1> QED
  BY <1>1, ImagesInvariant, PTL

(* The draft gets no other image than one of the user's last pick, for any *)
(* order of taps on the list of Google Drive, except in the step in which  *)
(* a download ends whose sheet is gone.                                    *)
THEOREM LastPickHolds == Spec => LastPickWins
<1>1. Inv /\ [Next]_vars
        => [image' \notin {image, NoImage} =>
              image' \in lastPick' \/ \E k \in DOMAIN downloads : LateDownloadEnds(k)]_vars
  BY ResultStep
<1> QED
  BY <1>1, ImagesInvariant, PTL DEF Spec, LastPickWins

(* A Google Drive sheet that is covered by its loading view has a call out *)
(* whose completion uncovers it: the safety half of DriveLoadingEnds.      *)
DriveWaits == isLoading => drive # "nothing"

(* No path through sign-in, list, selection and download leaves the sheet  *)
(* loading with nothing to wait for, whatever late downloads do.           *)
THEOREM DriveHasReason == Spec => []DriveWaits
<1>1. Init => DriveWaits
  BY DEF Init, DriveWaits
<1>2. DriveWaits /\ [Next]_vars => DriveWaits'
  <2> SUFFICES ASSUME DriveWaits, [Next]_vars PROVE DriveWaits'
    OBVIOUS
  <2>0. ASSUME UNCHANGED sheet PROVE DriveWaits'
    BY <2>0 DEF DriveWaits, sheet
  <2>1. CASE OnCameraAction \/ CameraBlockRuns \/ OnGalleryAction \/ PhotosBlockRuns
             \/ PresentPicker \/ PickerCancelled \/ OpenFiles \/ FilesCancelled \/ RemoveImage
    BY <2>0, <2>1, Zenon
    DEF OnCameraAction, CameraBlockRuns, OnGalleryAction, PhotosBlockRuns, PresentPicker,
        PickerCancelled, OpenFiles, FilesCancelled, RemoveImage
  <2>2. CASE \/ \E granted \in BOOLEAN : CameraAnswered(granted) \/ PhotosAnswered(granted)
             \/ \E i \in Photos : Picked(i) \/ FilePicked(i)
             \/ \E ok \in BOOLEAN : RestoreEnds(ok)
             \/ \E k \in DOMAIN downloads : LateDownloadEnds(k)
             \/ UNCHANGED vars
    BY <2>0, <2>2, Zenon
    DEF CameraAnswered, PhotosAnswered, Picked, FilePicked, RestoreEnds, LateDownloadEnds, vars
  <2>3. CASE OpenDrive \/ OpenTapped
    <3>1. drive' \in {"list", "signIn", "download"}
      BY <2>3, Zenon DEF OpenDrive, OpenTapped
    <3> QED
      BY <3>1 DEF DriveWaits
  <2>4. ASSUME NEW ok \in BOOLEAN, SignInEnds(ok) PROVE DriveWaits'
    <3>1. isLoading' => drive' = "list"
      BY <2>4, Zenon DEF SignInEnds
    <3> QED
      BY <3>1 DEF DriveWaits
  <2>5. CASE \/ \E list \in {<<>>} \cup SetToSeqs(DriveFiles) : ListEnds(list)
             \/ CloseDrive \/ DownloadEnds
    <3>1. ~isLoading'
      BY <2>5, Zenon DEF ListEnds, CloseDrive, DownloadEnds, Closed
    <3> QED
      BY <3>1 DEF DriveWaits
  <2>6. CASE \E k \in DOMAIN files : TapFile(k)
    BY <2>6 DEF TapFile, DriveWaits
  <2> QED
    BY <2>1, <2>2, <2>3, <2>4, <2>5, <2>6, Zenon DEF Next
<1> QED
  BY <1>1, <1>2, PTL DEF Spec
=============================================================================
