--------------------------- MODULE DavStoreProofs ---------------------------
(***************************************************************************)
(* Theorems about DavStore, for any number of processes and any clock      *)
(* range, with failing requests and killed processes.                      *)
(***************************************************************************)
EXTENDS DavStore, TLAPS

USE MaxTimeAssumption, DavAssumption

LEMMA ZeroStamp == 0 \in Stamps
  BY DEF Stamps

LEMMA NoImageType == NoImage \in Image /\ ~There(NoImage) /\ ~Whole(NoImage)
  BY ZeroStamp DEF NoImage, Image, ImageStates, There, Whole

(* The ways an upload ends.                                                *)
LEMMA UploadedHow ==
  ASSUME NEW p \in Pids, Upload(p)
  PROVE  \E st \in {"none", "torn", "cached"} :
           /\ Uploaded(p, st)
           /\ st = "cached" => job[p].sent
           /\ ~KeepsBroken /\ pc[p] # "copy" /\ job[p].sent => st # "torn"
           /\ ~KeepsBroken /\ pc[p] = "copy" => st # "torn"
  BY DEF Upload, Put, PutFails

(* What has gone into the pipe when the copy ends.                         *)
LEMMA CopyEndHow ==
  ASSUME NEW p \in Pids, CopyEnd(p)
  PROVE  \E all \in BOOLEAN :
           /\ pc[p] = "copy" /\ goto(p, "check")
           /\ job' = [job EXCEPT ![p].sent = all] /\ (~ShortReads => all)
           /\ UNCHANGED <<files, clock, src, child>>
  BY DEF CopyEnd

(* Every variable keeps its type.                                          *)
THEOREM TypeCorrect == Spec => []TypeOK
<1>1. Init => TypeOK
  BY ZeroStamp, NoImageType DEF Init, TypeOK, First, Job, Image, ImageStates, PCs
<1>2. TypeOK /\ [Next]_vars => TypeOK'
  <2> SUFFICES ASSUME TypeOK, [Next]_vars PROVE TypeOK'
    OBVIOUS
  <2> USE DEF TypeOK, files, vars, goto, PCs
  <2>1. CASE Tick \/ NewRelease \/ UNCHANGED vars
    BY <2>1 DEF Tick, NewRelease, Stamps
  <2>2. ASSUME NEW p \in Pids,
               Begin(p) \/ OpenTemp(p) \/ CopyEnd(p) \/ Upload(p) \/ Replace(p) \/ Kill(p)
        PROVE  TypeOK'
    <3>1. CASE Begin(p) \/ Fails(p) \/ Kill(p)
      BY <3>1 DEF Begin, Fails, Kill
    <3>2. CASE OpenTemp(p)
      BY <3>2 DEF OpenTemp, Image, ImageStates, Job
    <3>3. CASE CopyEnd(p)
      <4>1. PICK all \in BOOLEAN :
              /\ goto(p, "check") /\ job' = [job EXCEPT ![p].sent = all]
              /\ UNCHANGED <<files, clock, src, child>>
        BY <3>3, CopyEndHow
      <4>2. [job[p] EXCEPT !.sent = all] \in Job
        BY DEF Job
      <4> QED
        BY <4>1, <4>2
    <3>4. CASE Upload(p)
      <4>1. PICK st \in {"none", "torn", "cached"} : Uploaded(p, st)
        BY <3>4, UploadedHow
      <4>2. [temp[p] EXCEPT !.st = st] \in Image
        BY DEF Image, ImageStates
      <4> QED
        BY <4>1, <4>2 DEF Uploaded
    <3>5. CASE Look(p, "check", "backup", "name") \/ Look(p, "look", "again", "publish")
      <4>1. [job[p] EXCEPT !.at = clock] \in Job
        BY DEF Job
      <4>2. /\ job' = [job EXCEPT ![p].at = clock] /\ UNCHANGED <<files, clock, src, child>>
            /\ \E l \in PCs : goto(p, l)
        BY <3>5 DEF Look
      <4> QED
        BY <4>1, <4>2
    <3>6. CASE Backup(p, "backup", "name") \/ Backup(p, "again", "publish")
      <4>1. /\ job[p].at \in Stamps /\ old' = [old EXCEPT ![job[p].at] = cur]
            /\ cur' = NoImage /\ UNCHANGED <<named, temp, clock, src, child, job>>
            /\ \E l \in PCs : goto(p, l)
        BY <3>6 DEF Backup, Answered, Job
      <4> QED
        BY <4>1, NoImageType
    <3>7. CASE NameTemp(p)
      BY <3>7, NoImageType DEF NameTemp, Answered, Job
    <3>8. CASE PublishMove(p)
      BY <3>8, NoImageType DEF PublishMove, Answered, Job
    <3> QED
      BY <2>2, <3>1, <3>2, <3>3, <3>4, <3>5, <3>6, <3>7, <3>8 DEF Replace
  <2> QED
    BY <2>1, <2>2 DEF Next
<1> QED
  BY <1>1, <1>2, PTL DEF Spec

-----------------------------------------------------------------------------
LEMMA IntactInit == Init => IntactInv
  BY NoImageType DEF Init, IntactInv, PublishedIntact, DataSafe, Published, First, Whole, There

LEMMA IntactStep == TypeOK /\ IntactInv /\ [Next]_vars => IntactInv'
<1> SUFFICES ASSUME TypeOK, IntactInv, [Next]_vars PROVE IntactInv'
  OBVIOUS
<1> USE DEF TypeOK, files, vars, goto, PCs, IntactInv
<1>1. CASE Tick \/ NewRelease \/ UNCHANGED vars
  BY <1>1 DEF Tick, NewRelease, PublishedIntact, DataSafe, Published
<1>2. ASSUME NEW p \in Pids,
             Begin(p) \/ OpenTemp(p) \/ CopyEnd(p) \/ Upload(p) \/ Replace(p) \/ Kill(p)
      PROVE  IntactInv'
  <2>1. CASE Begin(p) \/ Fails(p) \/ Kill(p)
    BY <2>1 DEF Begin, Fails, Kill, Ended, PublishedIntact, DataSafe, Published
  <2>2. CASE OpenTemp(p)
    BY <2>2 DEF OpenTemp, PublishedIntact, DataSafe, Published, Job, Image
  <2>3. CASE CopyEnd(p)
    <3>1. PICK all \in BOOLEAN :
            /\ pc[p] = "copy" /\ goto(p, "check")
            /\ job' = [job EXCEPT ![p].sent = all] /\ (~ShortReads => all)
            /\ UNCHANGED <<files, clock, src, child>>
      BY <2>3, CopyEndHow
    <3>2. PublishedIntact'
      BY <3>1 DEF PublishedIntact, DataSafe, Published
    <3>3. job'[p].sent = all /\ \A q \in Pids : q # p => job'[q] = job[q]
      BY <3>1 DEF Job
    <3> QED
      BY <3>1, <3>2, <3>3 DEF DataSafe
  <2>4. CASE Upload(p)
    <3>1. PICK st \in {"none", "torn", "cached"} :
            /\ Uploaded(p, st)
            /\ ~KeepsBroken /\ pc[p] # "copy" /\ job[p].sent => st # "torn"
            /\ ~KeepsBroken /\ pc[p] = "copy" => st # "torn"
      BY <2>4, UploadedHow
    <3>2. /\ temp'[p].st = st /\ child'[p] = "ended" /\ child[p] = "putting"
          /\ \A q \in Pids : q # p => temp'[q] = temp[q] /\ child'[q] = child[q]
          /\ UNCHANGED <<cur, named, old, clock, src, pc, job>>
      BY <3>1 DEF Uploaded, Image
    <3>3. PublishedIntact'
      BY <3>2 DEF PublishedIntact, DataSafe, Published
    <3>4. \A q \in Pids : q # p =>
            UNCHANGED <<temp[q], child[q], pc[q], job[q]>>
      BY <3>2
    <3>5. /\ pc[p] \notin {"idle", "open"}
          /\ DataSafe /\ pc[p] \in {"copy", "check", "backup", "name"} => st # "torn"
          /\ There(temp[p])' => st # "none"
          /\ st = "cached" => Whole(temp[p])'
      BY <3>1, <3>2 DEF There, Whole, DataSafe
    <3> QED
      BY <3>2, <3>3, <3>4, <3>5 DEF There, Whole
  <2>5. CASE Look(p, "check", "backup", "name") \/ Look(p, "look", "again", "publish")
    BY <2>5 DEF Look, PublishedIntact, DataSafe, Published, Job
  <2>6. CASE Backup(p, "backup", "name") \/ Backup(p, "again", "publish")
    BY <2>6, NoImageType DEF Backup, Answered, PublishedIntact, DataSafe, Published, Job
  <2>7. CASE NameTemp(p)
    BY <2>7, NoImageType DEF NameTemp, Answered, PublishedIntact, DataSafe, Published, Job
  <2>8. CASE PublishMove(p)
    BY <2>8, NoImageType DEF PublishMove, Answered, PublishedIntact, DataSafe, Published, Job
  <2> QED
    BY <1>2, <2>1, <2>2, <2>3, <2>4, <2>5, <2>6, <2>7, <2>8 DEF Replace
<1> QED
  BY <1>1, <1>2 DEF Next

(* Where sources deliver whole images and the server drops broken uploads, *)
(* no permanent name ever holds part of an image.                          *)
THEOREM Intact == Spec => []PublishedIntact
<1>1. IntactInv => PublishedIntact
  BY DEF IntactInv
<1> QED
  BY <1>1, IntactInit, IntactStep, TypeCorrect, PTL DEF Spec
-----------------------------------------------------------------------------
(***************************************************************************)
(* The requests keep the promise of SfsPublish: a version is shown only    *)
(* once it is whole, and no version is lost with the last of its images.   *)
(***************************************************************************)
LEMMA StampsDiffer == NoVersion \notin Stamps
  BY DEF NoVersion, Stamps

(* Only the MOVE of a temporary file publishes another image.              *)
LEMMA StepImages ==
  ASSUME TypeOK, [Next]_vars
  PROVE  \/ \A i \in Published' : Whole(i) => i \in Published
         \/ \E p \in Pids :
              /\ UNCHANGED cur
              /\ \A i \in Published' : Whole(i) => i \in Published \/ i = temp[p]
<1> USE DEF TypeOK, files, vars
<1>1. CASE Tick \/ NewRelease \/ UNCHANGED vars
  BY <1>1 DEF Tick, NewRelease, Published
<1>2. ASSUME NEW p \in Pids,
             Begin(p) \/ OpenTemp(p) \/ CopyEnd(p) \/ Upload(p) \/ Replace(p) \/ Kill(p)
      PROVE  \/ \A i \in Published' : Whole(i) => i \in Published
             \/ /\ UNCHANGED cur
                /\ \A i \in Published' : Whole(i) => i \in Published \/ i = temp[p]
  <2>1. CASE UNCHANGED <<cur, named, old>>
    BY <2>1 DEF Published
  <2>2. CASE Backup(p, "backup", "name") \/ Backup(p, "again", "publish")
    BY <2>2, NoImageType DEF Backup, Published, Job
  <2>3. CASE NameTemp(p)
    BY <2>3, NoImageType DEF NameTemp, Published, Job
  <2>4. CASE PublishMove(p)
    BY <2>4, NoImageType DEF PublishMove, Published, Job
  <2>5. OpenTemp(p) \/ Upload(p) => UNCHANGED <<cur, named, old>>
    BY UploadedHow DEF OpenTemp, Uploaded
  <2> QED
    BY <1>2, <2>1, <2>2, <2>3, <2>4, <2>5
       DEF Begin, CopyEnd, Kill, Replace, Look, Fails
<1> QED
  BY <1>1, <1>2 DEF Next

LEMMA ShownOnShelf ==
  ASSUME TypeOK, PublishedIntact, DataSafe
  PROVE  shown \in shelf \cup {NoVersion} /\ (There(cur) => shown \in shelf)
<1>1. CASE There(cur)
  <2>1. cur \in Published /\ Whole(cur)
    BY <1>1 DEF Published, PublishedIntact
  <2> QED
    BY <1>1, <2>1 DEF shown, shelf, TypeOK, Image
<1>2. CASE ~There(cur)
  BY <1>2 DEF shown
<1> QED
  BY <1>1, <1>2

(* Whatever a MOVE overwrites, what it moves is whole.                     *)
LEMMA CopyStep ==
  ASSUME TypeOK, IntactInv, CopyInv, DataSafe, [Next]_vars
  PROVE  CopyInv'
<1> USE DEF TypeOK, files, vars
<1>1. SUFFICES \/ \A i \in Published : Whole(i) => i \in Published'
               \/ \E i \in Published' : Whole(i)
  BY DEF CopyInv
<1>2. CASE Tick \/ NewRelease \/ UNCHANGED vars
  BY <1>2 DEF Tick, NewRelease, Published
<1>3. ASSUME NEW p \in Pids,
             Begin(p) \/ OpenTemp(p) \/ CopyEnd(p) \/ Upload(p) \/ Replace(p) \/ Kill(p)
      PROVE  \/ \A i \in Published : Whole(i) => i \in Published'
             \/ \E i \in Published' : Whole(i)
  <2>1. CASE UNCHANGED <<cur, named, old>>
    BY <2>1 DEF Published
  <2>2. OpenTemp(p) \/ Upload(p) => UNCHANGED <<cur, named, old>>
    BY UploadedHow DEF OpenTemp, Uploaded
  <2>3. CASE Backup(p, "backup", "name") \/ Backup(p, "again", "publish")
    <3>1. There(cur) /\ old'[job[p].at] = cur /\ job[p].at \in Stamps
      BY <2>3 DEF Backup, Job
    <3>2. Whole(cur)
      BY <3>1 DEF IntactInv, PublishedIntact, Published
    <3> QED
      BY <3>1, <3>2 DEF Published
  <2>4. CASE NameTemp(p)
    <3>1. named'[job[p].stamp] = temp[p] /\ job[p].stamp \in Stamps
      BY <2>4 DEF NameTemp, Job
    <3>2. Whole(temp[p])
      BY <2>4 DEF NameTemp, IntactInv
    <3> QED
      BY <3>1, <3>2 DEF Published
  <2>5. CASE PublishMove(p)
    <3>1. There(named[job[p].stamp]) /\ cur' = named[job[p].stamp] /\ job[p].stamp \in Stamps
      BY <2>5 DEF PublishMove, Job
    <3>2. Whole(cur')
      BY <3>1 DEF IntactInv, PublishedIntact, Published
    <3> QED
      BY <3>2 DEF Published
  <2> QED
    BY <1>3, <2>1, <2>2, <2>3, <2>4, <2>5
       DEF Begin, CopyEnd, Kill, Replace, Look, Fails
<1> QED
  BY <1>2, <1>3 DEF Next

(* Where sources deliver whole images and the server drops broken uploads, *)
(* uploading and moving implement SfsPublish: each step of any command,    *)
(* failing or killed where it may be, shows only a version that already    *)
(* stood whole under a permanent name, and a whole image always remains    *)
(* under one.                                                              *)
THEOREM ImplementsPublish ==
  ASSUME DataSafe
  PROVE  Spec => PublishSpec
<1>1. Init => Publish!Init
  <2> SUFFICES ASSUME Init PROVE shelf = {0} /\ shown = 0
    BY DEF Publish!Init
  <2>1. Published \subseteq {First, NoImage} /\ First \in Published
    BY DEF Init, Published
  <2>2. First.ver = 0 /\ Whole(First) /\ There(First)
    BY DEF First, Whole, There
  <2>3. cur = First
    BY DEF Init
  <2> QED
    BY <2>1, <2>2, <2>3, NoImageType, ZeroStamp DEF shelf, shown
<1>2. /\ TypeOK /\ TypeOK' /\ IntactInv /\ IntactInv' /\ CopyInv /\ [Next]_vars
      => [Publish!Step]_<<shelf, shown>>
  <2> SUFFICES ASSUME TypeOK, TypeOK', IntactInv, IntactInv', CopyInv, [Next]_vars
               PROVE  Publish!Step
    OBVIOUS
  <2>1. shown' \in shelf' \cup {NoVersion} /\ PublishedIntact
    <3>1. (shown \in shelf \cup {NoVersion})'
      BY ShownOnShelf, PTL DEF IntactInv
    <3> QED
      BY <3>1 DEF IntactInv, NoVersion
  <2>2. shelf' # {}
    <3>1. PICK i \in Published' : Whole(i)
      BY CopyStep DEF CopyInv
    <3>2. i \in Image
      BY DEF Published, TypeOK, IntactInv
    <3> QED
      BY <3>1, <3>2 DEF shelf, Image
  <2>3. CASE \A i \in Published' : Whole(i) => i \in Published
    <3>1. shelf' \subseteq shelf
      BY <2>3 DEF shelf
    <3> QED
      BY <2>1, <2>2, <3>1, ZeroStamp DEF Publish!Step
  <2>4. ASSUME NEW p \in Pids, UNCHANGED cur,
               \A i \in Published' : Whole(i) => i \in Published \/ i = temp[p]
        PROVE  Publish!Step
    <3>1. shelf' \subseteq shelf \cup {temp[p].ver} /\ temp[p].ver \in Stamps
      BY <2>4 DEF shelf, Image, TypeOK
    <3>2. shown' = shown /\ shown \in shelf \cup {NoVersion}
      BY <2>1, <2>4, ShownOnShelf DEF shown
    <3> QED
      BY <2>1, <2>2, <3>1, <3>2 DEF Publish!Step
  <2> QED
    BY <2>3, <2>4, StepImages
<1>3. Init => CopyInv
  BY DEF Init, CopyInv, Published, First, Whole
<1>4. TypeOK /\ IntactInv /\ CopyInv /\ [Next]_vars => CopyInv'
  BY CopyStep
<1> QED
  BY <1>1, <1>2, <1>3, <1>4, TypeCorrect, IntactInit, IntactStep, PTL
     DEF Spec, PublishSpec, Publish!Spec
=============================================================================
