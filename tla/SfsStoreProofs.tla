--------------------------- MODULE SfsStoreProofs ---------------------------
(***************************************************************************)
(* Theorems about SfsStore, for any number of processes, any clock range   *)
(* and every way replace_file can name an image.                           *)
(***************************************************************************)
EXTENDS SfsStore, TLAPS

USE MaxTimeAssumption, StoreAssumption

LEMMA ZeroStamp == 0 \in Stamps
  BY DEF Stamps

LEMMA NoImageType == NoImage \in Image
  BY ZeroStamp DEF NoImage, Image, ImageStates

LEMMA EntryType ==
  /\ NoEntry \in Entry
  /\ \A t \in Stamps : Link(t) \in Entry
  /\ \A i \in Image : File(i) \in Entry
  BY ZeroStamp, NoImageType DEF NoEntry, Link, File, Entry

LEMMA LostType ==
  ASSUME NEW i \in Image, NEW kept
  PROVE  Lost(i, kept) \in Image
  BY DEF Lost, Image, ImageStates

LEMMA StateType ==
  ASSUME NEW i \in Image, NEW st \in ImageStates
  PROVE  [i EXCEPT !.st = st] \in Image
  BY DEF Image

LEMMA JobType ==
  ASSUME NEW j \in Job
  PROVE  /\ \A t \in Stamps : [j EXCEPT !.stamp = t] \in Job /\ [j EXCEPT !.at = t] \in Job
         /\ \A b \in BOOLEAN : [j EXCEPT !.listed = b] \in Job
         /\ \A T \in SUBSET Stamps : [j EXCEPT !.olds = T] \in Job
         /\ \A d \in Seq(Doomed) : [j EXCEPT !.doomed = d] \in Job
         /\ \A T \in SUBSET Stamps, d \in Seq(Doomed) :
              [j EXCEPT !.olds = T, !.doomed = d] \in Job
  BY DEF Job

LEMMA FoundType ==
  ASSUME NEW p, NEW t \in Stamps, old \in [Stamps -> Entry]
  PROVE  Found(p, t) \in Seq(Doomed)
<1> DEFINE target == [name |-> "named", t |-> old[t].to]
           entry == [name |-> "old", t |-> t]
<1>1. target \in Doomed /\ entry \in Doomed
  BY DEF Doomed, Entry
<1>2. Found(p, t) = <<target>> \o <<entry>> \/ Found(p, t) = <<>> \o <<entry>>
  BY DEF Found
<1> HIDE DEF target, entry
<1>3. <<target>> \in Seq(Doomed) /\ <<entry>> \in Seq(Doomed) /\ <<>> \in Seq(Doomed)
  BY <1>1
<1>4. \A a, b \in Seq(Doomed) : a \o b \in Seq(Doomed)
  OBVIOUS
<1> QED
  BY <1>2, <1>3, <1>4, Zenon

(* Every variable keeps its type.                                          *)
THEOREM TypeCorrect == Spec => []TypeOK
<1>1. Init => TypeOK
  BY ZeroStamp, NoImageType, EntryType
  DEF Init, TypeOK, First, NoJob, Job, Image, ImageStates, PCs
<1>2. TypeOK /\ [Next]_vars => TypeOK'
  <2> SUFFICES ASSUME TypeOK, [Next]_vars PROVE TypeOK'
    OBVIOUS
  <2> USE DEF TypeOK, files, vars, goto, PCs
  <2>1. CASE Tick
    BY <2>1 DEF Tick, Stamps
  <2>2. CASE NewRelease
    BY <2>2 DEF NewRelease, Stamps
  <2>3. CASE PowerLoss
    <3>1. PICK kept \in SUBSET Stamps :
            /\ cur' = [cur EXCEPT !.img = Lost(@, kept)]
            /\ named' = [t \in Stamps |-> Lost(named[t], kept)]
            /\ old' = [t \in Stamps |-> [old[t] EXCEPT !.img = Lost(@, kept)]]
            /\ temp' = [p \in Pids |-> Lost(temp[p], kept)]
      BY <2>3 DEF PowerLoss
    <3>2. \A e \in Entry : [e EXCEPT !.img = Lost(@, kept)] \in Entry
      BY LostType DEF Entry
    <3>3. cur' \in Entry /\ old' \in [Stamps -> Entry]
      BY <3>1, <3>2
    <3>4. named' \in [Stamps -> Image] /\ temp' \in [Pids -> Image]
      BY <3>1, LostType
    <3> QED
      BY <2>3, <3>3, <3>4 DEF PowerLoss
  <2>4. ASSUME NEW p \in Pids, Command(p) \/ Kill(p) PROVE TypeOK'
    <3>1. CASE BeginUpdate(p)
      BY <3>1 DEF BeginUpdate, Start
    <3>2. CASE OpenTemp(p)
      <4>1. [ver |-> src, st |-> "writing"] \in Image
        BY DEF Image, ImageStates
      <4>2. temp' \in [Pids -> Image]
        BY <3>2, <4>1 DEF OpenTemp
      <4>3. job' = [job EXCEPT ![p] = [job[p] EXCEPT !.stamp = src]]
        BY <3>2 DEF OpenTemp
      <4>4. job' \in [Pids -> Job]
        BY <4>3, JobType
      <4>5. pc' \in [Pids -> PCs] /\ UNCHANGED <<cur, named, old, clock, src>>
        BY <3>2 DEF OpenTemp
      <4> QED
        BY <4>2, <4>4, <4>5
    <3>3. CASE CopyEnd(p)
      <4>1. PICK st \in {"durable", "cached", "torn"} :
              temp' = [temp EXCEPT ![p] = [temp[p] EXCEPT !.st = st]]
        BY <3>3 DEF CopyEnd, Unsaved
      <4>2. temp' \in [Pids -> Image]
        BY <4>1, StateType DEF ImageStates
      <4>3. pc' \in [Pids -> PCs] /\ UNCHANGED <<cur, named, old, clock, src, job>>
        BY <3>3 DEF CopyEnd
      <4> QED
        BY <4>2, <4>3
    <3>4. CASE WriteFail(p)
      <4>1. temp' = [temp EXCEPT ![p] = [temp[p] EXCEPT !.st = "torn"]]
        BY <3>4 DEF WriteFail
      <4>2. temp' \in [Pids -> Image]
        BY <4>1, StateType DEF ImageStates
      <4>3. pc' \in [Pids -> PCs] /\ UNCHANGED <<cur, named, old, clock, src, job>>
        BY <3>4 DEF WriteFail
      <4> QED
        BY <4>2, <4>3
    <3>5. CASE BeginBuild(p)
      <4>1. [ver |-> clock, st |-> "writing"] \in Image
        BY DEF Image, ImageStates
      <4>2. temp' \in [Pids -> Image]
        BY <3>5, <4>1 DEF BeginBuild
      <4>3. pc' \in [Pids -> PCs] /\ UNCHANGED <<cur, named, old, clock, src, job>>
        BY <3>5 DEF BeginBuild
      <4> QED
        BY <4>2, <4>3
    <3>6. CASE BuildEnd(p)
      <4>1. PICK st \in {"cached", "torn"} :
              /\ temp' = [temp EXCEPT ![p] = [temp[p] EXCEPT !.st = st]]
              /\ job' = [job EXCEPT ![p] = [job[p] EXCEPT !.stamp = clock]]
        BY <3>6 DEF BuildEnd, Unsaved
      <4>2. temp' \in [Pids -> Image] /\ job' \in [Pids -> Job]
        BY <4>1, StateType, JobType DEF ImageStates
      <4>3. pc' \in [Pids -> PCs] /\ UNCHANGED <<cur, named, old, clock, src>>
        BY <3>6 DEF BuildEnd
      <4> QED
        BY <4>2, <4>3
    <3>7. CASE CheckTarget(p)
      <4>1. job' = [job EXCEPT ![p] = [job[p] EXCEPT !.at = clock]]
        BY <3>7 DEF CheckTarget
      <4>2. job' \in [Pids -> Job]
        BY <4>1, JobType
      <4>3. pc' \in [Pids -> PCs] /\ UNCHANGED <<files, clock, src>>
        BY <3>7 DEF CheckTarget
      <4> QED
        BY <4>2, <4>3
    <3>8. CASE Backup(p)
      <4>1. job[p].at \in Stamps
        BY DEF Job
      <4> QED
        BY <3>8, <4>1, EntryType DEF Backup
    <3>9. CASE NameTemp(p)
      BY <3>9, NoImageType DEF NameTemp, Job
    <3>10. CASE PublishLink(p)
      BY <3>10, EntryType DEF PublishLink, Job
    <3>11. CASE PublishRename(p)
      BY <3>11, EntryType, NoImageType DEF PublishRename, Job
    <3>12. CASE PublishFail(p)
      BY <3>12 DEF PublishFail
    <3>13. CASE BeginPrune(p)
      BY <3>13, JobType DEF BeginPrune, Start, Present
    <3>14. CASE PruneList(p)
      <4>1. job' = [job EXCEPT ![p] =
              [job[p] EXCEPT !.olds = {t \in Stamps : Present(old[t])}]]
        BY <3>14 DEF PruneList
      <4>2. job' \in [Pids -> Job]
        BY <4>1, JobType
      <4>3. pc' \in [Pids -> PCs] /\ UNCHANGED <<files, clock, src>>
        BY <3>14 DEF PruneList
      <4> QED
        BY <4>2, <4>3
    <3>15. ASSUME NEW t \in Stamps, PruneLook(p, t) PROVE TypeOK'
      <4>1. job[p].doomed \o Found(p, t) \in Seq(Doomed)
        BY FoundType DEF Job
      <4>2. job[p].olds \ {t} \in SUBSET Stamps
        BY DEF Job
      <4> QED
        <5>1. CASE SamefileRaises(p, t)
          BY <3>15, <5>1 DEF PruneLook
        <5>2. CASE ~SamefileRaises(p, t)
          <6>1. job' = [job EXCEPT ![p] =
                  [job[p] EXCEPT !.olds = job[p].olds \ {t},
                                 !.doomed = job[p].doomed \o Found(p, t)]]
            BY <3>15, <5>2 DEF PruneLook, Job
          <6>2. job' \in [Pids -> Job]
            BY <4>1, <4>2, <6>1, JobType
          <6> QED
            BY <3>15, <5>2, <6>2 DEF PruneLook
        <5> QED
          BY <5>1, <5>2
    <3>16. CASE PruneDecided(p)
      BY <3>16 DEF PruneDecided
    <3>17. CASE PruneUnlink(p)
      <4>1. job[p].doomed \in Seq(Doomed) /\ job[p].doomed # <<>>
        BY <3>17 DEF PruneUnlink, Job
      <4>2. Head(job[p].doomed).t \in Stamps /\ Tail(job[p].doomed) \in Seq(Doomed)
        <5>1. Head(job[p].doomed) \in Doomed /\ Tail(job[p].doomed) \in Seq(Doomed)
          BY <4>1
        <5> QED
          BY <5>1 DEF Doomed
      <4>3. job' \in [Pids -> Job]
        BY <3>17, <4>2, JobType DEF PruneUnlink
      <4>4. named' \in [Stamps -> Image] /\ old' \in [Stamps -> Entry]
        <5>1. \/ named' = [named EXCEPT ![Head(job[p].doomed).t] = NoImage] /\ old' = old
              \/ old' = [old EXCEPT ![Head(job[p].doomed).t] = NoEntry] /\ named' = named
          BY <3>17 DEF PruneUnlink
        <5> QED
          BY <4>2, <5>1, NoImageType, EntryType
      <4> QED
        BY <3>17, <4>3, <4>4 DEF PruneUnlink
    <3>18. CASE PruneEnd(p)
      BY <3>18 DEF PruneEnd
    <3>19. CASE Kill(p)
      BY <3>19 DEF Kill, Broken, Image, ImageStates
    <3> QED
      BY <2>4, <3>1, <3>2, <3>3, <3>4, <3>5, <3>6, <3>7, <3>8, <3>9, <3>10, <3>11,
         <3>12, <3>13, <3>14, <3>15, <3>16, <3>17, <3>18, <3>19
      DEF Command, Replace, Prune
  <2>5. CASE UNCHANGED vars
    BY <2>5
  <2> QED
    BY <2>1, <2>2, <2>3, <2>4, <2>5 DEF Next
<1> QED
  BY <1>1, <1>2, PTL DEF Spec

-----------------------------------------------------------------------------
LEMMA KeptIsWhole == \A i : Kept(i) => Whole(i)
  BY DEF Kept, Whole

LEMMA LostKept == \A i, kept : Kept(i) /\ "power" \in Faults => Lost(i, kept) = i
  BY DEF Kept, Lost

LEMMA IntactInvariant ==
  ASSUME DataSafe
  PROVE  Spec => []IntactInv
<1>1. Init => IntactInv
  BY ZeroStamp DEF Init, IntactInv, First, Link, File, NoImage, NoEntry, Kept
<1>2. TypeOK /\ IntactInv /\ [Next]_vars => IntactInv'
  <2> SUFFICES ASSUME TypeOK, IntactInv, [Next]_vars PROVE IntactInv'
    OBVIOUS
  <2> USE DEF TypeOK, files, vars, goto, PCs, IntactInv
  <2>1. CASE Tick \/ NewRelease \/ UNCHANGED vars
    BY <2>1 DEF Tick, NewRelease, Kept
  <2>2. CASE PowerLoss
    <3>1. PICK kept \in SUBSET Stamps :
            /\ cur' = [cur EXCEPT !.img = Lost(@, kept)]
            /\ named' = [t \in Stamps |-> Lost(named[t], kept)]
            /\ old' = [t \in Stamps |-> [old[t] EXCEPT !.img = Lost(@, kept)]]
      BY <2>2 DEF PowerLoss
    <3>2. "power" \in Faults /\ pc' = [p \in Pids |-> IF pc[p] \in Ended THEN pc[p] ELSE "dead"]
      BY <2>2 DEF PowerLoss
    <3>3. \A t \in Stamps : named'[t].st # "none" => Kept(named[t]) /\ named'[t] = named[t]
      BY <3>1, <3>2, LostKept DEF Lost
    <3>4. \A e \in Entry : [e EXCEPT !.img = Lost(@, kept)].kind = e.kind
                        /\ [e EXCEPT !.img = Lost(@, kept)].img = Lost(e.img, kept)
      BY DEF Entry
    <3>5. \A t \in Stamps : old'[t].kind = "file" => Kept(old[t].img) /\ old'[t].img = old[t].img
      <4> SUFFICES ASSUME NEW t \in Stamps, old'[t].kind = "file"
                   PROVE  Kept(old[t].img) /\ old'[t].img = old[t].img
        OBVIOUS
      <4>1. old'[t] = [old[t] EXCEPT !.img = Lost(@, kept)] /\ old[t] \in Entry
        BY <3>1
      <4>2. old'[t].kind = old[t].kind /\ old'[t].img = Lost(old[t].img, kept)
        BY <3>4, <4>1
      <4>3. Kept(old[t].img)
        BY <4>2
      <4> QED
        BY <3>2, <4>2, <4>3, LostKept
    <3>6. cur'.kind = "file" => Kept(cur.img) /\ cur'.img = cur.img
      BY <3>1, <3>2, <3>4, LostKept
    <3>7. \A p \in Pids : pc'[p] \notin {"check", "backup", "name", "build"}
      BY <3>2 DEF Ended
    <3> QED
      BY <3>3, <3>5, <3>6, <3>7 DEF Kept
  <2>3. ASSUME NEW p \in Pids, Command(p) \/ Kill(p) PROVE IntactInv'
    <3> USE DEF Kept
    <3>1. CASE BeginUpdate(p)
      BY <3>1 DEF BeginUpdate, Start
    <3>2. CASE OpenTemp(p)
      BY <3>2 DEF OpenTemp
    <3>3. CASE CopyEnd(p)
      <4>1. temp'[p].st = IF FsyncOn THEN "durable" ELSE "cached"
        BY <3>3 DEF CopyEnd, Unsaved, DataSafe, Image
      <4> QED
        BY <3>3, <4>1 DEF CopyEnd, DataSafe
    <3>4. CASE WriteFail(p)
      BY <3>4 DEF WriteFail
    <3>5. CASE BeginBuild(p)
      BY <3>5 DEF BeginBuild, Start
    <3>6. CASE BuildEnd(p)
      <4>1. temp'[p].st = "cached" /\ "build" \in Ops
        BY <3>6 DEF BuildEnd, Unsaved, DataSafe, Image
      <4> QED
        BY <3>6, <4>1 DEF BuildEnd, DataSafe
    <3>7. CASE CheckTarget(p)
      BY <3>7 DEF CheckTarget
    <3>8. CASE Backup(p)
      BY <3>8 DEF Backup, NoEntry
    <3>9. CASE NameTemp(p)
      BY <3>9 DEF NameTemp
    <3>10. CASE PublishLink(p)
      BY <3>10 DEF PublishLink, Link
    <3>11. CASE PublishRename(p)
      <4>1. job[p].stamp \in Stamps
        BY DEF Job
      <4> QED
        BY <3>11, <4>1 DEF PublishRename, File, NoImage
    <3>12. CASE PublishFail(p) \/ PruneDecided(p) \/ PruneEnd(p) \/ PruneList(p)
      BY <3>12 DEF PublishFail, PruneDecided, PruneEnd, PruneList
    <3>13. CASE BeginPrune(p)
      BY <3>13 DEF BeginPrune, Start
    <3>14. ASSUME NEW t \in Stamps, PruneLook(p, t) PROVE IntactInv'
      BY <3>14 DEF PruneLook
    <3>15. CASE PruneUnlink(p)
      BY <3>15 DEF PruneUnlink, NoImage, NoEntry
    <3>16. CASE Kill(p)
      BY <3>16 DEF Kill
    <3> QED
      BY <2>3, <3>1, <3>2, <3>3, <3>4, <3>5, <3>6, <3>7, <3>8, <3>9, <3>10, <3>11,
         <3>12, <3>13, <3>14, <3>15, <3>16
      DEF Command, Replace, Prune
  <2> QED
    BY <2>1, <2>2, <2>3 DEF Next
<1> QED
  BY <1>1, <1>2, TypeCorrect, PTL DEF Spec

(* No permanent name ever holds part of an image, as long as connections   *)
(* deliver whole images, no fsync fails and power fails only where images  *)
(* are fsynced: only an image that its writer has finished is ever given   *)
(* such a name.                                                            *)
THEOREM Intact ==
  ASSUME DataSafe
  PROVE  Spec => []PublishedIntact
<1>1. IntactInv => PublishedIntact
  BY KeptIsWhole DEF IntactInv, PublishedIntact
<1> QED
  BY <1>1, IntactInvariant, PTL

-----------------------------------------------------------------------------
LEMMA LostPresent ==
  \A i \in Image : \A kept :
    Lost(i, kept) \in Image /\ (Lost(i, kept).st = "none" <=> i.st = "none")
  BY DEF Lost, Image, ImageStates

LEMMA ResolvesInvariant ==
  ASSUME "prune" \notin Ops, Agree
  PROVE  Spec => []ResolvesInv
<1>1. Init => ResolvesInv
  BY ZeroStamp
  DEF Init, ResolvesInv, CurrentResolves, Exists, Content, Present, First, Link, File
<1>2. TypeOK /\ ResolvesInv /\ [Next]_vars => ResolvesInv'
  <2> SUFFICES ASSUME TypeOK, ResolvesInv, [Next]_vars PROVE ResolvesInv'
    OBVIOUS
  <2> USE DEF TypeOK, files, vars, goto, PCs, ResolvesInv, CurrentResolves, Exists,
              Content, Present
  <2>1. CASE Tick \/ NewRelease \/ UNCHANGED vars
    BY <2>1 DEF Tick, NewRelease
  <2>2. CASE PowerLoss
    <3>1. PICK kept \in SUBSET Stamps :
            /\ cur' = [cur EXCEPT !.img = Lost(@, kept)]
            /\ named' = [t \in Stamps |-> Lost(named[t], kept)]
      BY <2>2 DEF PowerLoss
    <3>2. pc' = [p \in Pids |-> IF pc[p] \in Ended THEN pc[p] ELSE "dead"]
      BY <2>2 DEF PowerLoss
    <3>3. cur'.kind = cur.kind /\ cur'.to = cur.to /\ cur'.img = Lost(cur.img, kept)
      BY <3>1 DEF Entry
    <3>4. CurrentResolves'
      BY <3>1, <3>3, LostPresent DEF Entry
    <3>5. \A p \in Pids : pc'[p] \in Ended
      BY <3>2 DEF Ended
    <3> QED
      BY <3>4, <3>5 DEF Ended
  <2>3. ASSUME NEW p \in Pids, Command(p) \/ Kill(p) PROVE ResolvesInv'
    <3>1. CASE BeginUpdate(p)
      BY <3>1 DEF BeginUpdate, Start
    <3>2. CASE OpenTemp(p)
      BY <3>2 DEF OpenTemp, Job
    <3>3. CASE CopyEnd(p) \/ WriteFail(p)
      <4>1. temp'[p].st \in {"durable", "cached", "torn"}
        BY <3>3 DEF CopyEnd, Unsaved, WriteFail, Image
      <4>2. \A q \in Pids : q # p => temp'[q] = temp[q]
        BY <3>3 DEF CopyEnd, WriteFail
      <4> QED
        BY <3>3, <4>1, <4>2 DEF CopyEnd, WriteFail
    <3>4. CASE BeginBuild(p)
      BY <3>4 DEF BeginBuild, Start
    <3>5. CASE BuildEnd(p)
      <4>1. PICK st \in {"cached", "torn"} :
              temp' = [temp EXCEPT ![p] = [temp[p] EXCEPT !.st = st]]
        BY <3>5 DEF BuildEnd, Unsaved
      <4>2. temp'[p].st # "none" /\ \A q \in Pids : q # p => temp'[q] = temp[q]
        BY <4>1 DEF Image
      <4> QED
        BY <3>5, <4>2 DEF BuildEnd, Job
    <3>6. CASE CheckTarget(p)
      BY <3>6 DEF CheckTarget, Job
    <3>7. CASE Backup(p)
      BY <3>7 DEF Backup, NoEntry
    <3>8. CASE NameTemp(p)
      <4>1. job[p].stamp \in Stamps
        BY DEF Job
      <4>2. \A t \in Stamps : named[t].st # "none" => named'[t].st # "none"
        BY <3>8, <4>1 DEF NameTemp
      <4> QED
        BY <3>8, <4>1, <4>2 DEF NameTemp, Entry, Job
    <3>9. CASE PublishLink(p)
      BY <3>9 DEF PublishLink, Link, Job
    <3>10. CASE PublishRename(p)
      BY <3>10 DEF PublishRename, File, Job, Agree
    <3>11. CASE PublishFail(p) \/ PruneDecided(p) \/ PruneEnd(p) \/ PruneList(p)
      BY <3>11 DEF PublishFail, PruneDecided, PruneEnd, PruneList
    <3>12. CASE BeginPrune(p)
      BY <3>12 DEF BeginPrune, Start
    <3>13. ASSUME NEW t \in Stamps, PruneLook(p, t) PROVE ResolvesInv'
      BY <3>13 DEF PruneLook
    <3>14. CASE PruneUnlink(p)
      BY <3>14 DEF PruneUnlink
    <3>15. CASE Kill(p)
      BY <3>15 DEF Kill
    <3> QED
      BY <2>3, <3>1, <3>2, <3>3, <3>4, <3>5, <3>6, <3>7, <3>8, <3>9, <3>10, <3>11,
         <3>12, <3>13, <3>14, <3>15
      DEF Command, Replace, Prune
  <2> QED
    BY <2>1, <2>2, <2>3 DEF Next
<1> QED
  BY <1>1, <1>2, TypeCorrect, PTL DEF Spec

-----------------------------------------------------------------------------
LEMMA ShapeInvariant == Spec => []ShapeInv
<1>1. Init => ShapeInv
  BY ZeroStamp DEF Init, ShapeInv, Link, File, NoEntry
<1>2. TypeOK /\ ShapeInv /\ [Next]_vars => ShapeInv'
  <2> SUFFICES ASSUME TypeOK, ShapeInv, [Next]_vars PROVE ShapeInv'
    OBVIOUS
  <2> USE DEF TypeOK, files, vars, goto, PCs, ShapeInv
  <2>1. CASE Tick \/ NewRelease \/ UNCHANGED vars
    BY <2>1 DEF Tick, NewRelease
  <2>2. CASE PowerLoss
    <3>1. PICK kept \in SUBSET Stamps :
            /\ cur' = [cur EXCEPT !.img = Lost(@, kept)]
            /\ old' = [t \in Stamps |-> [old[t] EXCEPT !.img = Lost(@, kept)]]
            /\ temp' = [p \in Pids |-> Lost(temp[p], kept)]
      BY <2>2 DEF PowerLoss
    <3>2. \A e \in Entry : [e EXCEPT !.img = Lost(@, kept)].kind = e.kind
                        /\ [e EXCEPT !.img = Lost(@, kept)].img = Lost(e.img, kept)
      BY DEF Entry
    <3>3. Lost(NoImage, kept) = NoImage
      BY DEF Lost, NoImage
    <3>4. cur'.kind # "file" => cur'.img = NoImage
      BY <3>1, <3>2, <3>3
    <3>5. ASSUME NEW t \in Stamps, old'[t].kind # "file" PROVE old'[t].img = NoImage
      <4>1. old'[t] = [old[t] EXCEPT !.img = Lost(@, kept)] /\ old[t] \in Entry
        BY <3>1
      <4>2. old'[t].kind = old[t].kind /\ old'[t].img = Lost(old[t].img, kept)
        BY <3>2, <4>1
      <4> QED
        BY <3>3, <3>5, <4>2
    <3>6. pc' = [p \in Pids |-> IF pc[p] \in Ended THEN pc[p] ELSE "dead"]
      BY <2>2 DEF PowerLoss
    <3>7. \A p \in Pids : pc'[p] \notin {"open", "copy", "build"}
                       /\ (pc'[p] = "idle" => pc[p] = "idle")
      BY <3>6 DEF Ended
    <3> QED
      BY <3>1, <3>3, <3>4, <3>5, <3>7
  <2>3. ASSUME NEW p \in Pids, Command(p) \/ Kill(p) PROVE ShapeInv'
    <3>1. CASE BeginUpdate(p)
      BY <3>1 DEF BeginUpdate, Start
    <3>2. CASE OpenTemp(p)
      BY <3>2 DEF OpenTemp
    <3>3. CASE CopyEnd(p) \/ WriteFail(p) \/ BuildEnd(p)
      BY <3>3 DEF CopyEnd, WriteFail, BuildEnd
    <3>4. CASE BeginBuild(p)
      BY <3>4 DEF BeginBuild, Start
    <3>5. CASE CheckTarget(p) \/ PublishFail(p) \/ PruneList(p) \/ PruneDecided(p) \/ PruneEnd(p)
      BY <3>5 DEF CheckTarget, PublishFail, PruneList, PruneDecided, PruneEnd
    <3>6. CASE Backup(p)
      BY <3>6 DEF Backup, NoEntry
    <3>7. CASE NameTemp(p)
      BY <3>7 DEF NameTemp
    <3>8. CASE PublishLink(p) \/ PublishRename(p)
      BY <3>8 DEF PublishLink, PublishRename, Link, File
    <3>9. CASE BeginPrune(p)
      BY <3>9 DEF BeginPrune, Start
    <3>10. ASSUME NEW t \in Stamps, PruneLook(p, t) PROVE ShapeInv'
      BY <3>10 DEF PruneLook
    <3>11. CASE PruneUnlink(p)
      BY <3>11 DEF PruneUnlink, NoEntry
    <3>12. CASE Kill(p)
      <4>1. pc'[p] = "dead" /\ \A q \in Pids : q # p => pc'[q] = pc[q] /\ temp'[q] = temp[q]
        BY <3>12 DEF Kill
      <4> QED
        BY <3>12, <4>1 DEF Kill
    <3> QED
      BY <2>3, <3>1, <3>2, <3>3, <3>4, <3>5, <3>6, <3>7, <3>8, <3>9, <3>10, <3>11, <3>12
      DEF Command, Replace, Prune
  <2> QED
    BY <2>1, <2>2, <2>3 DEF Next
<1> QED
  BY <1>1, <1>2, TypeCorrect, PTL DEF Spec

-----------------------------------------------------------------------------
(* What is known of a reachable state whatever the commands.               *)
StoreInv == TypeOK /\ ShapeInv /\ IntactInv

LEMMA StoreInvariant ==
  ASSUME DataSafe
  PROVE  Spec => []StoreInv
  BY TypeCorrect, ShapeInvariant, IntactInvariant, PTL DEF StoreInv

LEMMA ImagesMember ==
  /\ Content(cur, named) \in Images
  /\ \A t \in Stamps : named[t] \in Images /\ old[t].img \in Images
  /\ \A p \in Pids : pc[p] = "name" => temp[p] \in Images
  BY DEF Images, Arriving

LEMMA ImagesType ==
  ASSUME TypeOK
  PROVE  Images \subseteq Image
  BY DEF Images, Arriving, TypeOK, Content, Entry

(* Commands that do not prune take away only what they have replaced: some *)
(* permanent name always has an image.                                     *)
SomeName ==
  \/ cur.kind = "file"
  \/ \E t \in Stamps : named[t].st # "none"
  \/ \E t \in Stamps : old[t].kind = "file"

LEMMA SomeNameStep ==
  ASSUME TypeOK, ResolvesInv, SomeName, [Next]_vars, "prune" \notin Ops, Agree
  PROVE  SomeName'
<1> USE DEF TypeOK, files, vars, goto
<1>1. CASE UNCHANGED <<cur, named, old>>
  BY <1>1 DEF SomeName
<1>2. CASE PowerLoss
  <2>1. PICK kept \in SUBSET Stamps :
          /\ cur' = [cur EXCEPT !.img = Lost(@, kept)]
          /\ named' = [t \in Stamps |-> Lost(named[t], kept)]
          /\ old' = [t \in Stamps |-> [old[t] EXCEPT !.img = Lost(@, kept)]]
    BY <1>2 DEF PowerLoss
  <2>2. \A e \in Entry : [e EXCEPT !.img = Lost(@, kept)].kind = e.kind
    BY DEF Entry
  <2>3. cur'.kind = cur.kind /\ \A t \in Stamps : named[t].st # "none" => named'[t].st # "none"
    BY <2>1, <2>2, LostPresent
  <2>4. \A t \in Stamps : old'[t].kind = old[t].kind
    <3> SUFFICES ASSUME NEW t \in Stamps PROVE old'[t].kind = old[t].kind
      OBVIOUS
    <3>1. old'[t] = [old[t] EXCEPT !.img = Lost(@, kept)] /\ old[t] \in Entry
      BY <2>1
    <3> QED
      BY <2>2, <3>1
  <2> QED
    BY <2>3, <2>4 DEF SomeName
<1>3. ASSUME NEW p \in Pids, Command(p) \/ Kill(p) PROVE SomeName'
  <2>1. CASE Backup(p)
    <3>1. CASE cur.kind = "file"
      <4>1. job[p].at \in Stamps /\ old'[job[p].at] = cur
        BY <2>1, <3>1 DEF Backup, Job, Present
      <4> QED
        BY <3>1, <4>1 DEF SomeName
    <3>2. CASE cur.kind = "link"
      <4>1. cur.to \in Stamps /\ named[cur.to].st # "none" /\ named' = named
        BY <2>1, <3>2 DEF Backup, ResolvesInv, CurrentResolves, Exists, Content, Present, Entry
      <4> QED
        BY <4>1 DEF SomeName
    <3> QED
      BY <1>1, <2>1, <3>1, <3>2 DEF Backup, Present, Entry
  <2>2. CASE NameTemp(p)
    <3>1. job[p].stamp \in Stamps /\ named'[job[p].stamp] = temp[p] /\ temp[p].st # "none"
      BY <2>2 DEF NameTemp, Job, ResolvesInv
    <3> QED
      BY <3>1 DEF SomeName
  <2>3. CASE PublishLink(p)
    BY <2>3 DEF PublishLink, SomeName, Present
  <2>4. CASE PublishRename(p)
    BY <2>4 DEF PublishRename, SomeName, File
  <2>5. ~Prune(p)
    BY DEF Prune, BeginPrune, Start, PruneList, PruneLook, PruneDecided, PruneUnlink,
           PruneEnd, ResolvesInv
  <2> QED
    BY <1>1, <1>3, <2>1, <2>2, <2>3, <2>4, <2>5 DEF Command, Replace, BeginUpdate, OpenTemp,
       CopyEnd, WriteFail, BeginBuild, BuildEnd, CheckTarget, PublishFail, Kill
<1> QED
  BY <1>1, <1>2, <1>3 DEF Next, Tick, NewRelease

LEMMA CopyInvariant ==
  ASSUME DataSafe, "prune" \notin Ops, Agree
  PROVE  Spec => []CopyInv
<1>1. Init => SomeName
  BY ZeroStamp DEF Init, SomeName, First, File
<1>2. TypeOK /\ ResolvesInv /\ SomeName /\ [Next]_vars => SomeName'
  BY SomeNameStep
<1>3. StoreInv /\ SomeName => CopyInv
  <2> SUFFICES ASSUME StoreInv, SomeName PROVE CopyInv
    OBVIOUS
  <2>1. CASE cur.kind = "file"
    BY <2>1, ImagesMember DEF StoreInv, IntactInv, CopyInv, Content
  <2>2. CASE cur.kind # "file"
    BY <2>2, ImagesMember DEF StoreInv, IntactInv, CopyInv, SomeName
  <2> QED
    BY <2>1, <2>2
<1> QED
  BY <1>1, <1>2, <1>3, TypeCorrect, StoreInvariant, ResolvesInvariant, PTL DEF Spec

-----------------------------------------------------------------------------
(* What x.sfs reads as is a complete image.                                *)
LEMMA ShownOnShelf ==
  ASSUME StoreInv
  PROVE  shown \in shelf \cup {NoVersion}
<1> USE DEF StoreInv, TypeOK
<1>1. CASE Exists(cur, named)
  <2>1. Kept(Content(cur, named))
    BY <1>1 DEF IntactInv, ShapeInv, Exists, Content, Entry, NoImage
  <2>2. Content(cur, named) \in Images /\ Content(cur, named) \in Image
    BY ImagesMember, ImagesType
  <2> QED
    BY <1>1, <2>1, <2>2, KeptIsWhole DEF shown, shelf, Image
<1> QED
  BY <1>1 DEF shown

LEMMA ShownOnShelfNext ==
  /\ StoreInv' => (shown \in shelf \cup {NoVersion})'
  /\ TypeOK' => (Images \subseteq Image)'
<1>1. StoreInv => shown \in shelf \cup {NoVersion}
  BY ShownOnShelf
<1>2. TypeOK => Images \subseteq Image
  BY ImagesType
<1> QED
  BY <1>1, <1>2, PTL

(* A step brings at most one image, one that a process is about to name.   *)
Old(i) == \E j \in Images : Whole(j) /\ j.ver = i.ver
NewAtMost(n) == \A i \in Images' : Whole(i) => Old(i) \/ i = n

LEMMA WholeStep ==
  ASSUME StoreInv, [Next]_vars
  PROVE  \/ \A i \in Images' : Whole(i) => Old(i)
         \/ shown' \in {shown, NoVersion} /\ \E n \in Image : NewAtMost(n)
<1> USE DEF StoreInv, TypeOK, files, vars, goto, PCs, Arriving
<1>1. CASE UNCHANGED <<cur, named, old>> /\ Arriving' \subseteq Arriving
           /\ \A q \in Arriving' : temp'[q] = temp[q]
  BY <1>1 DEF Images, Content, Old
<1>2. CASE PowerLoss
  <2>1. PICK kept \in SUBSET Stamps :
          /\ cur' = [cur EXCEPT !.img = Lost(@, kept)]
          /\ named' = [t \in Stamps |-> Lost(named[t], kept)]
          /\ old' = [t \in Stamps |-> [old[t] EXCEPT !.img = Lost(@, kept)]]
    BY <1>2 DEF PowerLoss
  <2>2. \A i \in Image : Whole(Lost(i, kept)) => Whole(i) /\ Lost(i, kept).ver = i.ver
    BY DEF Lost, Whole, Image
  <2>3. Content(cur, named)' = Lost(Content(cur, named), kept)
    BY <2>1 DEF Content, Entry
  <2>4. \A t \in Stamps : old'[t].img = Lost(old[t].img, kept)
    <3> SUFFICES ASSUME NEW t \in Stamps PROVE old'[t].img = Lost(old[t].img, kept)
      OBVIOUS
    <3>1. old'[t] = [old[t] EXCEPT !.img = Lost(@, kept)] /\ old[t] \in Entry
      BY <2>1
    <3> QED
      BY <3>1 DEF Entry
  <2>5. Arriving' = {}
    BY <1>2 DEF PowerLoss, Ended
  <2>6. \A i \in Images' : \E j \in Images : i = Lost(j, kept)
    BY <2>1, <2>3, <2>4, <2>5 DEF Images
  <2> QED
    BY <2>2, <2>6, ImagesType DEF Old
<1>3. ASSUME NEW p \in Pids, Command(p) \/ Kill(p)
      PROVE  \/ \A i \in Images' : Whole(i) => Old(i)
             \/ shown' \in {shown, NoVersion} /\ \E n \in Image : NewAtMost(n)
  <2>1. CASE \/ OpenTemp(p) \/ BeginBuild(p) \/ WriteFail(p) \/ Kill(p)
             \/ CopyEnd(p) \/ BuildEnd(p)
    <3>1. UNCHANGED <<cur, named, old>> /\ \A q \in Pids : q # p => temp'[q] = temp[q]
      BY <2>1 DEF OpenTemp, BeginBuild, WriteFail, Kill, CopyEnd, BuildEnd
    <3>2. pc'[p] # "name" /\ \A q \in Pids : q # p => pc'[q] = pc[q]
      BY <2>1 DEF OpenTemp, BeginBuild, WriteFail, Kill, CopyEnd, BuildEnd
    <3> QED
      BY <1>1, <3>1, <3>2
  <2>2. CASE CheckTarget(p)
    <3>1. UNCHANGED files /\ \A q \in Pids : q # p => pc'[q] = pc[q]
      BY <2>2 DEF CheckTarget
    <3>2. shown' = shown /\ temp[p] \in Image
      BY <3>1 DEF shown, Exists, Content
    <3>3. NewAtMost(temp[p])
      BY <3>1 DEF NewAtMost, Images, Content, Old
    <3> QED
      BY <3>2, <3>3
  <2>3. CASE Backup(p)
    <3>1. CASE Present(cur)
      <4>1. /\ job[p].at \in Stamps /\ old'[job[p].at] = cur /\ Content(cur, named)' = NoImage
            /\ \A t \in Stamps : t # job[p].at => old'[t] = old[t]
            /\ named' = named /\ temp' = temp
            /\ \A q \in Pids : q # p => pc'[q] = pc[q]
        BY <2>3, <3>1 DEF Backup, Job, Content, NoEntry
      <4>2. cur.img = Content(cur, named) \/ cur.img = NoImage
        BY DEF ShapeInv, Content
      <4>3. ~Whole(NoImage)
        BY DEF Whole, NoImage
      <4>4. NewAtMost(temp[p]) /\ temp[p] \in Image
        BY <4>1, <4>2, <4>3 DEF NewAtMost, Images, Old
      <4>5. shown' = NoVersion
        BY <4>1 DEF shown, Exists, NoImage, NoVersion
      <4> QED
        BY <4>4, <4>5
    <3>2. CASE ~Present(cur)
      BY <1>1, <2>3, <3>2 DEF Backup
    <3> QED
      BY <3>1, <3>2
  <2>4. CASE NameTemp(p)
    <3>1. /\ job[p].stamp \in Stamps /\ p \in Arriving
          /\ \A t \in Stamps : named'[t] = IF t = job[p].stamp THEN temp[p] ELSE named[t]
          /\ Arriving' \subseteq Arriving /\ \A q \in Arriving' : temp'[q] = temp[q]
          /\ cur' = cur /\ old' = old
      BY <2>4 DEF NameTemp, Job
    <3>2. Content(cur, named)' \in {Content(cur, named), temp[p]}
      BY <3>1 DEF Content, Entry
    <3> QED
      BY <3>1, <3>2 DEF Images, Old
  <2>5. CASE PublishLink(p) \/ PublishRename(p)
    <3>1. /\ job[p].stamp \in Stamps
          /\ Content(cur, named)' = named[job[p].stamp]
          /\ \A t \in Stamps : named'[t] \in {named[t], NoImage}
          /\ temp' = temp /\ old' = old /\ Arriving' \subseteq Arriving
      BY <2>5 DEF PublishLink, PublishRename, Job, Content, Link, File
    <3>2. ~Whole(NoImage)
      BY DEF Whole, NoImage
    <3> QED
      BY <3>1, <3>2 DEF Images, Old
  <2>6. CASE BeginUpdate(p) \/ PublishFail(p)
    BY <1>1, <2>6 DEF BeginUpdate, PublishFail
  <2>7. CASE Prune(p)
    <3>1. CASE PruneUnlink(p)
      <4>1. cur' = cur /\ temp' = temp /\ pc' = pc
        BY <3>1 DEF PruneUnlink
      <4>2. \A t \in Stamps : named'[t] \in {named[t], NoImage}
        BY <3>1 DEF PruneUnlink
      <4>3. \A t \in Stamps : old'[t].img \in {old[t].img, NoImage}
        BY <3>1 DEF PruneUnlink, NoEntry
      <4>4. Content(cur, named)' \in {Content(cur, named), NoImage}
        BY <4>1, <4>2 DEF Content, Entry
      <4>5. ~Whole(NoImage)
        BY DEF Whole, NoImage
      <4> QED
        BY <4>1, <4>2, <4>3, <4>4, <4>5 DEF Images, Old
    <3>2. CASE ~PruneUnlink(p)
      <4>1. UNCHANGED files /\ Arriving' \subseteq Arriving
        BY <2>7, <3>2 DEF Prune, BeginPrune, PruneList, PruneLook, PruneDecided, PruneEnd
      <4> QED
        BY <1>1, <4>1
    <3> QED
      BY <3>1, <3>2
  <2> QED
    BY <1>3, <2>1, <2>2, <2>3, <2>4, <2>5, <2>6, <2>7 DEF Command, Replace
<1>4. CASE Tick \/ NewRelease \/ UNCHANGED vars
  BY <1>1, <1>4 DEF Tick, NewRelease
<1> QED
  BY <1>2, <1>3, <1>4 DEF Next

(* The commands implement SfsPublish as long as the directory keeps a      *)
(* complete image: each step of any of them, killed where it may be, shows *)
(* only a version that already stood complete in the directory.            *)
LEMMA PublishInit == Init => Publish!Init
<1> SUFFICES ASSUME Init PROVE shelf = {0} /\ shown = 0
  BY DEF Publish!Init
<1>1. Content(cur, named) = First /\ Whole(First) /\ First.ver = 0 /\ First.st # "none"
  BY ZeroStamp DEF Init, Content, Link, File, First, Whole
<1>2. Images \subseteq {First, NoImage} /\ First \in Images
  BY ZeroStamp, <1>1 DEF Init, Images, Arriving, Link, File, NoEntry
<1> QED
  BY ZeroStamp, <1>1, <1>2 DEF shelf, shown, Exists, Whole, NoImage

LEMMA PublishStep ==
  ASSUME StoreInv, StoreInv', CopyInv', [Next]_vars
  PROVE  Publish!Step
<1>1. shown' \in shelf' \cup {NoVersion}
  BY ShownOnShelfNext DEF NoVersion
<1>2. shelf' # {}
  <2>1. PICK i \in Images' : Kept(i)
    BY DEF CopyInv, Kept
  <2>2. i \in Image
    BY ShownOnShelfNext DEF StoreInv, Image, Stamps, ImageStates
  <2> QED
    BY <2>1, <2>2, KeptIsWhole DEF shelf, Image, Whole
<1>3. CASE \A i \in Images' : Whole(i) => Old(i)
  <2>1. shelf' \subseteq shelf
    BY <1>3 DEF shelf, Old, Whole
  <2> QED
    BY <1>1, <1>2, <2>1, ZeroStamp DEF Publish!Step
<1>4. ASSUME shown' \in {shown, NoVersion}, NEW n \in Image, NewAtMost(n)
      PROVE  Publish!Step
  <2>1. shelf' \subseteq shelf \cup {n.ver} /\ n.ver \in Stamps
    BY <1>4 DEF NewAtMost, shelf, Old, Whole, Image
  <2>3. shown \in shelf \cup {NoVersion}
    BY ShownOnShelf
  <2> QED
    BY <1>1, <1>2, <1>4, <2>1, <2>3 DEF Publish!Step
<1> QED
  BY <1>3, <1>4, WholeStep

LEMMA PublishImplied ==
  ASSUME DataSafe
  PROVE  Spec /\ []CopyInv => PublishSpec
<1>1. StoreInv /\ StoreInv' /\ CopyInv' /\ [Next]_vars => [Publish!Step]_<<shelf, shown>>
  BY PublishStep
<1> QED
  BY <1>1, PublishInit, StoreInvariant, PTL DEF Spec, PublishSpec, Publish!Spec

-----------------------------------------------------------------------------
(* Commands that write one at a time.  No image is newer than the clock;   *)
(* what x.sfs reads as is never newer than the image about to replace it.  *)
Writing == PCs \ (Ended \cup Pruning)
AgesInv ==
  /\ \A p, q \in Pids : pc[p] \in Writing /\ pc[q] \in Writing => p = q
  /\ src <= clock /\ cur.img.ver <= clock
  /\ \A t \in Stamps : named[t].ver <= clock
  /\ \A p \in Pids : temp[p].ver <= clock
  /\ \A p \in Pids : pc[p] = "open" => Content(cur, named).ver <= src
  /\ \A p \in Pids : pc[p] \in {"copy", "build", "check", "backup"} =>
       Content(cur, named).ver <= temp[p].ver

LEMMA LostVersion ==
  ASSUME NEW i \in Image, NEW kept
  PROVE  Lost(i, kept).ver = i.ver
  BY DEF Lost, Image

LEMMA StateVersion ==
  ASSUME NEW i \in Image, NEW st
  PROVE  [i EXCEPT !.st = st].ver = i.ver
  BY DEF Image

LEMMA Versions ==
  ASSUME TypeOK
  PROVE  /\ cur.img.ver \in Nat /\ src \in Nat /\ clock \in Nat
         /\ Content(cur, named).ver \in Nat
         /\ \A t \in Stamps : named[t].ver \in Nat
         /\ \A p \in Pids : temp[p].ver \in Nat
<1>1. \A i \in Image : i.ver \in Nat
  BY DEF Image, Stamps
<1>2. \A t \in Stamps : named[t] \in Image
  BY DEF TypeOK
<1>3. \A p \in Pids : temp[p] \in Image
  BY DEF TypeOK
<1>4. cur.img \in Image /\ cur.to \in Stamps /\ src \in Nat /\ clock \in Nat
  BY DEF TypeOK, Entry, Stamps
<1> QED
  BY <1>1, <1>2, <1>3, <1>4 DEF Content

LEMMA AgesStep ==
  ASSUME TypeOK, AgesInv, [Next]_vars, Ops \ {"prune"} \subseteq Alone
  PROVE  AgesInv'
<1> USE DEF TypeOK, files, vars, goto
<1> DEFINE shows == Content(cur, named).ver
<1>1. shows \in Nat /\ shows <= clock
  BY Versions DEF Content, Entry, AgesInv
<1>2. ASSUME NEW p \in Pids, Start(p, "update") \/ Start(p, "build")
      PROVE  \A q \in Pids : pc[q] \notin Writing
  BY <1>2 DEF Start, Writing
<1>3. CASE Tick \/ NewRelease \/ UNCHANGED vars
  <2>1. /\ clock <= clock' /\ src <= src' /\ src' <= clock'
        /\ clock' \in Nat /\ src' \in Nat
    BY <1>3, Versions DEF Tick, NewRelease, AgesInv
  <2>2. UNCHANGED <<files, pc>>
    BY <1>3 DEF Tick, NewRelease
  <2>3. Content(cur, named)' = Content(cur, named)
    BY <2>2 DEF Content
  <2>4. cur'.img.ver <= clock' /\ src' <= clock'
    BY <2>1, <2>2, Versions DEF AgesInv
  <2>5. \A t \in Stamps : named'[t].ver <= clock'
    BY <2>1, <2>2, Versions DEF AgesInv
  <2>6. \A p \in Pids : temp'[p].ver <= clock'
    BY <2>1, <2>2, Versions DEF AgesInv
  <2>7. \A p \in Pids : pc'[p] = "open" => Content(cur, named)'.ver <= src'
    <3> SUFFICES ASSUME NEW p \in Pids, pc'[p] = "open" PROVE shows <= src'
      BY <2>3
    <3>1. shows <= src
      BY <2>2 DEF AgesInv
    <3> QED
      BY <2>1, <3>1, Versions
  <2> QED
    BY <2>2, <2>3, <2>4, <2>5, <2>6, <2>7 DEF AgesInv
<1>4. CASE PowerLoss
  <2>1. PICK kept \in SUBSET Stamps :
          /\ cur' = [cur EXCEPT !.img = Lost(@, kept)]
          /\ named' = [t \in Stamps |-> Lost(named[t], kept)]
          /\ temp' = [p \in Pids |-> Lost(temp[p], kept)]
    BY <1>4 DEF PowerLoss
  <2>2. cur'.img.ver = cur.img.ver
    BY <2>1, LostVersion DEF Entry
  <2>3. \A p \in Pids : pc'[p] \in Ended
    BY <1>4 DEF PowerLoss, Ended
  <2>4. \A t \in Stamps : named'[t].ver = named[t].ver
    BY <2>1, LostVersion
  <2>5. \A p \in Pids : temp'[p].ver = temp[p].ver
    BY <2>1, LostVersion
  <2> QED
    BY <1>4, <2>2, <2>3, <2>4, <2>5 DEF PowerLoss, AgesInv, Ended, Writing
<1>5. ASSUME NEW p \in Pids, Command(p) \/ Kill(p) PROVE AgesInv'
  <2>1. CASE BeginUpdate(p)
    <3>1. \A q \in Pids : q # p => pc'[q] = pc[q] /\ pc[q] \notin Writing
      BY <1>2, <2>1 DEF BeginUpdate
    <3>2. \A q \in Pids : pc[q] \notin {"copy", "build", "check", "backup", "open"}
      BY <1>2, <2>1 DEF BeginUpdate, Writing, PCs, Ended, Pruning
    <3>3. pc'[p] = "open" /\ shows <= src /\ UNCHANGED <<files, clock, src>>
      BY <1>1, <2>1, Versions DEF BeginUpdate
    <3> QED
      BY <3>1, <3>2, <3>3 DEF AgesInv, Content
  <2>2. CASE OpenTemp(p)
    BY <2>2 DEF OpenTemp, AgesInv, Writing, PCs, Ended, Pruning, Content
  <2>3. CASE CopyEnd(p) \/ BuildEnd(p) \/ WriteFail(p)
    <3>1. /\ UNCHANGED <<cur, named, clock, src>>
          /\ \A q \in Pids : temp'[q].ver = temp[q].ver
      <4>1. \E st : temp' = [temp EXCEPT ![p] = [temp[p] EXCEPT !.st = st]]
        BY <2>3 DEF CopyEnd, BuildEnd, WriteFail
      <4>2. \A q \in Pids : temp'[q].ver = temp[q].ver
        BY <4>1, StateVersion
      <4> QED
        BY <2>3, <4>2 DEF CopyEnd, BuildEnd, WriteFail
    <3>2. \A q \in Pids : pc'[q] \in Writing => pc[q] \in Writing
      BY <2>3 DEF CopyEnd, BuildEnd, WriteFail, Writing, PCs, Ended, Pruning
    <3>3. \A q \in Pids : pc'[q] \in {"open", "copy", "build", "check", "backup"} =>
            pc[q] = pc'[q] \/ (pc[q] \in {"copy", "build"} /\ pc'[q] = "check")
      BY <2>3 DEF CopyEnd, BuildEnd, WriteFail
    <3> QED
      BY <3>1, <3>2, <3>3 DEF AgesInv, Content
  <2>4. CASE BeginBuild(p)
    <3>1. \A q \in Pids : q # p => pc'[q] = pc[q] /\ temp'[q] = temp[q] /\ pc[q] \notin Writing
      BY <1>2, <2>4 DEF BeginBuild
    <3>2. \A q \in Pids : pc[q] \notin {"copy", "build", "check", "backup", "open"}
      BY <1>2, <2>4 DEF BeginBuild, Writing, PCs, Ended, Pruning
    <3>3. pc'[p] = "build" /\ temp'[p].ver = clock /\ UNCHANGED <<cur, named, clock, src>>
      BY <2>4 DEF BeginBuild
    <3> QED
      BY <1>1, <3>1, <3>2, <3>3, Versions DEF AgesInv, Content
  <2>5. CASE CheckTarget(p)
    BY <2>5 DEF CheckTarget, AgesInv, Writing, PCs, Ended, Pruning, Content
  <2>6. CASE Backup(p)
    <3>1. \A q \in Pids : q # p => pc'[q] = pc[q] /\ pc[q] \notin Writing
      BY <2>6 DEF Backup, AgesInv, Writing, PCs, Ended, Pruning
    <3>2. pc'[p] \in {"name", "failed"} /\ UNCHANGED <<named, temp, clock, src>>
      BY <2>6 DEF Backup
    <3>3. cur'.img.ver <= clock
      <4>1. cur' = cur \/ cur' = NoEntry
        BY <2>6 DEF Backup
      <4> QED
        BY <4>1, Versions DEF AgesInv, NoEntry, NoImage
    <3>4. \A q \in Pids : pc'[q] \in Writing => q = p
      BY <3>1
    <3>5. \A q \in Pids : pc'[q] \notin {"open", "copy", "build", "check", "backup"}
      BY <3>1, <3>2 DEF Writing, PCs, Ended, Pruning
    <3> QED
      BY <3>2, <3>3, <3>4, <3>5 DEF AgesInv
  <2>7. CASE NameTemp(p) \/ PublishLink(p) \/ PublishRename(p) \/ PublishFail(p)
    <3>1. \A q \in Pids : q # p => pc'[q] = pc[q] /\ pc[q] \notin Writing
      BY <2>7 DEF NameTemp, PublishLink, PublishRename, PublishFail, AgesInv, Writing,
                  PCs, Ended, Pruning
    <3>2. pc'[p] \in {"publish", "done", "failed"} /\ UNCHANGED <<clock, src>>
      BY <2>7 DEF NameTemp, PublishLink, PublishRename, PublishFail
    <3>3. cur'.img.ver <= clock
      <4>1. cur' = cur \/ cur'.img = NoImage \/ \E t \in Stamps : cur'.img = named[t]
        BY <2>7 DEF NameTemp, PublishLink, PublishRename, PublishFail, Link, File, Job
      <4> QED
        BY <4>1, Versions DEF NoImage, AgesInv
    <3>4. \A t \in Stamps : named'[t].ver <= clock
      <4>1. job[p].stamp \in Stamps
        BY DEF Job
      <4>2. CASE NameTemp(p)
        BY <4>1, <4>2 DEF NameTemp, AgesInv
      <4>3. CASE ~NameTemp(p)
        <5>1. named' = named \/ named' = [named EXCEPT ![job[p].stamp] = NoImage]
          BY <2>7, <4>3 DEF PublishLink, PublishRename, PublishFail
        <5> QED
          BY <4>1, <5>1, Versions DEF NoImage, AgesInv
      <4> QED
        BY <4>2, <4>3
    <3>5. \A q \in Pids : temp'[q].ver <= clock
      <4>1. temp' = temp \/ temp' = [temp EXCEPT ![p] = NoImage]
        BY <2>7 DEF NameTemp, PublishLink, PublishRename, PublishFail
      <4> QED
        BY <4>1, Versions DEF NoImage, AgesInv
    <3> QED
      BY <3>1, <3>2, <3>3, <3>4, <3>5 DEF AgesInv, Writing, PCs, Ended, Pruning
  <2>8. CASE Prune(p) \/ Kill(p)
    <3>1. UNCHANGED <<cur, clock, src>> /\ \A q \in Pids : temp'[q].ver = temp[q].ver
      <4>1. CASE Prune(p)
        BY <4>1 DEF Prune, BeginPrune, PruneList, PruneLook, PruneDecided, PruneUnlink, PruneEnd
      <4>2. CASE Kill(p)
        <5>1. temp' = [temp EXCEPT ![p] = Broken(temp[p])]
          BY <4>2 DEF Kill
        <5>2. Broken(temp[p]).ver = temp[p].ver
          BY StateVersion DEF Broken
        <5>3. \A q \in Pids : temp'[q].ver = temp[q].ver
          BY <5>1, <5>2
        <5> QED
          BY <4>2, <5>3 DEF Kill
      <4> QED
        BY <2>8, <4>1, <4>2
    <3>2. \A t \in Stamps : named'[t] \in {named[t], NoImage}
      BY <2>8 DEF Prune, BeginPrune, PruneList, PruneLook, PruneDecided, PruneUnlink, PruneEnd, Kill
    <3>3. \A q \in Pids : pc'[q] = pc[q] \/ pc'[q] \in Ended \cup Pruning
      BY <2>8 DEF Prune, BeginPrune, PruneList, PruneLook, PruneDecided, PruneUnlink, PruneEnd,
                  Kill, Ended, Pruning
    <3>4. Content(cur, named)'.ver \in {shows, 0}
      BY <3>1, <3>2 DEF Content, NoImage, Entry
    <3>5. \A t \in Stamps : named'[t].ver <= clock
      BY <3>2, Versions DEF NoImage, AgesInv
    <3>6. \A q \in Pids : pc'[q] \in Writing => pc'[q] = pc[q]
      BY <3>3 DEF Writing
    <3>7. \A q \in Pids : pc'[q] \in {"open", "copy", "build", "check", "backup"} => pc'[q] = pc[q]
      BY <3>3 DEF Ended, Pruning
    <3>8. \A p1, p2 \in Pids : pc'[p1] \in Writing /\ pc'[p2] \in Writing => p1 = p2
      BY <3>6 DEF AgesInv
    <3>9. cur'.img.ver <= clock' /\ src' <= clock' /\ \A q \in Pids : temp'[q].ver <= clock'
      BY <3>1 DEF AgesInv
    <3>10. \A q \in Pids : pc'[q] = "open" => Content(cur, named)'.ver <= src'
      BY <3>1, <3>4, <3>7, Versions DEF AgesInv
    <3>11. \A q \in Pids : pc'[q] \in {"copy", "build", "check", "backup"} =>
             Content(cur, named)'.ver <= temp'[q].ver
      <4> SUFFICES ASSUME NEW q \in Pids, pc'[q] \in {"copy", "build", "check", "backup"}
                   PROVE  Content(cur, named)'.ver <= temp[q].ver
        BY <3>1
      <4>1. shows <= temp[q].ver
        BY <3>7 DEF AgesInv
      <4> QED
        BY <3>4, <4>1, Versions
    <3> QED
      BY <3>1, <3>5, <3>8, <3>9, <3>10, <3>11 DEF AgesInv
  <2> QED
    BY <1>5, <2>1, <2>2, <2>3, <2>4, <2>5, <2>6, <2>7, <2>8 DEF Command, Replace
<1> QED
  BY <1>3, <1>4, <1>5 DEF Next

LEMMA AgesInit == Init => AgesInv
  BY ZeroStamp DEF Init, AgesInv, Writing, Ended, First, Link, File, NoImage, Content, Stamps

(* A process moves aside only an image no newer than the one it is about   *)
(* to publish, where commands that write run one at a time; prunings may   *)
(* run beside them, processes may die and connections break off.           *)
THEOREM NewerReplacesOlder ==
  ASSUME Ops \ {"prune"} \subseteq Alone
  PROVE  Spec => BacksUpOlder
<1>1. TypeOK /\ AgesInv /\ [Next]_vars => AgesInv'
  BY AgesStep
<1>2. AgesInv => [\A p \in Pids :
                   pc[p] = "backup" /\ pc'[p] = "name" /\ Whole(Content(cur, named)) =>
                     Content(cur, named).ver <= temp[p].ver]_vars
  BY DEF AgesInv
<1> QED
  BY <1>1, <1>2, AgesInit, TypeCorrect, PTL DEF Spec, BacksUpOlder
=============================================================================
