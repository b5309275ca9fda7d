--------------------------- MODULE SfsPruneProofs ---------------------------
(***************************************************************************)
(* Theorems about SfsStore where images may also be pruned, for any number *)
(* of processes and any clock range, under three ways to keep the commands *)
(* on one directory in order:                                              *)
(*   OneUpdate  nothing is rebuilt there and updates run one at a time     *)
(*              (prunings run whenever they like);                         *)
(*   NoLinks    nothing is rebuilt there and no image is linked to;        *)
(*   Serial     commands of every kind run one at a time.                  *)
(***************************************************************************)
EXTENDS SfsStoreProofs

USE MaxTimeAssumption, StoreAssumption

OneUpdate == "build" \notin Ops /\ Ops \ {"prune"} \subseteq Alone
NoLinks == "build" \notin Ops /\ "symlink" \notin LinkModes
Serial == Alone = Ops

(* How far an image has come when its writer is done with it.              *)
LEMMA Written ==
  ASSUME TypeOK, NEW p \in Pids, CopyEnd(p) \/ BuildEnd(p)
  PROVE  \E st \in {"durable", "cached", "torn"} : temp' = [temp EXCEPT ![p].st = st]
  BY DEF CopyEnd, BuildEnd, Unsaved

-----------------------------------------------------------------------------
(***************************************************************************)
(* What prunings are going to delete.                                      *)
(***************************************************************************)

(* The images pruning p has found to be targets of backup links.           *)
Condemned(p) ==
  {t \in Stamps : \E i \in 1..Len(job[p].doomed) : job[p].doomed[i] = [name |-> "named", t |-> t]}

LEMMA FoundEnds ==
  ASSUME TypeOK, NEW p \in Pids, NEW t \in Stamps, NEW i \in 1..Len(Found(p, t)),
         Found(p, t)[i].name = "named"
  PROVE  Found(p, t)[i].t = old[t].to /\ old[t].kind = "link" /\ ~IsCurrent(t)
<1> DEFINE target == [name |-> "named", t |-> old[t].to]
           entry == [name |-> "old", t |-> t]
<1>1. CASE Found(p, t) = <<target>> \o <<entry>> /\ old[t].kind = "link" /\ ~IsCurrent(t)
  <2>1. Len(Found(p, t)) = 2 /\ Found(p, t)[1] = target /\ Found(p, t)[2] = entry
    BY <1>1
  <2>2. i = 1
    BY <2>1
  <2> QED
    BY <1>1, <2>1, <2>2
<1>2. CASE Found(p, t) = <<>> \o <<entry>>
  <2>1. Len(Found(p, t)) = 1 /\ Found(p, t)[1] = entry
    BY <1>2
  <2> QED
    BY <2>1
<1> QED
  BY <1>1, <1>2 DEF Found

(* A command that is not about to look at or to delete a backup leaves the *)
(* list of what it deletes as it is.                                       *)
LEMMA DoomedKept ==
  ASSUME TypeOK, [Next]_vars, NEW q \in Pids,
         ~PruneUnlink(q), \A t \in Stamps : ~PruneLook(q, t)
  PROVE  job'[q].doomed = job[q].doomed
<1> USE DEF TypeOK, vars
<1>1. CASE Tick \/ NewRelease \/ PowerLoss \/ UNCHANGED vars
  BY <1>1 DEF Tick, NewRelease, PowerLoss
<1>2. ASSUME NEW p \in Pids, Command(p) \/ Kill(p) PROVE job'[q].doomed = job[q].doomed
  <2>1. CASE p # q
    BY <1>2, <2>1 DEF Kill, Command, BeginUpdate, OpenTemp, CopyEnd, WriteFail, BeginBuild,
       BuildEnd, Replace, CheckTarget, Backup, NameTemp, PublishLink, PublishRename, PublishFail,
       Prune, BeginPrune, PruneList, PruneLook, PruneDecided, PruneUnlink, PruneEnd
  <2>2. CASE p = q
    <3>1. \/ job' = job
          \/ \E x : job' = [job EXCEPT ![q] = [job[q] EXCEPT !.stamp = x]]
          \/ \E x : job' = [job EXCEPT ![q] = [job[q] EXCEPT !.at = x]]
          \/ \E x : job' = [job EXCEPT ![q] = [job[q] EXCEPT !.listed = x]]
          \/ \E x : job' = [job EXCEPT ![q] = [job[q] EXCEPT !.olds = x]]
      BY <1>2, <2>2 DEF Kill, Command, BeginUpdate, OpenTemp, CopyEnd, WriteFail, BeginBuild,
         BuildEnd, Replace, CheckTarget, Backup, NameTemp, PublishLink, PublishRename, PublishFail,
         Prune, BeginPrune, PruneList, PruneDecided, PruneEnd
    <3> QED
      BY <3>1 DEF Job
  <2> QED
    BY <2>1, <2>2
<1> QED
  BY <1>1, <1>2 DEF Next

(* Only a target of a backup link that is not the current image is         *)
(* condemned.                                                              *)
LEMMA CondemnedStep ==
  ASSUME TypeOK, [Next]_vars, NEW q \in Pids, NEW v \in Condemned(q)', v \notin Condemned(q)
  PROVE  \E t \in Stamps : old[t].kind = "link" /\ old[t].to = v /\ ~IsCurrent(t)
<1> USE DEF TypeOK, vars
<1>1. PICK i \in 1..Len(job'[q].doomed) : job'[q].doomed[i] = [name |-> "named", t |-> v]
  BY DEF Condemned
<1>2. v \in Stamps /\ job[q].doomed \in Seq(Doomed)
  BY DEF Condemned, Job
<1>3. \A k \in 1..Len(job[q].doomed) : job[q].doomed[k] # [name |-> "named", t |-> v]
  BY <1>2 DEF Condemned
<1>4. CASE PruneUnlink(q)
  <2>1. job'[q].doomed = Tail(job[q].doomed) /\ job[q].doomed # <<>>
    BY <1>4 DEF PruneUnlink, Job
  <2>2. i + 1 \in 1..Len(job[q].doomed) /\ job'[q].doomed[i] = job[q].doomed[i + 1]
    BY <1>2, <2>1
  <2> QED
    BY <1>1, <1>3, <2>2
<1>5. ASSUME NEW t \in Stamps, PruneLook(q, t), job'[q].doomed # job[q].doomed
      PROVE  old[t].kind = "link" /\ old[t].to = v /\ ~IsCurrent(t)
  <2>1. job'[q].doomed = job[q].doomed \o Found(q, t)
    BY <1>5 DEF PruneLook, Job
  <2>2. Found(q, t) \in Seq(Doomed)
    BY FoundType
  <2> DEFINE k == i - Len(job[q].doomed)
  <2>3. k \in 1..Len(Found(q, t)) /\ job'[q].doomed[i] = Found(q, t)[k]
    <3>1. \/ i \in 1..Len(job[q].doomed) /\ job'[q].doomed[i] = job[q].doomed[i]
          \/ k \in 1..Len(Found(q, t)) /\ job'[q].doomed[i] = Found(q, t)[k]
      BY <1>2, <2>1, <2>2
    <3> QED
      BY <1>1, <1>3, <3>1
  <2>4. Found(q, t)[k].name = "named" /\ Found(q, t)[k].t = v
    BY <1>1, <2>3
  <2> HIDE DEF k
  <2> QED
    BY <2>3, <2>4, FoundEnds
<1>6. CASE job'[q].doomed = job[q].doomed
  BY <1>1, <1>3, <1>6
<1> QED
  BY <1>4, <1>5, <1>6, DoomedKept

(* Pruning deletes images it has condemned, and backups.                   *)
LEMMA UnlinkStep ==
  ASSUME TypeOK, NEW p \in Pids, PruneUnlink(p)
  PROVE  /\ UNCHANGED <<cur, temp, clock, src, pc>> /\ pc[p] = "unlink"
         /\ \A t \in Stamps : named'[t] = named[t]
                           \/ (t \in Condemned(p) /\ named'[t] = NoImage)
         /\ \A t \in Stamps : old'[t] \in {old[t], NoEntry}
<1> USE DEF TypeOK
<1>1. job[p].doomed \in Seq(Doomed) /\ job[p].doomed # <<>>
  BY DEF PruneUnlink, Job
<1> DEFINE d == Head(job[p].doomed)
<1>2. d = job[p].doomed[1] /\ 1 \in 1..Len(job[p].doomed) /\ d \in Doomed
  BY <1>1
<1>3. d.name = "named" => d.t \in Condemned(p)
  BY <1>2 DEF Condemned, Doomed
<1>4. \/ d.name = "named" /\ named' = [named EXCEPT ![d.t] = NoImage] /\ UNCHANGED old
      \/ old' = [old EXCEPT ![d.t] = NoEntry] /\ UNCHANGED named
  BY DEF PruneUnlink
<1> HIDE DEF d
<1>5. \A t \in Stamps : named'[t] = named[t] \/ (t \in Condemned(p) /\ named'[t] = NoImage)
  BY <1>3, <1>4
<1>6. \A t \in Stamps : old'[t] \in {old[t], NoEntry}
  BY <1>4
<1> QED
  BY <1>5, <1>6 DEF PruneUnlink

(* Which steps change a name.                                              *)
LEMMA NamesStep ==
  ASSUME TypeOK, NEW p \in Pids, Prune(p) \/ Kill(p), ~PruneUnlink(p)
  PROVE  UNCHANGED <<cur, named, old, clock, src>>
  BY DEF Kill, Prune, BeginPrune, PruneList, PruneLook, PruneDecided, PruneEnd, files

LEMMA PowerStep ==
  ASSUME TypeOK, PowerLoss
  PROVE  /\ UNCHANGED <<clock, src, job>>
         /\ cur'.kind = cur.kind /\ cur'.to = cur.to /\ cur'.img.ver = cur.img.ver
         /\ cur'.img.st = "none" <=> cur.img.st = "none"
         /\ \A t \in Stamps :
              /\ named'[t].ver = named[t].ver /\ (named'[t].st = "none" <=> named[t].st = "none")
              /\ old'[t].kind = old[t].kind /\ old'[t].to = old[t].to
              /\ old'[t].img.ver = old[t].img.ver
         /\ \A p \in Pids : pc'[p] \in Ended /\ temp'[p].ver = temp[p].ver
<1> USE DEF TypeOK
<1>1. PICK kept \in SUBSET Stamps :
        /\ cur' = [cur EXCEPT !.img = Lost(@, kept)]
        /\ named' = [t \in Stamps |-> Lost(named[t], kept)]
        /\ old' = [t \in Stamps |-> [old[t] EXCEPT !.img = Lost(@, kept)]]
        /\ temp' = [p \in Pids |-> Lost(temp[p], kept)]
  BY DEF PowerLoss
<1>2. \A i \in Image : Lost(i, kept).ver = i.ver /\ (Lost(i, kept).st = "none" <=> i.st = "none")
  BY DEF Lost, Image
<1>3. \A e \in Entry : LET l == [e EXCEPT !.img = Lost(@, kept)] IN
        l.kind = e.kind /\ l.to = e.to /\ l.img = Lost(e.img, kept) /\ e.img \in Image
  BY DEF Entry
<1>4. /\ cur'.kind = cur.kind /\ cur'.to = cur.to /\ cur'.img.ver = cur.img.ver
      /\ cur'.img.st = "none" <=> cur.img.st = "none"
  BY <1>1, <1>2, <1>3
<1>5. \A t \in Stamps :
        named'[t].ver = named[t].ver /\ (named'[t].st = "none" <=> named[t].st = "none")
  BY <1>1, <1>2
<1>6. \A t \in Stamps :
        old'[t].kind = old[t].kind /\ old'[t].to = old[t].to /\ old'[t].img.ver = old[t].img.ver
  <2> SUFFICES ASSUME NEW t \in Stamps
               PROVE  /\ old'[t].kind = old[t].kind /\ old'[t].to = old[t].to
                      /\ old'[t].img.ver = old[t].img.ver
    OBVIOUS
  <2>1. old'[t] = [old[t] EXCEPT !.img = Lost(@, kept)] /\ old[t] \in Entry
    BY <1>1
  <2> QED
    BY <1>2, <1>3, <2>1
<1>7. \A p \in Pids : pc'[p] \in Ended /\ temp'[p].ver = temp[p].ver
  BY <1>1, <1>2 DEF PowerLoss, Ended
<1> QED
  BY <1>4, <1>5, <1>6, <1>7 DEF PowerLoss

-----------------------------------------------------------------------------
(***************************************************************************)
(* While x.sfs is missing, somebody is on the way to put it back: who has  *)
(* an image to name, or has named one that is still there; a process that  *)
(* has died may have been the last one.                                    *)
(***************************************************************************)
OnTheWay(p) ==
  \/ pc[p] \in {"name", "dead"}
  \/ pc[p] = "publish" /\ named[job[p].stamp].st # "none"
Underway == ~Present(cur) => \E p \in Pids : OnTheWay(p)
NoneDead == \A p \in Pids : pc[p] # "dead"

LEMMA NoneDeadInvariant ==
  ASSUME Faults = {}
  PROVE  Spec => []NoneDead
<1>1. Init => NoneDead
  BY DEF Init, NoneDead
<1>2. TypeOK /\ NoneDead /\ [Next]_vars => NoneDead'
  <2> SUFFICES ASSUME TypeOK, NoneDead, [Next]_vars PROVE NoneDead'
    OBVIOUS
  <2> USE DEF TypeOK, NoneDead, goto
  <2>1. CASE Tick \/ NewRelease \/ UNCHANGED vars
    BY <2>1 DEF Tick, NewRelease, vars
  <2>2. ASSUME NEW p \in Pids, Command(p) PROVE NoneDead'
    <3>1. \/ pc' = pc
          \/ \E l \in PCs \ {"dead"} : pc' = [pc EXCEPT ![p] = l]
      BY <2>2 DEF Command, BeginUpdate, OpenTemp, CopyEnd, WriteFail, BeginBuild, BuildEnd,
         Replace, CheckTarget, Backup, NameTemp, PublishLink, PublishRename, PublishFail,
         Prune, BeginPrune, PruneList, PruneLook, PruneDecided, PruneUnlink, PruneEnd, PCs
    <3> QED
      BY <3>1
  <2>3. ~PowerLoss /\ \A p \in Pids : ~Kill(p)
    BY DEF PowerLoss, Kill
  <2> QED
    BY <2>1, <2>2, <2>3 DEF Next
<1> QED
  BY <1>1, <1>2, TypeCorrect, PTL DEF Spec

-----------------------------------------------------------------------------
(***************************************************************************)
(* OneUpdate.  Whatever a pruning may take away is older than what x.sfs   *)
(* reads as, or is about to read as; a published image bears its version   *)
(* as its name.                                                            *)
(***************************************************************************)
Older(v) ==
  /\ \A t \in Stamps : old[t].kind = "link" => old[t].to < v
  /\ \A t \in Stamps : old[t].kind = "file" => old[t].img.ver < v
  /\ \A p \in Pids : \A t \in Condemned(p) : t < v

RankOK(p) ==
  /\ pc[p] # "build"
  /\ pc[p] \in {"open", "copy", "check", "backup"} => Present(cur)
  /\ pc[p] = "open" => Content(cur, named).ver < src
  /\ pc[p] \in {"copy", "check", "backup", "name"} =>
       temp[p].st # "none" /\ job[p].stamp = temp[p].ver
  /\ pc[p] \in {"copy", "check", "backup"} => Content(cur, named).ver < temp[p].ver
  /\ pc[p] = "name" => ~Present(cur) /\ Older(temp[p].ver)
  /\ pc[p] = "publish" =>
       ~Present(cur) /\ Older(job[p].stamp) /\ named[job[p].stamp].st # "none"

OneWriter == \A p, q \in Pids : pc[p] \in Writing /\ pc[q] \in Writing => p = q
NamedByVersion == \A t \in Stamps : named[t].st # "none" => named[t].ver = t
CurrentNewest == Present(cur) => Exists(cur, named) /\ Older(Content(cur, named).ver)

RankInv ==
  OneWriter /\ NamedByVersion /\ CurrentNewest /\ \A p \in Pids : RankOK(p)

LEMMA NoneCondemned == Init => \A p \in Pids : Condemned(p) = {}
  BY DEF Init, NoJob, Condemned

LEMMA RankInit == Init => RankInv
<1> SUFFICES ASSUME Init PROVE RankInv
  OBVIOUS
<1>1. Present(cur) /\ Exists(cur, named) /\ \A p \in Pids : pc[p] = "idle"
  BY ZeroStamp DEF Init, Present, Exists, Content, Link, File, First
<1>2. \A v : Older(v)
  BY NoneCondemned DEF Init, Older, NoEntry
<1>3. NamedByVersion
  BY ZeroStamp DEF Init, NamedByVersion, First, NoImage
<1>4. \A p \in Pids : RankOK(p) /\ pc[p] \notin Writing
  BY <1>1 DEF RankOK, Writing, Ended
<1> QED
  BY <1>1, <1>2, <1>3, <1>4 DEF RankInv, OneWriter, CurrentNewest

(* What is older stays older, until a newer image is moved aside.          *)
LEMMA OlderStep ==
  ASSUME TypeOK, [Next]_vars, NEW v \in Stamps, Older(v),
         \A t \in Stamps : old'[t] \in {old[t], NoEntry} \/
            (old'[t].kind = old[t].kind /\ old'[t].to = old[t].to /\ old'[t].img.ver = old[t].img.ver)
  PROVE  Older(v)'
<1>1. \A t \in Stamps : (old'[t].kind = "link" => old'[t].to < v)
                     /\ (old'[t].kind = "file" => old'[t].img.ver < v)
  BY DEF Older, NoEntry
<1>2. \A p \in Pids : \A t \in Condemned(p)' : t < v
  <2> SUFFICES ASSUME NEW p \in Pids, NEW t \in Condemned(p)' PROVE t < v
    OBVIOUS
  <2>1. CASE t \in Condemned(p)
    BY <2>1 DEF Older
  <2>2. CASE t \notin Condemned(p)
    BY <2>2, CondemnedStep DEF Older
  <2> QED
    BY <2>1, <2>2
<1> QED
  BY <1>1, <1>2 DEF Older

(* Which steps keep the backups.                                           *)
LEMMA BackupsKept ==
  ASSUME TypeOK, [Next]_vars, \A p \in Pids : ~Backup(p), NEW t \in Stamps
  PROVE  old'[t] \in {old[t], NoEntry} \/
         (old'[t].kind = old[t].kind /\ old'[t].to = old[t].to /\ old'[t].img.ver = old[t].img.ver)
<1>1. CASE PowerLoss
  BY <1>1, PowerStep
<1>2. ASSUME NEW p \in Pids, PruneUnlink(p) PROVE old'[t] \in {old[t], NoEntry}
  BY <1>2, UnlinkStep
<1>3. CASE Tick \/ NewRelease \/ UNCHANGED vars
  BY <1>3 DEF Tick, NewRelease, vars, files
<1>4. ASSUME NEW p \in Pids, Command(p) \/ Kill(p), ~PruneUnlink(p) PROVE old'[t] = old[t]
  BY <1>4 DEF Kill, Command, BeginUpdate, OpenTemp, CopyEnd, WriteFail, BeginBuild,
     BuildEnd, Replace, CheckTarget, NameTemp, PublishLink, PublishRename, PublishFail,
     Prune, BeginPrune, PruneList, PruneLook, PruneDecided, PruneEnd, files
<1> QED
  BY <1>1, <1>2, <1>3, <1>4 DEF Next

LEMMA OlderKept ==
  ASSUME TypeOK, [Next]_vars, \A p \in Pids : ~Backup(p)
  PROVE  \A v \in Stamps : Older(v) => Older(v)'
<1> SUFFICES ASSUME NEW v \in Stamps, Older(v) PROVE Older(v)'
  OBVIOUS
<1> QED
  BY OlderStep, BackupsKept

LEMMA NoBackup ==
  ASSUME RankInv, Present(cur)' \/ ~Present(cur)
  PROVE  \A p \in Pids : ~Backup(p)
  BY DEF RankInv, RankOK, Backup, Present, NoEntry

LEMMA WhereWriting ==
  \A p \in Pids : pc[p] \in {"open", "copy", "build", "check", "backup", "name", "publish"} => pc[p] \in Writing
  BY DEF Writing, PCs, Ended, Pruning

(* A step that writes nothing, of the surroundings, a pruning or a fault.  *)
LEMMA RankFrame ==
  ASSUME TypeOK, RankInv, [Next]_vars,
         src <= src' /\ src' \in Nat, cur'.kind = cur.kind,
         Present(cur) => Content(cur, named)'.ver = Content(cur, named).ver /\ Exists(cur, named)',
         \A t \in Stamps : named'[t].st # "none" => named[t].st # "none" /\ named'[t].ver = named[t].ver,
         \A p \in Pids : pc'[p] \in Writing =>
           /\ pc'[p] = pc[p] /\ temp'[p] = temp[p] /\ job'[p].stamp = job[p].stamp
           /\ pc[p] = "publish" => named'[job[p].stamp].st # "none"
  PROVE  RankInv'
<1> USE DEF TypeOK
<1>1. OneWriter'
  BY DEF RankInv, OneWriter
<1>2. NamedByVersion'
  BY DEF RankInv, NamedByVersion
<1>3. Present(cur)' <=> Present(cur)
  BY DEF Present
<1>0. \A v \in Stamps : Older(v) => Older(v)'
  BY <1>3, NoBackup, OlderKept
<1>4. Content(cur, named).ver \in Stamps
  BY DEF Content, Entry, Image
<1>5. CurrentNewest'
  BY <1>0, <1>3, <1>4 DEF RankInv, CurrentNewest
<1>6. ASSUME NEW p \in Pids PROVE RankOK(p)'
  <2>1. pc'[p] # "build"
    BY WhereWriting DEF RankInv, RankOK, Writing, PCs, Ended, Pruning
  <2>2. CASE pc'[p] \in Writing
    <3>1. temp[p].ver \in Stamps /\ job[p].stamp \in Stamps
      BY DEF Image, Job
    <3>2. pc[p] = "open" => Content(cur, named)'.ver < src'
      <4>1. pc[p] = "open" => Present(cur) /\ Content(cur, named).ver < src
        BY DEF RankInv, RankOK
      <4> QED
        BY <1>4, <4>1 DEF Stamps
    <3>3. RankOK(p)
      BY DEF RankInv
    <3> QED
      BY <1>0, <1>3, <2>2, <3>1, <3>2, <3>3 DEF RankOK
  <2>3. CASE pc'[p] \notin Writing
    <3>1. pc'[p] \notin {"open", "copy", "check", "backup", "name", "publish"}
      BY <2>3 DEF Writing, PCs, Ended, Pruning
    <3> QED
      BY <2>1, <3>1 DEF RankOK
  <2> QED
    BY <2>2, <2>3
<1> QED
  BY <1>1, <1>2, <1>5, <1>6 DEF RankInv

(* A step of the one process that writes changes what holds of it alone.   *)
LEMMA RankWriter ==
  ASSUME TypeOK, RankInv, NEW p \in Pids, pc[p] \in Writing,
         \A q \in Pids : q # p => pc'[q] = pc[q],
         NamedByVersion', CurrentNewest', RankOK(p)'
  PROVE  RankInv'
<1>1. \A q \in Pids : q # p => pc'[q] \notin Writing
  BY DEF RankInv, OneWriter
<1>2. \A q \in Pids : q # p => RankOK(q)'
  BY <1>1 DEF RankOK, Writing, PCs, Ended, Pruning
<1> QED
  BY <1>1, <1>2 DEF RankInv, OneWriter

LEMMA RankStep ==
  ASSUME TypeOK, ShapeInv, RankInv, [Next]_vars, OneUpdate
  PROVE  RankInv'
<1> USE DEF TypeOK, goto
<1> DEFINE shows == Content(cur, named).ver
<1>1. shows \in Stamps /\ \A t \in Stamps : named[t].ver \in Stamps
  BY DEF Content, Entry, Image
<1>2. \A p \in Pids : temp[p].ver \in Stamps /\ job[p].stamp \in Stamps /\ job[p].at \in Stamps
  BY DEF Image, Job
<1>3. CASE Tick \/ NewRelease \/ UNCHANGED vars
  <2>1. src <= src' /\ src' \in Nat
    BY <1>3 DEF Tick, NewRelease, vars, Stamps
  <2>2. UNCHANGED <<files, pc, job>>
    BY <1>3 DEF Tick, NewRelease, vars, files
  <2>3. Content(cur, named)' = Content(cur, named) /\ Exists(cur, named)' = Exists(cur, named)
    BY <2>2 DEF Content, Exists, files
  <2> QED
    BY <2>1, <2>2, <2>3, RankFrame DEF files, RankInv, RankOK, CurrentNewest
<1>4. CASE PowerLoss
  <2>1. \A p \in Pids : pc'[p] \notin Writing
    BY <1>4, PowerStep DEF Writing, Ended
  <2>2. Content(cur, named)'.ver = shows /\ (Exists(cur, named) => Exists(cur, named)')
    BY <1>4, PowerStep DEF Content, Exists, Entry
  <2>3. src <= src' /\ src' \in Nat
    BY <1>4, PowerStep DEF Stamps
  <2> QED
    BY <1>4, <2>1, <2>2, <2>3, PowerStep, RankFrame DEF RankInv, CurrentNewest
<1>5. ASSUME NEW p \in Pids, Prune(p) \/ Kill(p) PROVE RankInv'
  <2>1. UNCHANGED <<cur, clock, src>>
    BY <1>5, UnlinkStep, NamesStep
  <2>3. \A t \in Stamps : named'[t] = named[t] \/ (t \in Condemned(p) /\ named'[t] = NoImage)
    BY <1>5, UnlinkStep, NamesStep
  <2>4. \A t \in Stamps : Older(t) => named'[t] = named[t]
    BY <2>3 DEF Older, Stamps
  <2>5. Present(cur) => Content(cur, named)' = Content(cur, named)
    <3>1. CASE cur.kind = "link"
      <4>1. cur.to \in Stamps /\ named[cur.to].st # "none" /\ Older(named[cur.to].ver)
        BY <3>1 DEF RankInv, CurrentNewest, Present, Content, Exists, Entry
      <4>2. Older(cur.to)
        BY <4>1 DEF RankInv, NamedByVersion
      <4> QED
        BY <2>1, <2>4, <3>1, <4>1, <4>2 DEF Content
    <3>2. CASE cur.kind # "link"
      BY <2>1, <3>2 DEF Content
    <3> QED
      BY <3>1, <3>2
  <2>6. \A q \in Pids : pc'[q] \in Writing =>
          /\ pc'[q] = pc[q] /\ temp'[q] = temp[q] /\ job'[q].stamp = job[q].stamp
    <3>1. \A q \in Pids : q # p => pc'[q] = pc[q] /\ temp'[q] = temp[q] /\ job'[q] = job[q]
      BY <1>5 DEF Prune, BeginPrune, PruneList, PruneLook, PruneDecided, PruneUnlink, PruneEnd,
                  Kill, files
    <3>2. pc'[p] \in Ended \cup Pruning
      BY <1>5 DEF Prune, BeginPrune, PruneList, PruneLook, PruneDecided, PruneUnlink, PruneEnd,
                  Kill, Ended, Pruning
    <3> QED
      BY <3>1, <3>2 DEF Writing
  <2>7. \A q \in Pids : pc[q] = "publish" => named'[job[q].stamp].st # "none"
    BY <1>2, <2>4 DEF RankInv, RankOK
  <2>8. src <= src' /\ src' \in Nat
    BY <2>1 DEF Stamps
  <2> QED
    BY <2>1, <2>3, <2>5, <2>6, <2>7, <2>8, RankFrame
    DEF RankInv, CurrentNewest, Exists, NoImage
<1>6. ASSUME NEW p \in Pids, BeginUpdate(p) PROVE RankInv'
  <2>1. \A q \in Pids : pc[q] \notin Writing
    BY <1>6 DEF BeginUpdate, Start, OneUpdate, Writing
  <2>2. UNCHANGED <<files, clock, src, job>> /\ pc'[p] = "open" /\ \A q \in Pids : q # p => pc'[q] = pc[q]
    BY <1>6 DEF BeginUpdate
  <2>3. Present(cur) /\ shows < src
    BY <1>1, <1>6 DEF BeginUpdate, Exists, Content, ShapeInv, Present, NoImage, Stamps
  <2>4. \A v \in Stamps : Older(v) => Older(v)'
    BY <2>2, NoBackup, OlderKept DEF files, Present
  <2>5. Content(cur, named)' = Content(cur, named)
    BY <2>2 DEF Content, files
  <2>6. NamedByVersion' /\ CurrentNewest'
    BY <1>1, <2>2, <2>4, <2>5 DEF RankInv, NamedByVersion, CurrentNewest, Exists, files
  <2>7. RankOK(p)'
    BY <2>2, <2>3, <2>5 DEF RankOK, files
  <2>8. \A q \in Pids : q # p => pc'[q] \notin Writing
    BY <2>1, <2>2
  <2>9. \A q \in Pids : q # p => RankOK(q)'
    BY <2>8 DEF RankOK, Writing, PCs, Ended, Pruning
  <2> QED
    BY <2>6, <2>7, <2>8, <2>9 DEF RankInv, OneWriter
<1>7. ASSUME NEW p \in Pids, pc[p] \in Writing,
             \A q \in Pids : q # p => pc'[q] = pc[q],
             UNCHANGED <<cur, named, old, clock, src>>, RankOK(p)'
      PROVE  RankInv'
  <2>1. \A q \in Pids : ~Backup(q)
    BY <1>7, NoBackup DEF Present
  <2>2. Content(cur, named)' = Content(cur, named)
    BY <1>7 DEF Content
  <2>3. NamedByVersion' /\ CurrentNewest'
    BY <1>1, <1>7, <2>1, <2>2, OlderKept DEF RankInv, NamedByVersion, CurrentNewest, Exists
  <2> QED
    BY <1>7, <2>3, RankWriter
<1>8. ASSUME NEW p \in Pids, OpenTemp(p) \/ CopyEnd(p) \/ WriteFail(p) \/ CheckTarget(p) \/ PublishFail(p)
      PROVE  RankInv'
  <2>1. /\ pc[p] \in Writing /\ UNCHANGED <<cur, named, old, clock, src>>
        /\ \A q \in Pids : q # p => pc'[q] = pc[q]
    BY <1>8, WhereWriting DEF OpenTemp, CopyEnd, WriteFail, CheckTarget, PublishFail, files, RankInv, RankOK
  <2>2. Content(cur, named)' = Content(cur, named) /\ Present(cur)' = Present(cur)
    BY <2>1 DEF Content, Present
  <2>3. RankOK(p)
    BY DEF RankInv
  <2>4. CASE OpenTemp(p)
    <3>1. pc[p] = "open" /\ pc'[p] = "copy"
      BY <2>4 DEF OpenTemp
    <3>2. temp'[p].ver = src /\ temp'[p].st # "none" /\ job'[p].stamp = src
      BY <2>4 DEF OpenTemp, Job
    <3>3. RankOK(p)'
      BY <2>2, <2>3, <3>1, <3>2 DEF RankOK
    <3> QED
      BY <1>7, <2>1, <3>3
  <2>5. CASE CopyEnd(p) \/ CheckTarget(p)
    <3>1. \/ pc[p] = "copy" /\ pc'[p] = "check"
          \/ pc[p] = "check" /\ pc'[p] = IF Present(cur) THEN "backup" ELSE "name"
      BY <2>5 DEF CopyEnd, CheckTarget
    <3>2. temp'[p].ver = temp[p].ver /\ (temp[p].st # "none" => temp'[p].st # "none")
      BY <2>5, Written, StateVersion DEF CheckTarget, files, Image
    <3>3. job'[p].stamp = job[p].stamp
      BY <2>5 DEF CopyEnd, CheckTarget, Job
    <3>4. RankOK(p)'
      BY <2>2, <2>3, <3>1, <3>2, <3>3 DEF RankOK
    <3> QED
      BY <1>7, <2>1, <3>4
  <2>6. CASE WriteFail(p) \/ PublishFail(p)
    <3>1. RankOK(p)'
      BY <2>6 DEF WriteFail, PublishFail, RankOK
    <3> QED
      BY <1>7, <2>1, <3>1
  <2> QED
    BY <1>8, <2>4, <2>5, <2>6
<1>9. ASSUME NEW p \in Pids, Backup(p) PROVE RankInv'
  <2>1. RankOK(p) /\ pc[p] = "backup" /\ Present(cur)
    BY <1>9 DEF RankInv, RankOK, Backup
  <2>2. /\ old' = [old EXCEPT ![job[p].at] = cur] /\ cur' = NoEntry /\ pc' = [pc EXCEPT ![p] = "name"]
        /\ UNCHANGED <<named, temp, clock, src, job>>
    BY <1>9, <2>1 DEF Backup
  <2>3. shows < temp[p].ver /\ Older(shows) /\ Exists(cur, named)
    BY <2>1 DEF RankOK, RankInv, CurrentNewest
  <2>4. cur.kind = "link" => cur.to = shows
    BY <2>3 DEF Content, Exists, RankInv, NamedByVersion, Entry
  <2>5. cur.kind = "file" => cur.img.ver = shows
    BY DEF Content
  <2>6. Older(temp[p].ver)'
    <3>1. shows \in Nat /\ temp[p].ver \in Nat
      BY <1>1, <1>2 DEF Stamps
    <3>2. ASSUME NEW t \in Stamps
          PROVE  /\ old'[t].kind = "link" => old'[t].to < temp[p].ver
                 /\ old'[t].kind = "file" => old'[t].img.ver < temp[p].ver
      <4>1. CASE t = job[p].at
        <5>1. old'[t] = cur
          BY <1>2, <2>2, <4>1
        <5> QED
          BY <2>3, <2>4, <2>5, <5>1
      <4>2. CASE t # job[p].at
        <5>1. old'[t] = old[t] /\ old[t] \in Entry
          BY <2>2, <4>2
        <5>2. \A e \in Entry : e.to \in Nat /\ e.img.ver \in Nat
          BY DEF Entry, Image, Stamps
        <5> QED
          BY <2>3, <3>1, <5>1, <5>2 DEF Older
      <4> QED
        BY <4>1, <4>2
    <3>3. ASSUME NEW q \in Pids, NEW t \in Condemned(q) PROVE t < temp[p].ver
      <4>1. t \in Nat /\ t < shows
        BY <2>3, <3>3 DEF Older, Condemned, Stamps
      <4> QED
        BY <2>3, <3>1, <4>1
    <3>4. \A q \in Pids : Condemned(q)' = Condemned(q)
      BY <2>2 DEF Condemned
    <3> QED
      BY <2>2, <3>2, <3>3, <3>4 DEF Older
  <2>7. RankOK(p)'
    BY <2>1, <2>2, <2>6 DEF RankOK, Present, NoEntry
  <2>8. NamedByVersion' /\ CurrentNewest'
    BY <2>2 DEF RankInv, NamedByVersion, CurrentNewest, Present, NoEntry
  <2> QED
    BY <2>1, <2>2, <2>7, <2>8, RankWriter, WhereWriting
<1>10. ASSUME NEW p \in Pids, NameTemp(p) PROVE RankInv'
  <2>1. RankOK(p) /\ pc[p] = "name" /\ pc' = [pc EXCEPT ![p] = "publish"]
    BY <1>10 DEF RankInv, NameTemp
  <2>2. named' = [named EXCEPT ![job[p].stamp] = temp[p]] /\ UNCHANGED <<cur, old, clock, src, job>>
    BY <1>10 DEF NameTemp
  <2>3. ~Present(cur) /\ temp[p].st # "none" /\ job[p].stamp = temp[p].ver /\ Older(job[p].stamp)
    BY <2>1 DEF RankOK
  <2>4. Older(job[p].stamp)'
    <3>1. \A v \in Stamps : Older(v) => Older(v)'
      BY <2>3, NoBackup, OlderKept
    <3> QED
      BY <1>2, <2>2, <2>3, <3>1
  <2>5. RankOK(p)'
    BY <1>2, <2>1, <2>2, <2>3, <2>4 DEF RankOK
  <2>6. NamedByVersion' /\ CurrentNewest'
    BY <1>2, <2>2, <2>3 DEF RankInv, NamedByVersion, CurrentNewest
  <2> QED
    BY <2>1, <2>5, <2>6, RankWriter, WhereWriting
<1>11. ASSUME NEW p \in Pids, PublishLink(p) \/ PublishRename(p) PROVE RankInv'
  <2>1. RankOK(p) /\ pc[p] = "publish" /\ pc' = [pc EXCEPT ![p] = "done"]
    BY <1>11 DEF RankInv, PublishLink, PublishRename
  <2>2. named[job[p].stamp].st # "none" /\ named[job[p].stamp].ver = job[p].stamp /\ Older(job[p].stamp)
    BY <1>2, <2>1 DEF RankOK, RankInv, NamedByVersion
  <2>3. Content(cur, named)' = named[job[p].stamp]
    BY <1>2, <1>11 DEF PublishLink, PublishRename, Link, File, Content
  <2>4. \A q \in Pids : ~Backup(q)
    BY <1>11 DEF PublishLink, PublishRename, Backup, Link, File, NoEntry
  <2>5. Older(job[p].stamp)'
    <3>1. \A v \in Stamps : Older(v) => Older(v)'
      BY <2>4, OlderKept
    <3> QED
      BY <1>2, <1>11, <2>2, <3>1 DEF PublishLink, PublishRename
  <2>6. CurrentNewest'
    BY <2>2, <2>3, <2>5, <1>11 DEF CurrentNewest, Exists, PublishLink, PublishRename
  <2>7. NamedByVersion'
    BY <1>2, <1>11 DEF RankInv, NamedByVersion, PublishLink, PublishRename, NoImage
  <2>8. RankOK(p)'
    BY <2>1 DEF RankOK
  <2> QED
    BY <2>1, <2>6, <2>7, <2>8, RankWriter, WhereWriting
<1>12. \A p \in Pids : ~BeginBuild(p) /\ ~BuildEnd(p)
  BY DEF BeginBuild, Start, OneUpdate, BuildEnd, RankInv, RankOK
<1> QED
  BY <1>3, <1>4, <1>5, <1>6, <1>8, <1>9, <1>10, <1>11, <1>12 DEF Next, Command, Replace

(* x.sfs goes only where a process moves it aside.                         *)
LEMMA GoesByBackup ==
  ASSUME TypeOK, [Next]_vars, Present(cur), ~Present(cur)'
  PROVE  \E p \in Pids : Backup(p)
<1>1. ~PowerLoss
  BY PowerStep DEF Present
<1>2. ASSUME NEW p \in Pids, PruneUnlink(p) PROVE FALSE
  BY <1>2, UnlinkStep DEF Present
<1>3. ASSUME NEW p \in Pids, Command(p) \/ Kill(p), ~PruneUnlink(p) PROVE Backup(p)
  <2>1. PublishLink(p) \/ PublishRename(p) => cur'.kind \in {"link", "file"}
    BY DEF PublishLink, PublishRename, Link, File
  <2>2. \/ cur' = cur \/ Backup(p) \/ PublishLink(p) \/ PublishRename(p)
    BY <1>3 DEF Kill, Command, BeginUpdate, OpenTemp, CopyEnd, WriteFail, BeginBuild, BuildEnd,
       Replace, CheckTarget, NameTemp, PublishFail, Prune, BeginPrune,
       PruneList, PruneLook, PruneDecided, PruneEnd, files
  <2> QED
    BY <2>1, <2>2 DEF Present
<1> QED
  BY <1>1, <1>2, <1>3 DEF Next, Tick, NewRelease, vars, files, Present

LEMMA RankInvariant ==
  ASSUME OneUpdate
  PROVE  Spec => []RankInv
<1>1. TypeOK /\ ShapeInv /\ RankInv /\ [Next]_vars => RankInv'
  BY RankStep
<1> QED
  BY <1>1, RankInit, TypeCorrect, ShapeInvariant, PTL DEF Spec

(* While nothing dies, x.sfs reads as, or a process is about to name or to  *)
(* publish, an image newer than all that prunings may take.                *)
LEMMA NewestKept ==
  ASSUME StoreInv, RankInv, Underway, NoneDead
  PROVE  \E i \in Images : Kept(i) /\ i.ver \in Stamps /\ Older(i.ver)
<1> USE DEF StoreInv, TypeOK
<1>1. CASE Present(cur)
  <2>1. Kept(Content(cur, named))
    BY <1>1 DEF RankInv, CurrentNewest, IntactInv, Exists, Content, Present, Entry
  <2>2. Content(cur, named).ver \in Stamps
    BY DEF Content, Entry, Image
  <2> QED
    BY <1>1, <2>1, <2>2, ImagesMember DEF RankInv, CurrentNewest
<1>2. CASE ~Present(cur)
  <2>1. PICK p \in Pids : OnTheWay(p)
    BY <1>2 DEF Underway
  <2>2. CASE pc[p] = "name"
    <3>1. Kept(temp[p]) /\ temp[p].ver \in Stamps /\ Older(temp[p].ver)
      BY <2>2 DEF RankInv, RankOK, IntactInv, Image
    <3> QED
      BY <2>2, <3>1, ImagesMember
  <2>3. CASE pc[p] = "publish" /\ named[job[p].stamp].st # "none"
    <3>1. job[p].stamp \in Stamps
      BY DEF Job
    <3>2. named[job[p].stamp].ver = job[p].stamp /\ Older(job[p].stamp)
      BY <2>3, <3>1 DEF RankInv, RankOK, NamedByVersion
    <3>3. Kept(named[job[p].stamp])
      BY <2>3, <3>1 DEF IntactInv
    <3> QED
      BY <3>1, <3>2, <3>3, ImagesMember
  <2> QED
    BY <2>1, <2>2, <2>3 DEF OnTheWay, NoneDead
<1> QED
  BY <1>1, <1>2

(* Where an image is newer than all that may be pruned, a pruning takes    *)
(* only older ones.                                                        *)
LEMMA PruneOfOlder ==
  ASSUME StoreInv, NamedByVersion, NEW p \in Pids, PruneUnlink(p),
         NEW i \in Images, Kept(i), i.ver \in Stamps, Older(i.ver)
  PROVE  i.ver \in shelf' /\ \A v \in shelf : v \in shelf' \/ v <= i.ver
<1> USE DEF StoreInv, TypeOK
<1>1. UNCHANGED <<cur, temp, pc>>
  BY UnlinkStep
<1>2. \A t \in Stamps : named'[t] = named[t] \/ t < i.ver
  BY UnlinkStep DEF Older
<1>3. \A t \in Stamps : old'[t].img = old[t].img \/ (old[t].kind = "file" => old[t].img.ver < i.ver)
  BY UnlinkStep DEF Older
<1>4. ASSUME NEW j \in Images, Whole(j) PROVE j \in Images' \/ j.ver < i.ver
  <2>1. CASE \E q \in Arriving : j = temp[q]
    BY <1>1, <2>1 DEF Images, Arriving
  <2>2. ASSUME NEW t \in Stamps, j = named[t] PROVE j \in Images' \/ j.ver < i.ver
    <3>1. j.ver = t
      BY <1>4, <2>2 DEF NamedByVersion, Whole
    <3> QED
      BY <1>2, <2>2, <3>1 DEF Images
  <2>3. ASSUME NEW t \in Stamps, j = old[t].img PROVE j \in Images' \/ j.ver < i.ver
    <3>1. old[t].kind = "file"
      BY <1>4, <2>3 DEF ShapeInv, Whole, NoImage
    <3> QED
      BY <1>3, <2>3, <3>1 DEF Images
  <2>4. CASE j = Content(cur, named) /\ cur.kind = "link"
    BY <2>2, <2>4 DEF Content, Entry
  <2>5. CASE j = Content(cur, named) /\ cur.kind # "link"
    BY <1>1, <2>5 DEF Content, Images
  <2> QED
    BY <2>1, <2>2, <2>3, <2>4, <2>5 DEF Images
<1>5. i \in Images'
  BY <1>4, KeptIsWhole DEF Stamps
<1>6. i.ver \in shelf'
  BY <1>5, KeptIsWhole DEF shelf, Whole
<1>7. ASSUME NEW v \in shelf PROVE v \in shelf' \/ v <= i.ver
  <2>1. PICK j \in Images : Whole(j) /\ j.ver = v /\ v \in Stamps
    BY DEF shelf
  <2>2. CASE j \in Images'
    BY <2>1, <2>2 DEF shelf, Whole
  <2>3. CASE j.ver < i.ver
    BY <2>1, <2>3 DEF Stamps
  <2> QED
    BY <1>4, <2>1, <2>2, <2>3
<1> QED
  BY <1>6, <1>7

(* Only a pruning that deletes changes what it has still to delete.        *)
LEMMA Unlinks ==
  ASSUME TypeOK, [Next]_vars, NEW p \in Pids, pc[p] = "unlink", job'[p] # job[p]
  PROVE  PruneUnlink(p)
<1>1. ~(Tick \/ NewRelease \/ PowerLoss \/ UNCHANGED vars)
  BY DEF Tick, NewRelease, PowerLoss, vars
<1>2. ASSUME NEW q \in Pids, Command(q) \/ Kill(q), q # p PROVE FALSE
  BY <1>2 DEF TypeOK, Kill, Command, BeginUpdate, OpenTemp, CopyEnd, WriteFail, BeginBuild,
     BuildEnd, Replace, CheckTarget, Backup, NameTemp, PublishLink, PublishRename, PublishFail,
     Prune, BeginPrune, PruneList, PruneLook, PruneDecided, PruneUnlink, PruneEnd
<1>3. CASE Command(p) \/ Kill(p)
  BY <1>3 DEF Kill, Command, BeginUpdate, Start, OpenTemp, CopyEnd, WriteFail, BeginBuild,
     BuildEnd, Replace, CheckTarget, Backup, NameTemp, PublishLink, PublishRename, PublishFail,
     Prune, BeginPrune, PruneList, PruneLook, PruneDecided, PruneEnd
<1> QED
  BY <1>1, <1>2, <1>3 DEF Next

-----------------------------------------------------------------------------
(***************************************************************************)
(* NoLinks.  The only links are to the image the directory started with.   *)
(***************************************************************************)
FirstOK(p) ==
  /\ pc[p] # "build"
  /\ pc[p] = "open" => 0 < src
  /\ pc[p] \in {"copy", "check", "backup", "name", "publish"} => 0 < job[p].stamp
FirstInv ==
  /\ cur.kind = "link" => cur.to = 0 /\ named[0].st # "none"
  /\ cur.kind = "file" => cur.img.st # "none"
  /\ \A t \in Stamps : old[t].kind = "link" => old[t].to = 0 /\ cur.kind # "link"
  /\ \A p \in Pids : \A t \in Condemned(p) : t = 0 /\ cur.kind # "link"
  /\ \A p \in Pids : FirstOK(p)

LEMMA FirstInit == Init => FirstInv
<1> SUFFICES ASSUME Init PROVE FirstInv
  OBVIOUS
<1>1. cur.kind = "link" \/ cur.img.st # "none"
  BY DEF Init, Link, File, First
<1>2. cur.kind = "link" => cur.to = 0 /\ named[0].st # "none"
  BY ZeroStamp DEF Init, Link, File, First
<1>3. \A t \in Stamps : old[t].kind # "link"
  BY DEF Init, NoEntry
<1>4. \A p \in Pids : FirstOK(p)
  BY DEF Init, FirstOK
<1> QED
  BY <1>1, <1>2, <1>3, <1>4, NoneCondemned DEF FirstInv, Init, Link, File

LEMMA FirstFrame ==
  ASSUME TypeOK, FirstInv, [Next]_vars,
         cur'.kind = cur.kind, cur'.to = cur.to, cur'.img.st = "none" <=> cur.img.st = "none",
         named[0].st # "none" => named'[0].st # "none" \/ cur.kind # "link",
         \A t \in Stamps : old'[t].kind = "link" => old[t].kind = "link" /\ old'[t].to = old[t].to,
         \A p \in Pids : FirstOK(p)'
  PROVE  FirstInv'
<1>1. ASSUME NEW p \in Pids, NEW t \in Condemned(p)' PROVE t = 0 /\ cur.kind # "link"
  <2>1. CASE t \in Condemned(p)
    BY <2>1 DEF FirstInv
  <2>2. CASE t \notin Condemned(p)
    BY <2>2, CondemnedStep DEF FirstInv
  <2> QED
    BY <2>1, <2>2
<1> QED
  BY <1>1 DEF FirstInv

LEMMA FirstOKStep ==
  ASSUME TypeOK, FirstInv, [Next]_vars, NoLinks, NEW q \in Pids
  PROVE  FirstOK(q)'
<1> USE DEF TypeOK, goto
<1>1. FirstOK(q) /\ src \in Nat /\ Content(cur, named).ver \in Nat
  BY Versions DEF FirstInv
<1>2. CASE Tick \/ NewRelease \/ UNCHANGED vars
  <2>1. src <= src' /\ src' \in Nat /\ UNCHANGED <<pc, job>>
    BY <1>2 DEF Tick, NewRelease, vars, Stamps
  <2> QED
    BY <1>1, <2>1 DEF FirstOK
<1>3. CASE PowerLoss
  BY <1>3, PowerStep DEF FirstOK, Ended
<1>4. ASSUME NEW p \in Pids, p # q, Command(p) \/ Kill(p) PROVE FirstOK(q)'
  <2>1. pc'[q] = pc[q] /\ job'[q] = job[q] /\ src' = src
    BY <1>4 DEF Kill, Command, BeginUpdate, OpenTemp, CopyEnd, WriteFail, BeginBuild, BuildEnd,
       Replace, CheckTarget, Backup, NameTemp, PublishLink, PublishRename, PublishFail, Prune,
       BeginPrune, PruneList, PruneLook, PruneDecided, PruneUnlink, PruneEnd, files
  <2> QED
    BY <1>1, <2>1 DEF FirstOK
<1>5. CASE BeginUpdate(q)
  BY <1>1, <1>5 DEF BeginUpdate, FirstOK
<1>6. CASE OpenTemp(q)
  BY <1>1, <1>6 DEF OpenTemp, FirstOK, Job
<1>7. CASE CopyEnd(q) \/ CheckTarget(q) \/ Backup(q) \/ NameTemp(q)
  <2>1. /\ pc[q] \in {"copy", "check", "backup", "name"}
        /\ pc'[q] \in {"check", "backup", "name", "publish", "failed"}
    BY <1>7 DEF CopyEnd, CheckTarget, Backup, NameTemp
  <2>2. job'[q].stamp = job[q].stamp
    BY <1>7 DEF CopyEnd, CheckTarget, Backup, NameTemp, Job
  <2> QED
    BY <1>1, <2>1, <2>2 DEF FirstOK
<1>8. CASE WriteFail(q) \/ PublishLink(q) \/ PublishRename(q) \/ PublishFail(q) \/ Prune(q) \/ Kill(q)
  <2>1. pc'[q] \in Ended \cup Pruning
    BY <1>8 DEF WriteFail, PublishLink, PublishRename, PublishFail, Prune, BeginPrune, PruneList,
       PruneLook, PruneDecided, PruneUnlink, PruneEnd, Kill, Ended, Pruning
  <2> QED
    BY <2>1 DEF FirstOK, Ended, Pruning
<1>9. ~BeginBuild(q) /\ ~BuildEnd(q)
  BY <1>1 DEF BeginBuild, Start, NoLinks, BuildEnd, FirstOK
<1> QED
  BY <1>2, <1>3, <1>4, <1>5, <1>6, <1>7, <1>8, <1>9 DEF Next, Command, Replace

LEMMA FirstStep ==
  ASSUME TypeOK, FirstInv, [Next]_vars, NoLinks
  PROVE  FirstInv'
<1> USE DEF TypeOK, goto
<1>1. \A q \in Pids : FirstOK(q)'
  BY FirstOKStep
<1>2. CASE PowerLoss
  BY <1>1, <1>2, ZeroStamp, PowerStep, FirstFrame
<1>3. CASE UNCHANGED <<cur, named, old>>
  BY <1>1, <1>3, FirstFrame
<1>4. ASSUME NEW p \in Pids, PruneUnlink(p) PROVE FirstInv'
  <2>1. cur.kind # "link" \/ named'[0] = named[0]
    BY <1>4, ZeroStamp, UnlinkStep DEF FirstInv
  <2>2. cur' = cur /\ \A t \in Stamps : old'[t].kind = "link" => old'[t] = old[t]
    BY <1>4, UnlinkStep DEF NoEntry
  <2> QED
    BY <1>1, <2>1, <2>2, FirstFrame
<1>5. ASSUME NEW p \in Pids, NameTemp(p) PROVE FirstInv'
  <2>1. 0 < job[p].stamp
    BY <1>5 DEF NameTemp, FirstInv, FirstOK
  <2>2. named'[0] = named[0] /\ UNCHANGED <<cur, old>>
    BY <1>5, <2>1, ZeroStamp DEF NameTemp
  <2> QED
    BY <1>1, <2>2, FirstFrame
<1>6. ASSUME NEW p \in Pids, Backup(p), Present(cur) PROVE FirstInv'
  <2>1. cur' = NoEntry /\ old' = [old EXCEPT ![job[p].at] = cur] /\ job' = job
    BY <1>6 DEF Backup
  <2>2. \A t \in Stamps : old'[t] = cur \/ old'[t] = old[t]
    BY <2>1
  <2>3. \A q \in Pids : Condemned(q)' = Condemned(q)
    BY <2>1 DEF Condemned
  <2> QED
    BY <1>1, <2>1, <2>2, <2>3 DEF FirstInv, NoEntry
<1>7. ASSUME NEW p \in Pids, PublishRename(p) PROVE FirstInv'
  <2>1. cur'.kind = "file" /\ cur'.img.st # "none" /\ UNCHANGED <<old, job>>
    BY <1>7 DEF PublishRename, File
  <2>2. \A q \in Pids : Condemned(q)' = Condemned(q)
    BY <2>1 DEF Condemned
  <2> QED
    BY <1>1, <2>1, <2>2 DEF FirstInv
<1>8. ASSUME NEW p \in Pids, Command(p) \/ Kill(p), ~PruneUnlink(p), ~NameTemp(p),
             ~(Backup(p) /\ Present(cur)), ~PublishRename(p)
      PROVE  UNCHANGED <<cur, named, old>>
  BY <1>8 DEF Kill, Command, BeginUpdate, OpenTemp, CopyEnd, WriteFail, BeginBuild, BuildEnd,
     Replace, CheckTarget, Backup, PublishLink, NoLinks, PublishFail, Prune, BeginPrune,
     PruneList, PruneLook, PruneDecided, PruneEnd, files
<1> QED
  BY <1>2, <1>3, <1>4, <1>5, <1>6, <1>7, <1>8 DEF Next, Tick, NewRelease, vars, files

LEMMA FirstInvariant ==
  ASSUME NoLinks
  PROVE  Spec => []FirstInv
<1>1. TypeOK /\ FirstInv /\ [Next]_vars => FirstInv'
  BY FirstStep
<1> QED
  BY <1>1, FirstInit, TypeCorrect, PTL DEF Spec

-----------------------------------------------------------------------------
(***************************************************************************)
(* Serial.  What a pruning is going to delete is not the image the current *)
(* link points at, unless that one is missing.                             *)
(***************************************************************************)
OneActive == \A p, q \in Pids : pc[p] \notin Ended /\ pc[q] \notin Ended => p = q
SpareInv ==
  /\ OneActive
  /\ \A p \in Pids :
       /\ pc[p] \in Pruning => "prune" \in Ops
       /\ pc[p] \in {"idle", "list"} => Condemned(p) = {}
       /\ pc[p] \in Pruning /\ cur.kind = "link" /\ cur.to \in Condemned(p) =>
            ~Exists(cur, named)

LEMMA WhereActive ==
  /\ \A p \in Pids : pc[p] \in {"open", "copy", "build", "check", "backup", "name", "publish",
                                "list", "look", "unlink"} => pc[p] \notin Ended
  /\ \A p \in Pids : pc[p] \in Pruning => pc[p] \notin Ended
  BY DEF Ended, Pruning

(* While a command runs, and when one starts, no other is under way.       *)
LEMMA OthersEnded ==
  ASSUME TypeOK, SpareInv, Serial, NEW p \in Pids, Command(p) \/ Kill(p), NEW q \in Pids, q # p
  PROVE  pc[q] \in Ended /\ pc'[q] = pc[q] /\ temp'[q] = temp[q] /\ job'[q] = job[q]
<1> USE DEF TypeOK, goto, files
<1>1. pc[p] \notin Ended \/ \E op : Start(p, op)
  BY WhereActive DEF Command, BeginUpdate, OpenTemp, CopyEnd, WriteFail, BeginBuild, BuildEnd,
     Replace, CheckTarget, Backup, NameTemp, PublishLink, PublishRename, PublishFail,
     Prune, BeginPrune, PruneList, PruneLook, PruneDecided, PruneUnlink, PruneEnd, Kill
<1>2. pc[q] \in Ended
  <2>1. CASE pc[p] \notin Ended
    BY <2>1 DEF SpareInv, OneActive
  <2>2. CASE \E op : Start(p, op)
    <3>1. pc[q] \in Ended \cup (IF "prune" \in Alone THEN {} ELSE Pruning)
      BY <2>2 DEF Start, Serial
    <3> QED
      BY <3>1 DEF SpareInv, Serial
  <2> QED
    BY <1>1, <2>1, <2>2
<1>3. pc'[q] = pc[q] /\ temp'[q] = temp[q] /\ job'[q] = job[q]
  BY DEF Command, BeginUpdate, OpenTemp, CopyEnd, WriteFail, BeginBuild, BuildEnd,
     Replace, CheckTarget, Backup, NameTemp, PublishLink, PublishRename, PublishFail,
     Prune, BeginPrune, PruneList, PruneLook, PruneDecided, PruneUnlink, PruneEnd, Kill
<1> QED
  BY <1>2, <1>3

(* A step after which a process is pruning adds no name.                   *)
LEMMA PruningStep ==
  ASSUME TypeOK, SpareInv, [Next]_vars, Serial, NEW q \in Pids, pc'[q] \in Pruning
  PROVE  /\ cur' = cur /\ \A t \in Stamps : named'[t] \in {named[t], NoImage}
         /\ pc[q] \in Pruning \/ (pc[q] = "idle" /\ "prune" \in Ops)
<1> USE DEF TypeOK
<1>1. ~PowerLoss
  BY PowerStep, WhereActive DEF Ended, Pruning
<1>2. CASE Tick \/ NewRelease \/ UNCHANGED vars
  BY <1>2 DEF Tick, NewRelease, vars, files
<1>3. ASSUME NEW p \in Pids, Command(p) \/ Kill(p), p # q PROVE FALSE
  BY <1>3, OthersEnded DEF Ended, Pruning
<1>4. CASE Command(q) \/ Kill(q)
  <2>1. Prune(q)
    BY <1>4 DEF Kill, Command, BeginUpdate, OpenTemp, CopyEnd, WriteFail, BeginBuild,
       BuildEnd, Replace, CheckTarget, Backup, NameTemp, PublishLink, PublishRename, PublishFail,
       goto, Pruning
  <2>2. pc[q] \in Pruning \/ (pc[q] = "idle" /\ "prune" \in Ops)
    BY <2>1 DEF Prune, BeginPrune, Start, PruneList, PruneLook, PruneDecided, PruneUnlink,
       PruneEnd, Pruning
  <2>3. cur' = cur /\ \A t \in Stamps : named'[t] \in {named[t], NoImage}
    BY <2>1, UnlinkStep, NamesStep
  <2> QED
    BY <2>2, <2>3
<1> QED
  BY <1>1, <1>2, <1>3, <1>4 DEF Next

LEMMA SpareStep ==
  ASSUME TypeOK, SpareInv, [Next]_vars, Serial
  PROVE  SpareInv'
<1> USE DEF TypeOK
<1>1. OneActive'
  <2> SUFFICES ASSUME NEW q \in Pids, NEW r \in Pids, q # r, pc'[q] \notin Ended, pc'[r] \notin Ended
               PROVE  FALSE
    BY DEF OneActive
  <2>1. CASE PowerLoss
    BY <2>1, PowerStep
  <2>2. CASE Tick \/ NewRelease \/ UNCHANGED vars
    BY <2>2 DEF Tick, NewRelease, vars, SpareInv, OneActive
  <2>3. ASSUME NEW p \in Pids, Command(p) \/ Kill(p) PROVE FALSE
    BY <2>3, OthersEnded
  <2> QED
    BY <2>1, <2>2, <2>3 DEF Next
<1>2. ASSUME NEW p \in Pids, pc'[p] \in {"idle", "list"} PROVE Condemned(p)' = {}
  <2>1. pc[p] \in {"idle", "list"}
    <3>1. CASE Tick \/ NewRelease \/ UNCHANGED vars
      BY <1>2, <3>1 DEF Tick, NewRelease, vars
    <3>2. CASE PowerLoss
      BY <1>2, <3>2 DEF PowerLoss, Ended
    <3>3. ASSUME NEW q \in Pids, Command(q) \/ Kill(q) PROVE pc[p] \in {"idle", "list"}
      <4>1. CASE q # p
        BY <1>2, <3>3, <4>1, OthersEnded
      <4>2. CASE q = p
        BY <1>2, <3>3, <4>2 DEF Kill, Command, BeginUpdate, OpenTemp, CopyEnd, WriteFail,
           BeginBuild, BuildEnd, Replace, CheckTarget, Backup, NameTemp, PublishLink,
           PublishRename, PublishFail, Prune, BeginPrune, Start, PruneList, PruneLook,
           PruneDecided, PruneUnlink, PruneEnd, goto
      <4> QED
        BY <4>1, <4>2
    <3> QED
      BY <3>1, <3>2, <3>3 DEF Next
  <2>2. job'[p].doomed = job[p].doomed
    <3>1. ~PruneUnlink(p) /\ \A t \in Stamps : ~PruneLook(p, t)
      BY <2>1 DEF PruneUnlink, PruneLook
    <3> QED
      BY <3>1, DoomedKept
  <2> QED
    BY <2>1, <2>2 DEF SpareInv, Condemned
<1>3. ASSUME NEW p \in Pids, pc'[p] \in Pruning
      PROVE  /\ "prune" \in Ops
             /\ cur'.kind = "link" /\ cur'.to \in Condemned(p)' => ~Exists(cur, named)'
  <2>1. /\ cur' = cur /\ \A t \in Stamps : named'[t] \in {named[t], NoImage}
        /\ pc[p] \in Pruning \/ (pc[p] = "idle" /\ "prune" \in Ops)
    BY <1>3, PruningStep
  <2>2. ASSUME cur.kind = "link", cur.to \in Condemned(p)' PROVE ~Exists(cur, named)
    <3>1. CASE cur.to \in Condemned(p)
      BY <2>1, <2>2, <3>1 DEF SpareInv
    <3>2. CASE cur.to \notin Condemned(p)
      BY <2>2, <3>2, CondemnedStep DEF IsCurrent
    <3> QED
      BY <3>1, <3>2
  <2>3. cur.kind = "link" /\ ~Exists(cur, named) => ~Exists(cur, named)'
    BY <2>1 DEF Exists, Content, NoImage, Entry
  <2> QED
    BY <2>1, <2>2, <2>3 DEF SpareInv
<1> QED
  BY <1>1, <1>2, <1>3 DEF SpareInv

LEMMA SpareInvariant ==
  ASSUME Serial
  PROVE  Spec => []SpareInv
<1>1. Init => SpareInv
  BY NoneCondemned DEF Init, SpareInv, OneActive, Ended, Pruning
<1>2. TypeOK /\ SpareInv /\ [Next]_vars => SpareInv'
  BY SpareStep
<1> QED
  BY <1>1, <1>2, TypeCorrect, PTL DEF Spec

(* So a pruning takes nothing away from x.sfs.                             *)
LEMMA UnlinkSpares ==
  ASSUME TypeOK, SpareInv, NEW p \in Pids, PruneUnlink(p), Exists(cur, named)
  PROVE  Content(cur, named)' = Content(cur, named)
  BY UnlinkStep DEF TypeOK, SpareInv, Pruning, Content, Entry

(* x.sfs resolves, and the process that replaces it has what it needs.     *)
SerialOK(p) ==
  /\ pc[p] \in {"copy", "build", "check", "backup", "name"} => temp[p].st # "none"
  /\ pc[p] \in {"name", "publish"} => ~Present(cur)
  /\ pc[p] = "publish" => named[job[p].stamp].st # "none"
SerialInv == CurrentResolves /\ \A p \in Pids : SerialOK(p)

LEMMA SerialStep ==
  ASSUME TypeOK, SpareInv, SerialInv, [Next]_vars, Serial
  PROVE  SerialInv'
<1> USE DEF TypeOK, goto
<1>1. CASE Tick \/ NewRelease \/ UNCHANGED vars
  BY <1>1 DEF Tick, NewRelease, vars, files, SerialInv, SerialOK, CurrentResolves, Exists, Content,
              Present
<1>2. CASE PowerLoss
  <2>1. \A p \in Pids : SerialOK(p)'
    BY <1>2, PowerStep DEF SerialOK, Ended
  <2>2. CurrentResolves'
    BY <1>2, PowerStep DEF SerialInv, CurrentResolves, Exists, Content, Present, Entry
  <2> QED
    BY <2>1, <2>2 DEF SerialInv
<1>3. ASSUME NEW p \in Pids, Command(p) \/ Kill(p) PROVE SerialInv'
  <2>1. \A q \in Pids : q # p => SerialOK(q)'
    BY <1>3, OthersEnded DEF SerialOK, Ended
  <2> SUFFICES CurrentResolves' /\ SerialOK(p)'
    BY <2>1 DEF SerialInv
  <2>2. CurrentResolves /\ SerialOK(p)
    BY DEF SerialInv
  <2>3. CASE UNCHANGED <<cur, named>> /\ pc'[p] \in Ended \cup Pruning \cup {"open"}
    BY <2>2, <2>3 DEF CurrentResolves, SerialOK, Exists, Content, Present, Ended, Pruning
  <2>4. CASE BeginUpdate(p) \/ PublishFail(p) \/ Kill(p) \/ WriteFail(p)
    BY <2>3, <2>4 DEF BeginUpdate, PublishFail, Kill, WriteFail, files, Ended
  <2>5. CASE OpenTemp(p) \/ BeginBuild(p) \/ CopyEnd(p) \/ BuildEnd(p)
    <3>1. temp'[p].st # "none" /\ UNCHANGED <<cur, named>> /\ pc'[p] \in {"copy", "build", "check"}
      <4>1. CASE CopyEnd(p) \/ BuildEnd(p)
        <5>1. temp'[p].st # "none"
          BY <4>1, Written DEF Image
        <5> QED
          BY <4>1, <5>1 DEF CopyEnd, BuildEnd
      <4>2. CASE OpenTemp(p) \/ BeginBuild(p)
        BY <4>2 DEF OpenTemp, BeginBuild
      <4> QED
        BY <2>5, <4>1, <4>2
    <3> QED
      BY <2>2, <3>1 DEF CurrentResolves, SerialOK, Exists, Content, Present
  <2>6. CASE CheckTarget(p)
    <3>1. /\ UNCHANGED <<cur, named, temp>> /\ pc[p] = "check"
          /\ pc'[p] \in {"backup", "name"} /\ (pc'[p] = "name" => ~Present(cur))
      BY <2>6 DEF CheckTarget, files
    <3> QED
      BY <2>2, <3>1 DEF CurrentResolves, SerialOK, Exists, Content, Present
  <2>7. CASE Backup(p)
    <3>1. /\ ~Present(cur)' /\ UNCHANGED <<named, temp>> /\ pc[p] = "backup"
          /\ pc'[p] \in {"name", "failed"}
      BY <2>7 DEF Backup, Present, NoEntry
    <3> QED
      BY <2>2, <3>1 DEF CurrentResolves, SerialOK, Present
  <2>8. CASE NameTemp(p)
    <3>1. /\ cur' = cur /\ ~Present(cur) /\ pc'[p] = "publish"
          /\ named'[job'[p].stamp].st # "none"
      BY <2>2, <2>8 DEF NameTemp, SerialOK, Job
    <3> QED
      BY <3>1 DEF CurrentResolves, SerialOK, Present
  <2>9. CASE PublishLink(p) \/ PublishRename(p)
    <3>1. Content(cur, named)' = named[job[p].stamp] /\ named[job[p].stamp].st # "none"
      BY <2>2, <2>9 DEF PublishLink, PublishRename, SerialOK, Content, Link, File
    <3> QED
      BY <2>9, <3>1 DEF PublishLink, PublishRename, CurrentResolves, SerialOK, Exists
  <2>10. CASE PruneUnlink(p)
    <3>1. cur' = cur /\ pc'[p] = "unlink"
      BY <2>10, UnlinkStep
    <3>2. Present(cur) => Content(cur, named)' = Content(cur, named)
      BY <2>2, <2>10, UnlinkSpares DEF CurrentResolves
    <3> QED
      BY <2>2, <3>1, <3>2 DEF CurrentResolves, SerialOK, Exists, Present
  <2>11. CASE Prune(p) /\ ~PruneUnlink(p)
    <3>1. pc'[p] \in Ended \cup Pruning
      BY <2>11 DEF Prune, BeginPrune, PruneList, PruneLook, PruneDecided, PruneEnd, Ended, Pruning
    <3> QED
      BY <2>3, <2>11, <3>1, NamesStep
  <2> QED
    BY <1>3, <2>4, <2>5, <2>6, <2>7, <2>8, <2>9, <2>10, <2>11 DEF Command, Replace
<1> QED
  BY <1>1, <1>2, <1>3 DEF Next

LEMMA SerialInvariant ==
  ASSUME Serial
  PROVE  Spec => []SerialInv
<1>1. Init => SerialInv
  BY ZeroStamp DEF Init, SerialInv, SerialOK, CurrentResolves, Exists, Content, Present, First,
                   Link, File
<1>2. TypeOK /\ SpareInv /\ SerialInv /\ [Next]_vars => SerialInv'
  BY SerialStep
<1> QED
  BY <1>1, <1>2, SpareInvariant, TypeCorrect, PTL DEF Spec

-----------------------------------------------------------------------------
(***************************************************************************)
(* Serial, and nothing dies: x.sfs is missing only while it is being       *)
(* replaced, and reads as the newest of all images.                        *)
(***************************************************************************)
Top(i) ==
  /\ \A t \in Stamps : named[t].ver <= i.ver /\ old[t].img.ver <= i.ver
  /\ Present(cur) => Content(cur, named).ver <= i.ver
TopOK(p) ==
  /\ Whole(temp[p]) => pc[p] \in {"check", "backup", "name"}
  /\ pc[p] = "name" => Top(temp[p])
  /\ pc[p] = "publish" => Top(named[job[p].stamp])
TopInv ==
  /\ ~Present(cur) => \E p \in Pids : pc[p] \in {"name", "publish"}
  /\ Present(cur) => Top(Content(cur, named))
  /\ \A p \in Pids : TopOK(p)

LEMMA ImageVersions ==
  ASSUME TypeOK
  PROVE  /\ \A i \in Image : i.ver \in Nat
         /\ \A t \in Stamps : named[t] \in Image /\ old[t].img \in Image
         /\ \A p \in Pids : temp[p] \in Image /\ job[p].stamp \in Stamps /\ job[p].at \in Stamps
         /\ Content(cur, named) \in Image /\ cur.img \in Image
<1> USE DEF TypeOK
<1>1. \A i \in Image : i.ver \in Nat
  BY DEF Image, Stamps
<1>2. \A t \in Stamps : named[t] \in Image /\ old[t].img \in Image
  BY DEF Entry
<1>3. \A p \in Pids : temp[p] \in Image /\ job[p].stamp \in Stamps /\ job[p].at \in Stamps
  BY DEF Job
<1>4. Content(cur, named) \in Image /\ cur.img \in Image
  BY DEF Content, Entry
<1> QED
  BY <1>1, <1>2, <1>3, <1>4

(* What is the newest stays the newest while no newer image gets a name.   *)
LEMMA TopKept ==
  ASSUME TypeOK, NEW i \in Image, Top(i),
         \A t \in Stamps : /\ named'[t] \in {named[t], NoImage}
                           /\ old'[t] \in {old[t], NoEntry},
         Present(cur)' => Present(cur) /\ Content(cur, named)' = Content(cur, named)
  PROVE  Top(i)'
<1>1. i.ver \in Nat /\ NoImage.ver = 0 /\ NoEntry.img.ver = 0
  BY ImageVersions DEF NoImage, NoEntry
<1>2. \A t \in Stamps : named'[t].ver <= i.ver
  BY <1>1 DEF Top
<1>3. \A t \in Stamps : old'[t].img.ver <= i.ver
  BY <1>1 DEF Top
<1> QED
  BY <1>2, <1>3 DEF Top

LEMMA TopInit == Init => TopInv
<1> SUFFICES ASSUME Init PROVE TopInv
  OBVIOUS
<1>1. Present(cur) /\ Content(cur, named).ver = 0
  BY ZeroStamp DEF Init, Present, Content, Link, File, First
<1>2. \A t \in Stamps : named[t].ver = 0 /\ old[t].img.ver = 0
  BY DEF Init, First, NoImage, NoEntry
<1>3. \A p \in Pids : TopOK(p)
  BY DEF Init, TopOK, Whole, NoImage
<1> QED
  BY <1>1, <1>2, <1>3 DEF TopInv, Top

LEMMA TopStep ==
  ASSUME TypeOK, ShapeInv, AgesInv, SpareInv, SerialInv, TopInv, [Next]_vars, Serial, Faults = {}
  PROVE  TopInv'
<1> USE DEF TypeOK, goto
<1>1. CASE Tick \/ NewRelease \/ UNCHANGED vars
  BY <1>1 DEF Tick, NewRelease, vars, files, TopInv, TopOK, Top, Content, Present, Whole
<1>2. ASSUME NEW p \in Pids, Command(p) PROVE TopInv'
  <2>1. \A q \in Pids : q # p =>
          pc[q] \in Ended /\ pc'[q] = pc[q] /\ temp'[q] = temp[q] /\ job'[q] = job[q]
    BY <1>2, OthersEnded
  <2>2. \A q \in Pids : q # p => TopOK(q)' /\ pc[q] \notin {"name", "publish"}
    <3> SUFFICES ASSUME NEW q \in Pids, q # p
                 PROVE  TopOK(q)' /\ pc[q] \notin {"name", "publish"}
      OBVIOUS
    <3>1. pc[q] \in Ended /\ pc'[q] = pc[q] /\ temp'[q] = temp[q]
      BY <2>1
    <3> QED
      BY <3>1 DEF TopInv, TopOK, Ended, Whole
  <2>3. SUFFICES /\ ~Present(cur)' => pc'[p] \in {"name", "publish"}
                 /\ Present(cur)' => Top(Content(cur, named))'
                 /\ TopOK(p)'
    BY <2>2 DEF TopInv, Top
  <2>4. TopOK(p) /\ SerialOK(p) /\ (Present(cur) => Top(Content(cur, named)))
    BY DEF TopInv, SerialInv
  <2>5. ~Present(cur) => pc[p] \in {"name", "publish"}
    BY <2>2 DEF TopInv
  <2>6. CASE UNCHANGED <<cur, named, old>> /\ pc[p] \notin {"name", "publish"}
             /\ (Whole(temp[p])' => pc'[p] \in {"check", "backup"})
             /\ pc'[p] \notin {"name", "publish"}
    BY <2>4, <2>5, <2>6 DEF TopOK, Top, Content, Present
  <2>7. CASE BeginUpdate(p) \/ OpenTemp(p) \/ BeginBuild(p)
    <3>1. ~Whole(temp[p])' /\ pc'[p] \in {"open", "copy", "build"} /\ pc[p] \in {"idle", "open"}
      BY <2>4, <2>7 DEF BeginUpdate, OpenTemp, BeginBuild, Start, TopOK, Whole, files
    <3> QED
      BY <2>6, <2>7, <3>1 DEF BeginUpdate, OpenTemp, BeginBuild, files
  <2>8. CASE CopyEnd(p) \/ BuildEnd(p)
    BY <2>6, <2>8 DEF CopyEnd, BuildEnd
  <2>9. CASE WriteFail(p)
    <3>1. ~Whole(temp[p])'
      BY <2>9 DEF WriteFail, Whole, Image
    <3> QED
      BY <2>6, <2>9, <3>1 DEF WriteFail
  <2>10. CASE CheckTarget(p)
    <3>1. pc'[p] = "backup" /\ pc[p] = "check"
      BY <2>5, <2>10 DEF CheckTarget
    <3> QED
      BY <2>6, <2>10, <3>1 DEF CheckTarget, files
  <2>11. CASE Backup(p)
    <3>1. /\ Present(cur) /\ cur' = NoEntry /\ old' = [old EXCEPT ![job[p].at] = cur]
          /\ UNCHANGED <<named, temp, job>> /\ pc'[p] = "name"
      BY <2>5, <2>11 DEF Backup
    <3>2. Content(cur, named).ver <= temp[p].ver
      BY <2>11 DEF AgesInv, Backup
    <3>3. cur.img.ver <= Content(cur, named).ver
      BY <3>1, ImageVersions DEF ShapeInv, Content, NoImage
    <3>4. \A t \in Stamps : named[t].ver <= temp[p].ver /\ old[t].img.ver <= temp[p].ver
      BY <2>4, <3>1, <3>2, ImageVersions DEF Top
    <3>5. \A t \in Stamps : old'[t].img.ver <= temp[p].ver
      BY <3>1, <3>2, <3>3, <3>4, ImageVersions
    <3>6. ~Present(cur)'
      BY <3>1 DEF Present, NoEntry
    <3> QED
      BY <3>1, <3>4, <3>5, <3>6 DEF TopOK, Top
  <2>12. CASE NameTemp(p)
    <3>1. /\ pc[p] = "name" /\ pc'[p] = "publish" /\ ~Present(cur) /\ Top(temp[p])
          /\ job[p].stamp \in Stamps /\ temp[p] \in Image
      BY <2>4, <2>12, ImageVersions DEF NameTemp, SerialOK, TopOK
    <3>2. /\ \A t \in Stamps : named'[t] \in {named[t], temp[p]}
          /\ UNCHANGED <<cur, old, job>> /\ temp'[p] = NoImage
          /\ named'[job[p].stamp] = temp[p]
      BY <2>12, <3>1 DEF NameTemp
    <3>3. \A t \in Stamps : named'[t].ver <= temp[p].ver /\ old'[t].img.ver <= temp[p].ver
      BY <3>1, <3>2, ImageVersions DEF Top
    <3> QED
      BY <3>1, <3>2, <3>3 DEF TopOK, Top, Present, Whole, NoImage
  <2>13. CASE PublishLink(p) \/ PublishRename(p)
    <3> DEFINE new == named[job[p].stamp]
    <3>1. /\ pc[p] = "publish" /\ pc'[p] = "done" /\ Top(new) /\ new \in Image
          /\ job[p].stamp \in Stamps /\ ~Whole(temp[p])
      BY <2>4, <2>13, ImageVersions DEF PublishLink, PublishRename, TopOK
    <3>2. /\ Present(cur)' /\ Content(cur, named)' = new /\ UNCHANGED <<old, temp>>
          /\ \A t \in Stamps : named'[t] \in {named[t], NoImage}
      BY <2>13 DEF PublishLink, PublishRename, Present, Content, Link, File
    <3>3. \A t \in Stamps : named'[t].ver <= new.ver /\ old'[t].img.ver <= new.ver
      BY <3>1, <3>2, ImageVersions DEF Top, NoImage
    <3>4. ~Whole(temp[p])'
      BY <3>1, <3>2 DEF Whole
    <3> HIDE DEF new
    <3> QED
      BY <3>1, <3>2, <3>3, <3>4, ImageVersions DEF TopOK, Top
  <2>14. ~PublishFail(p)
    BY <2>4 DEF PublishFail, SerialOK
  <2>15. CASE PruneUnlink(p)
    <3>1. pc[p] = "unlink" /\ UNCHANGED <<cur, temp, pc>>
      BY <2>15, UnlinkStep
    <3>2. Present(cur) /\ Exists(cur, named)
      BY <2>5, <3>1 DEF SerialInv, CurrentResolves
    <3>3. Content(cur, named)' = Content(cur, named)
      BY <2>15, <3>2, UnlinkSpares
    <3>4. \A t \in Stamps : named'[t] \in {named[t], NoImage} /\ old'[t] \in {old[t], NoEntry}
      BY <2>15, UnlinkStep
    <3>5. Top(Content(cur, named))'
      <4>1. ASSUME NEW i \in Image, i = Content(cur, named) PROVE Top(i)'
        BY <2>4, <3>2, <3>3, <3>4, <4>1, TopKept
      <4> QED
        BY <3>3, <4>1, ImageVersions DEF Top
    <3> QED
      BY <2>4, <3>1, <3>2, <3>5 DEF TopOK, Present, Whole
  <2>16. CASE Prune(p) /\ ~PruneUnlink(p)
    <3>1. /\ pc[p] \in {"idle", "list", "look", "unlink"} /\ temp' = temp
          /\ pc'[p] \in Ended \cup Pruning
      BY <2>16 DEF Prune, BeginPrune, Start, PruneList, PruneLook, PruneDecided, PruneEnd, files,
                   Ended, Pruning
    <3>2. ~Whole(temp[p])'
      BY <2>4, <3>1 DEF TopOK, Whole
    <3> QED
      BY <2>6, <2>16, <3>1, <3>2, NamesStep DEF Ended, Pruning
  <2> QED
    BY <1>2, <2>7, <2>8, <2>9, <2>10, <2>11, <2>12, <2>13, <2>14, <2>15, <2>16 DEF Command, Replace
<1>3. ~PowerLoss /\ \A p \in Pids : ~Kill(p)
  BY DEF PowerLoss, Kill
<1> QED
  BY <1>1, <1>2, <1>3 DEF Next

LEMMA TopInvariant ==
  ASSUME Serial, Faults = {}
  PROVE  Spec => []TopInv
<1>1. TypeOK /\ AgesInv /\ [Next]_vars => AgesInv'
  BY AgesStep DEF Serial
<1>2. TypeOK /\ ShapeInv /\ AgesInv /\ SpareInv /\ SerialInv /\ TopInv /\ [Next]_vars => TopInv'
  BY TopStep
<1> QED
  BY <1>1, <1>2, AgesInit, TopInit, TypeCorrect, ShapeInvariant, SpareInvariant, SerialInvariant, PTL
  DEF Spec

(* While a pruning deletes, x.sfs reads as a complete image, the newest.    *)
LEMMA TopKeeps ==
  ASSUME StoreInv, SpareInv, SerialInv, TopInv, NEW p \in Pids, pc[p] = "unlink"
  PROVE  /\ Kept(Content(cur, named)) /\ Exists(cur, named)
         /\ \A i \in Images : Whole(i) => i.ver <= Content(cur, named).ver
<1> USE DEF StoreInv, TypeOK
<1>1. \A q \in Pids : pc[q] \notin {"name", "publish"}
  BY WhereActive DEF SpareInv, OneActive
<1>2. Exists(cur, named) /\ Present(cur) /\ Top(Content(cur, named))
  BY <1>1 DEF SerialInv, CurrentResolves, TopInv
<1>3. Kept(Content(cur, named))
  BY <1>2 DEF IntactInv, Exists, Content, Present, Entry
<1>4. ASSUME NEW i \in Images, Whole(i) PROVE i.ver <= Content(cur, named).ver
  BY <1>1, <1>2, <1>4 DEF Images, Arriving, Top
<1> QED
  BY <1>2, <1>3, <1>4

-----------------------------------------------------------------------------
(***************************************************************************)
(* The theorems.  Commands that do not prune need no order, if they agree  *)
(* on whether to link.                                                     *)
(***************************************************************************)
NoPruning == "prune" \notin Ops /\ Agree
Orderly == NoPruning \/ OneUpdate \/ NoLinks \/ Serial

(* x.sfs is never a symlink to nothing.                                    *)
THEOREM Resolves ==
  ASSUME Orderly
  PROVE  Spec => []CurrentResolves
<1>1. CASE NoPruning
  <2>1. ResolvesInv => CurrentResolves
    BY DEF ResolvesInv
  <2>2. Spec => []ResolvesInv
    BY <1>1, ResolvesInvariant DEF NoPruning
  <2> QED
    BY <2>1, <2>2, PTL
<1>2. CASE OneUpdate
  <2>1. RankInv => CurrentResolves
    BY DEF RankInv, CurrentNewest, CurrentResolves
  <2> QED
    BY <1>2, <2>1, RankInvariant, PTL
<1>3. CASE NoLinks
  <2>1. TypeOK /\ FirstInv => CurrentResolves
    BY DEF TypeOK, FirstInv, CurrentResolves, Exists, Content, Present, Entry
  <2> QED
    BY <1>3, <2>1, FirstInvariant, TypeCorrect, PTL
<1>4. CASE Serial
  <2>1. SerialInv => CurrentResolves
    BY DEF SerialInv
  <2> QED
    BY <1>4, <2>1, SerialInvariant, PTL
<1> QED
  BY <1>1, <1>2, <1>3, <1>4 DEF Orderly

-----------------------------------------------------------------------------
(***************************************************************************)
(* While x.sfs is missing, somebody is on the way to put it back.          *)
(***************************************************************************)

(* Who is about to name an image has it.                                   *)
HeldInv == \A p \in Pids : pc[p] \in {"check", "backup", "name"} => temp[p].st # "none"

LEMMA HeldInvariant == Spec => []HeldInv
<1>1. Init => HeldInv
  BY DEF Init, HeldInv
<1>2. TypeOK /\ ShapeInv /\ HeldInv /\ [Next]_vars => HeldInv'
  <2> SUFFICES ASSUME TypeOK, ShapeInv, HeldInv, [Next]_vars, NEW q \in Pids,
                      pc'[q] \in {"check", "backup", "name"}
               PROVE  temp'[q].st # "none"
    BY DEF HeldInv
  <2> USE DEF TypeOK, goto
  <2>1. CASE Tick \/ NewRelease \/ UNCHANGED vars
    BY <2>1 DEF Tick, NewRelease, vars, files, HeldInv
  <2>2. CASE PowerLoss
    BY <2>2 DEF PowerLoss, Ended
  <2>3. ASSUME NEW p \in Pids, Command(p) \/ Kill(p), p # q PROVE temp'[q].st # "none"
    <3>1. pc'[q] = pc[q] /\ temp'[q] = temp[q]
      BY <2>3 DEF Kill, Command, BeginUpdate, OpenTemp, CopyEnd, WriteFail, BeginBuild, BuildEnd,
         Replace, CheckTarget, Backup, NameTemp, PublishLink, PublishRename, PublishFail,
         Prune, BeginPrune, PruneList, PruneLook, PruneDecided, PruneUnlink, PruneEnd, files
    <3> QED
      BY <3>1 DEF HeldInv
  <2>4. CASE CopyEnd(q)
    <3>1. PICK st \in {"durable", "cached", "torn"} : temp' = [temp EXCEPT ![q].st = st]
      BY <2>4, Written
    <3> QED
      BY <3>1, StateType DEF Image
  <2>5. CASE BuildEnd(q)
    BY <2>5, Written DEF Image
  <2>6. CASE CheckTarget(q) \/ Backup(q)
    BY <2>6 DEF CheckTarget, Backup, files, HeldInv
  <2>7. CASE Command(q) /\ ~CopyEnd(q) /\ ~BuildEnd(q) /\ ~CheckTarget(q) /\ ~Backup(q)
    BY <2>7 DEF Command, BeginUpdate, OpenTemp, WriteFail, BeginBuild,
       Replace, NameTemp, PublishLink, PublishRename, PublishFail,
       Prune, BeginPrune, PruneList, PruneLook, PruneDecided, PruneUnlink, PruneEnd
  <2>8. CASE Kill(q)
    BY <2>8 DEF Kill
  <2> QED
    BY <2>1, <2>2, <2>3, <2>4, <2>5, <2>6, <2>7, <2>8 DEF Next
<1> QED
  BY <1>1, <1>2, TypeCorrect, ShapeInvariant, PTL DEF Spec

(* No pruning takes away what a process is about to publish.               *)
Untouched ==
  \A p, q \in Pids : pc[p] = "unlink" /\ pc[q] = "publish" => job[q].stamp \notin Condemned(p)

LEMMA UnderwayStep ==
  ASSUME TypeOK, HeldInv, Untouched, Underway, [Next]_vars
  PROVE  Underway'
<1> USE DEF TypeOK, goto
<1> SUFFICES ASSUME ~Present(cur)' PROVE \E p \in Pids : OnTheWay(p)'
  BY DEF Underway
<1>1. CASE Present(cur)
  <2>1. PICK p \in Pids : Backup(p)
    BY <1>1, GoesByBackup
  <2>2. pc'[p] = "name"
    BY <1>1, <2>1 DEF Backup
  <2> QED
    BY <2>2 DEF OnTheWay
<1>2. CASE ~Present(cur)
  <2>1. PICK p \in Pids : OnTheWay(p)
    BY <1>2 DEF Underway
  <2>2. CASE PowerLoss
    <3>1. pc'[p] = "dead"
      BY <2>1, <2>2 DEF PowerLoss, OnTheWay, Ended
    <3> QED
      BY <3>1 DEF OnTheWay
  <2>3. CASE Tick \/ NewRelease \/ UNCHANGED vars
    BY <2>1, <2>3 DEF Tick, NewRelease, vars, files, OnTheWay
  <2>4. ASSUME NEW q \in Pids, Kill(q) PROVE OnTheWay(p)'
    BY <2>1, <2>4 DEF Kill, OnTheWay
  <2>5. ASSUME NEW q \in Pids, PublishLink(q) \/ PublishRename(q) PROVE FALSE
    BY <2>5 DEF PublishLink, PublishRename, Present, Link, File
  <2>6. ASSUME NEW q \in Pids, NameTemp(q) PROVE OnTheWay(q)' \/ OnTheWay(p)'
    <3>1. /\ named' = [named EXCEPT ![job[q].stamp] = temp[q]] /\ job' = job
          /\ pc' = [pc EXCEPT ![q] = "publish"] /\ temp[q].st # "none" /\ job[q].stamp \in Stamps
      BY <2>6 DEF NameTemp, HeldInv, Job
    <3> QED
      BY <3>1 DEF OnTheWay
  <2>7. ASSUME NEW q \in Pids, PruneUnlink(q) PROVE OnTheWay(p)'
    <3>1. UNCHANGED pc /\ pc[q] = "unlink" /\ job'[p].stamp = job[p].stamp
      BY <2>7, UnlinkStep DEF PruneUnlink, Job
    <3>2. ASSUME pc[p] = "publish" PROVE named'[job[p].stamp] = named[job[p].stamp]
      <4>1. job[p].stamp \in Stamps
        BY DEF Job
      <4> QED
        BY <2>7, <3>1, <3>2, <4>1, UnlinkStep DEF Untouched
    <3> QED
      BY <2>1, <3>1, <3>2 DEF OnTheWay
  <2>8. ASSUME NEW q \in Pids, Command(q), ~NameTemp(q), ~PruneUnlink(q),
               ~PublishLink(q), ~PublishRename(q)
        PROVE  OnTheWay(p)'
    <3>1. named' = named
      BY <2>8, NamesStep DEF Command, BeginUpdate, OpenTemp, CopyEnd, WriteFail, BeginBuild, BuildEnd,
         Replace, CheckTarget, Backup, PublishFail, files
    <3>2. q # p
      BY <1>2, <2>1, <2>8 DEF OnTheWay, Command, Start, BeginUpdate, OpenTemp, CopyEnd, WriteFail,
         BeginBuild, BuildEnd, Replace, CheckTarget, Backup, PublishFail,
         Prune, BeginPrune, PruneList, PruneLook, PruneDecided, PruneEnd
    <3>3. pc'[p] = pc[p] /\ job'[p] = job[p]
      BY <2>8, <3>2 DEF Command, BeginUpdate, OpenTemp, CopyEnd, WriteFail, BeginBuild, BuildEnd,
         Replace, CheckTarget, Backup, PublishFail,
         Prune, BeginPrune, PruneList, PruneLook, PruneDecided, PruneEnd
    <3> QED
      BY <2>1, <3>1, <3>3 DEF OnTheWay
  <2> QED
    BY <2>2, <2>3, <2>4, <2>5, <2>6, <2>7, <2>8 DEF Next
<1> QED
  BY <1>1, <1>2

(***************************************************************************)
(* Whenever x.sfs is missing, some process is about to name an image or to *)
(* publish one that is still there, or one has died: a command that fails  *)
(* never leaves the component without a current image.  With the fairness  *)
(* of Replace this is what Reappears rests on.                             *)
(***************************************************************************)
THEOREM NeverAbandoned ==
  ASSUME Orderly
  PROVE  Spec => []Underway
<1>1. Init => Underway
  BY DEF Init, Underway, Present, Link, File
<1>3. TypeOK /\ HeldInv /\ Untouched /\ Underway /\ [Next]_vars => Underway'
  BY UnderwayStep
<1>4. CASE NoPruning
  <2>1. ResolvesInv => Untouched
    BY <1>4 DEF NoPruning, ResolvesInv, Untouched
  <2>2. Spec => []ResolvesInv
    BY <1>4, ResolvesInvariant DEF NoPruning
  <2> QED
    BY <1>1, <1>3, <2>1, <2>2, HeldInvariant, TypeCorrect, PTL DEF Spec
<1>5. CASE OneUpdate
  <2>1. RankInv => Untouched
    <3> SUFFICES ASSUME RankInv, NEW p \in Pids, NEW q \in Pids, pc[q] = "publish",
                        job[q].stamp \in Condemned(p)
                 PROVE  FALSE
      BY DEF Untouched
    <3>1. job[q].stamp \in Stamps /\ job[q].stamp < job[q].stamp
      BY DEF RankInv, RankOK, Older, Condemned
    <3> QED
      BY <3>1 DEF Stamps
  <2> QED
    BY <1>1, <1>3, <1>5, <2>1, RankInvariant, HeldInvariant, TypeCorrect, PTL DEF Spec
<1>6. CASE NoLinks
  <2>1. FirstInv => Untouched
    BY DEF FirstInv, FirstOK, Untouched
  <2> QED
    BY <1>1, <1>3, <1>6, <2>1, FirstInvariant, HeldInvariant, TypeCorrect, PTL DEF Spec
<1>7. CASE Serial
  <2>1. SpareInv => Untouched
    BY DEF SpareInv, OneActive, Untouched, Ended
  <2> QED
    BY <1>1, <1>3, <1>7, <2>1, SpareInvariant, HeldInvariant, TypeCorrect, PTL DEF Spec
<1> QED
  BY <1>4, <1>5, <1>6, <1>7 DEF Orderly

-----------------------------------------------------------------------------
(***************************************************************************)
(* A directory kept in order keeps a complete image for its readers.  Where*)
(* images are pruned, nothing may die: the backup a dead replace_file made *)
(* is then the only image under a permanent name, and pruning takes it.    *)
(***************************************************************************)
Survives == NoPruning \/ (Orderly /\ Faults = {})

LEMMA CopySurvives ==
  ASSUME DataSafe, Survives
  PROVE  Spec => []CopyInv
<1>1. CASE NoPruning
  BY <1>1, CopyInvariant DEF NoPruning
<1>2. CASE Orderly /\ Faults = {}
  <2>1. StoreInv /\ CurrentResolves /\ Underway /\ NoneDead => CopyInv
    <3> SUFFICES ASSUME StoreInv, CurrentResolves, Underway, NoneDead PROVE CopyInv
      OBVIOUS
    <3> USE DEF StoreInv, TypeOK
    <3>1. CASE Present(cur)
      <4>1. Kept(Content(cur, named))
        BY <3>1 DEF CurrentResolves, IntactInv, Exists, Content, Present, Entry
      <4> QED
        BY <4>1, ImagesMember DEF CopyInv
    <3>2. CASE ~Present(cur)
      <4>1. PICK p \in Pids : OnTheWay(p)
        BY <3>2 DEF Underway
      <4>2. job[p].stamp \in Stamps
        BY DEF Job
      <4> QED
        BY <4>1, <4>2, ImagesMember DEF OnTheWay, NoneDead, IntactInv, CopyInv
    <3> QED
      BY <3>1, <3>2
  <2> QED
    BY <1>2, <2>1, Resolves, NeverAbandoned, NoneDeadInvariant, StoreInvariant, PTL
<1> QED
  BY <1>1, <1>2 DEF Survives

(* The directory never loses the last complete image it has for its        *)
(* readers: where nothing is pruned wherever processes are killed and the  *)
(* power fails, and beside prunings as long as nothing dies.               *)
THEOREM KeepsCopy ==
  ASSUME DataSafe, Survives
  PROVE  Spec => []CopyKept
<1>1. CopyInv => CopyKept
  BY KeptIsWhole DEF CopyInv, CopyKept
<1> QED
  BY <1>1, CopySurvives, PTL

(* The commands implement SfsPublish: each step of any of them leaves a    *)
(* complete image on the shelf and shows only a version that already stood *)
(* complete there; without prunings also where it is killed.               *)
THEOREM ImplementsPublish ==
  ASSUME DataSafe, Survives
  PROVE  Spec => PublishSpec
  BY CopySurvives, PublishImplied, PTL

(* Pruning leaves what x.sfs reads as alone: nothing it has condemned is   *)
(* the image behind the current link, also if it became current since.     *)
THEOREM CurrentSpared ==
  ASSUME OneUpdate \/ NoLinks \/ Serial
  PROVE  Spec => PruneSparesCurrent
<1> DEFINE Spared == (\E p \in Pids : pc[p] = "unlink" /\ job'[p] # job[p]) /\ Exists(cur, named)
                       => Content(cur, named)' = Content(cur, named)
<1>1. ASSUME TypeOK, [Next]_vars,
             \A p \in Pids : cur.kind = "link" /\ Exists(cur, named) => cur.to \notin Condemned(p)
      PROVE  Spared
  <2> SUFFICES ASSUME NEW p \in Pids, pc[p] = "unlink", job'[p] # job[p], Exists(cur, named)
               PROVE  Content(cur, named)' = Content(cur, named)
    OBVIOUS
  <2>1. PruneUnlink(p)
    BY <1>1, Unlinks
  <2> QED
    BY <1>1, <2>1, UnlinkStep DEF TypeOK, Content, Entry
<1>2. CASE OneUpdate
  <2>1. TypeOK /\ RankInv /\ [Next]_vars => [Spared]_vars
    <3> SUFFICES ASSUME TypeOK, RankInv, [Next]_vars PROVE Spared
      OBVIOUS
    <3>1. ASSUME NEW p \in Pids, cur.kind = "link", Exists(cur, named) PROVE cur.to \notin Condemned(p)
      <4>1. named[cur.to].ver = cur.to /\ cur.to \in Stamps
        BY <3>1 DEF TypeOK, RankInv, NamedByVersion, Exists, Content, Entry
      <4>2. \A t \in Condemned(p) : t < cur.to
        BY <3>1, <4>1 DEF RankInv, CurrentNewest, Older, Present, Content
      <4> QED
        BY <4>1, <4>2 DEF Stamps
    <3> QED
      BY <1>1, <3>1
  <2> QED
    BY <1>2, <2>1, RankInvariant, TypeCorrect, PTL DEF Spec, PruneSparesCurrent
<1>3. CASE NoLinks
  <2>1. TypeOK /\ FirstInv /\ [Next]_vars => [Spared]_vars
    BY <1>1 DEF FirstInv
  <2> QED
    BY <1>3, <2>1, FirstInvariant, TypeCorrect, PTL DEF Spec, PruneSparesCurrent
<1>4. CASE Serial
  <2>1. TypeOK /\ SpareInv /\ [Next]_vars => [Spared]_vars
    <3> SUFFICES ASSUME TypeOK, SpareInv, [Next]_vars,
                        NEW p \in Pids, pc[p] = "unlink", job'[p] # job[p], Exists(cur, named)
                 PROVE  Content(cur, named)' = Content(cur, named)
      OBVIOUS
    <3> QED
      BY Unlinks, UnlinkSpares
  <2> QED
    BY <1>4, <2>1, SpareInvariant, TypeCorrect, PTL DEF Spec, PruneSparesCurrent
<1> QED
  BY <1>2, <1>3, <1>4

(* As long as nothing dies, pruning deletes an image only if the directory *)
(* has another complete one at least as new for its readers: a backup is   *)
(* older than what x.sfs reads as or, in the middle of an update, is about *)
(* to read as.                                                             *)
THEOREM PrunesOnlyOld ==
  ASSUME DataSafe, OneUpdate \/ Serial, Faults = {}
  PROVE  Spec => PruneDeletesOnlyOld
<1> DEFINE OnlyOld == \A p \in Pids : pc[p] = "unlink" /\ job'[p] # job[p] =>
                        \A v \in shelf : \E w \in shelf' : v <= w
<1>1. CASE OneUpdate
  <2>1. StoreInv /\ RankInv /\ Underway /\ NoneDead /\ [Next]_vars => [OnlyOld]_vars
    <3> SUFFICES ASSUME StoreInv, RankInv, Underway, NoneDead, [Next]_vars,
                        NEW p \in Pids, pc[p] = "unlink", job'[p] # job[p], NEW v \in shelf
                 PROVE  \E w \in shelf' : v <= w
      OBVIOUS
    <3>1. PruneUnlink(p)
      BY Unlinks DEF StoreInv
    <3>2. PICK i \in Images : Kept(i) /\ i.ver \in Stamps /\ Older(i.ver)
      BY NewestKept
    <3>3. i.ver \in shelf' /\ (v \in shelf' \/ v <= i.ver)
      BY <3>1, <3>2, PruneOfOlder DEF RankInv
    <3>4. v \in Nat
      BY DEF shelf, Stamps
    <3> QED
      BY <3>3, <3>4
  <2> QED
    BY <1>1, <2>1, RankInvariant, NeverAbandoned, NoneDeadInvariant, StoreInvariant, PTL
    DEF Orderly, Spec, PruneDeletesOnlyOld
<1>2. CASE Serial
  <2>1. StoreInv /\ SpareInv /\ SerialInv /\ TopInv /\ [Next]_vars => [OnlyOld]_vars
    <3> SUFFICES ASSUME StoreInv, SpareInv, SerialInv, TopInv, [Next]_vars,
                        NEW p \in Pids, pc[p] = "unlink", job'[p] # job[p], NEW v \in shelf
                 PROVE  \E w \in shelf' : v <= w
      OBVIOUS
    <3>1. PruneUnlink(p)
      BY Unlinks DEF StoreInv
    <3> DEFINE i == Content(cur, named)
    <3>2. Kept(i) /\ Exists(cur, named) /\ \A j \in Images : Whole(j) => j.ver <= i.ver
      BY TopKeeps
    <3>3. i' = i /\ i' \in Images' /\ i.ver \in Stamps
      BY <3>1, <3>2, UnlinkSpares, ImageVersions DEF StoreInv, Images, Image
    <3>4. i.ver \in shelf'
      BY <3>2, <3>3, KeptIsWhole DEF shelf, Whole
    <3>5. v <= i.ver
      BY <3>2 DEF shelf
    <3> QED
      BY <3>4, <3>5
  <2> QED
    BY <1>2, <2>1, SpareInvariant, SerialInvariant, TopInvariant, StoreInvariant, PTL
    DEF Spec, PruneDeletesOnlyOld
<1> QED
  BY <1>1, <1>2

=============================================================================
