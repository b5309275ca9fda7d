--------------------------- MODULE RebuildProofs ---------------------------
(***************************************************************************)
(* Theorems about Rebuild, for any number of processes, commits, seconds   *)
(* and build scripts.                                                      *)
(***************************************************************************)
EXTENDS Rebuild, FiniteSetTheorems, TLAPS

USE GitAssumption, RebuildAssumption

(***************************************************************************)
(* Types.  That the scripts of a build are never counted beyond their      *)
(* number depends on where the build is.                                   *)
(***************************************************************************)
BeforeRun == {"pull2", "clone2", "dest"}
WhileRun == {"container", "start", "apt", "run"}
AfterRun == {"label", "squash", "publish"}
Whole(i) == ~i.torn => i.scripts = NScripts
RanOK(l, j) ==
  /\ l \in BeforeRun => j.new.ran = 0
  /\ l \in WhileRun => j.new.ran < j.new.scripts
  /\ l \in AfterRun => j.new.ran = j.new.scripts
  /\ Whole(j.img) /\ Whole(j.new)
RanInv ==
  /\ img.ran = img.scripts /\ Whole(img)
  /\ \A p \in Procs : RanOK(pc[p], job[p])
TypeInv == TypeOK /\ RanInv

LEMMA ZeroTypes == 0 \in Commits /\ 0 \in Times /\ First \in Image /\ NoJob \in Job
  BY DEF Commits, Times, First, Image, NoJob, Job, NoCommit

LEMMA FirstWhole == First.ran = First.scripts /\ Whole(First) /\ Whole(NoJob.img) /\ Whole(NoJob.new)
  BY DEF First, NoJob, Whole

LEMMA TypeInit == Init => TypeInv
<1> SUFFICES ASSUME Init PROVE TypeInv
  OBVIOUS
<1>1. GitTypeOK
  BY ZeroTypes DEF Init, GitInit, GitTypeOK, Repo, Checkouts
<1>2. \A s \in Times : Booted(s) \in Int
  BY DEF Booted
<1>3. TypeOK
  BY <1>1, <1>2, ZeroTypes DEF Init, TypeOK, PCs, Things
<1>4. RanInv
  BY FirstWhole DEF Init, RanInv, RanOK, BeforeRun, WhileRun, AfterRun
<1> QED
  BY <1>3, <1>4 DEF TypeInv

(* The checkouts keep their types, whatever is done to one of them.        *)
LEMMA CheckoutTypes ==
  ASSUME TypeOK, NEW p \in Procs
  PROVE  Checked(job[p]) \in Checkouts /\ Built(job[p]) \in Checkouts
  BY DEF TypeOK, Job, Image, Checked, Built, Checkouts

(* What dl_file_git may do to checkout c.                                  *)
Touches(c, t) ==
  \/ UNCHANGED repo
  \/ \E st \in {"none", "cloning", "broken", "ready"} : MarkAs(c, st)
  \/ HasTip(c, t)

LEMMA GitMoves ==
  ASSUME NEW p \in Procs, DlFileGit(p) \/ Kill(p)
  PROVE  /\ UNCHANGED <<clock, head, ctime>>
         /\ \E c \in {Checked(job[p]), Built(job[p])} : Touches(c, Tip(c))
  BY DEF DlFileGit, Pull, Clone, Kill, PullSucceeds, PullFails, BeginClone, EndClone, AbortClone,
         KillClone, There, Touches

LEMMA TipType ==
  ASSUME TypeOK, NEW c PROVE Tip(c) \in {head, 0} /\ Tip(c) \in Commits
  BY ZeroTypes DEF Tip, TypeOK, GitTypeOK

LEMMA RepoType ==
  ASSUME TypeOK, NEW p \in Procs, DlFileGit(p) \/ Kill(p)
  PROVE  /\ repo' \in [Checkouts -> Repo] /\ UNCHANGED <<clock, head, ctime>>
         /\ \A c \in Checkouts : repo'[c].at \in {repo[c].at, Tip(c)}
<1>1. PICK c \in Checkouts : Touches(c, Tip(c))
  BY CheckoutTypes, GitMoves
<1>2. Tip(c) \in {head, 0} /\ Tip(c) \in Commits
  BY TipType
<1>3. repo \in [Checkouts -> Repo] /\ repo[c] \in Repo
  BY DEF TypeOK, GitTypeOK
<1>4. repo' = repo \/ \E r \in Repo : r.at \in {repo[c].at, Tip(c)} /\ repo' = [repo EXCEPT ![c] = r]
  <2>1. CASE HasTip(c, Tip(c))
    <3>1. [st |-> "ready", at |-> Tip(c)] \in Repo
      BY <1>2 DEF Repo
    <3> QED
      BY <2>1, <3>1 DEF HasTip
  <2>2. ASSUME NEW st \in {"none", "cloning", "broken", "ready"}, MarkAs(c, st)
        PROVE  \E r \in Repo : r.at = repo[c].at /\ repo' = [repo EXCEPT ![c] = r]
    <3>1. [repo[c] EXCEPT !.st = st] \in Repo /\ [repo[c] EXCEPT !.st = st].at = repo[c].at
      BY <1>3 DEF Repo
    <3>2. repo' = [repo EXCEPT ![c] = [repo[c] EXCEPT !.st = st]]
      BY <1>3, <2>2 DEF MarkAs
    <3> QED
      BY <3>1, <3>2
  <2> QED
    BY <1>1, <2>1, <2>2 DEF Touches
<1>5. repo' \in [Checkouts -> Repo]
  BY <1>3, <1>4
<1>6. \A d \in Checkouts : repo'[d].at \in {repo[d].at, Tip(d)}
  BY <1>2, <1>3, <1>4
<1> QED
  BY <1>5, <1>6, GitMoves

(* A process moves to l and its local variables become j.                  *)
LEMMA Moved ==
  ASSUME TypeOK, NEW p \in Procs, NEW l \in PCs, NEW j \in Job,
         goto(p, l), job' = [job EXCEPT ![p] = j]
  PROVE  /\ pc' \in [Procs -> PCs] /\ pc'[p] = l
         /\ job' \in [Procs -> Job] /\ job'[p] = j
         /\ \A q \in Procs : q # p => pc'[q] = pc[q] /\ job'[q] = job[q]
  BY DEF TypeOK, goto

LEMMA TypeMoved ==
  ASSUME TypeInv, NEW p \in Procs, NEW l \in PCs, NEW j \in Job,
         goto(p, l), job' = [job EXCEPT ![p] = j], RanOK(l, j),
         GitTypeOK', UNCHANGED world,
         img' \in Image, img'.ran = img'.scripts, Whole(img'),
         mounted' \in [Times -> Int], owned' \in [Procs -> SUBSET Times],
         target' \in {"ro", "rw"}, held' \in [Procs -> SUBSET Things]
  PROVE  TypeInv'
<1>1. TypeOK'
  BY Moved DEF TypeInv, TypeOK
<1>2. RanInv'
  <2>1. ASSUME NEW q \in Procs PROVE RanOK(pc[q], job[q])'
    <3>1. CASE q = p
      BY <3>1, Moved DEF TypeInv
    <3>2. CASE q # p
      <4>1. RanOK(pc[q], job[q]) /\ pc'[q] = pc[q] /\ job'[q] = job[q]
        BY <3>2, Moved DEF TypeInv, RanInv
      <4> QED
        BY <4>1
    <3> QED
      BY <3>1, <3>2
  <2> QED
    BY <2>1 DEF RanInv
<1> QED
  BY <1>1, <1>2 DEF TypeInv

(* The images a build begins with.                                         *)
LEMMA FreshImage ==
  ASSUME NEW e \in BOOLEAN
  PROVE  Blank(e) \in Image /\ Blank(e).ran = 0 /\ Whole(Blank(e))
<1>1. 0 \in 0..NScripts /\ First \in Image
  BY ZeroTypes
<1>2. \A i \in Image, r \in 0..NScripts :
        LET n == [i EXCEPT !.label = NoCommit, !.env = e, !.ran = r]
        IN  n \in Image /\ n.ran = r /\ (Whole(i) => Whole(n))
  BY DEF Image, Whole
<1> QED
  BY <1>1, <1>2, FirstWhole DEF Blank

(* The local variables of p after a step of a build.                       *)
Becomes(p, l, j) == goto(p, l) /\ job' = [job EXCEPT ![p] = j] /\ RanOK(l, j)

LEMMA BuildMoves ==
  ASSUME TypeInv, NEW p \in Procs, Build(p)
  PROVE  \E l \in PCs, j \in Job : Becomes(p, l, j)
<1> USE DEF At, Fail, Becomes
<1>1. TypeOK /\ job[p] \in Job /\ job[p].new \in Image /\ job[p].img \in Image
      /\ RanOK(pc[p], job[p]) /\ pc[p] \in PCs
  BY DEF TypeInv, TypeOK, RanInv, Job
<1>2. ASSUME NEW l \in PCs, goto(p, l), UNCHANGED job, RanOK(l, job[p])
      PROVE  \E j \in Job : Becomes(p, l, j)
  BY <1>1, <1>2 DEF TypeOK
<1>3. ASSUME NEW l \in PCs, goto(p, l), NEW n \in Image, job' = [job EXCEPT ![p].new = n],
             RanOK(l, [new |-> n, img |-> job[p].img])
      PROVE  \E j \in Job : Becomes(p, l, j)
  <2> DEFINE j == [job[p] EXCEPT !.new = n]
  <2>1. j \in Job /\ j.new = n /\ j.img = job[p].img
    BY <1>1 DEF Job
  <2>2. job' = [job EXCEPT ![p] = j]
    BY <1>1, <1>3 DEF TypeOK
  <2>3. RanOK(l, j)
    BY <1>3, <2>1 DEF RanOK
  <2> QED
    BY <1>3, <2>1, <2>2, <2>3
<1>4. CASE InitBuilder(p)
  <2> DEFINE n == Blank(MountThere(p) /\ job[p].img.env)
  <2>1. n \in Image /\ n.ran = 0 /\ Whole(n)
    <3>1. (MountThere(p) /\ job[p].img.env) \in BOOLEAN
      OBVIOUS
    <3> QED
      BY <3>1, FreshImage
  <2>2. job' = [job EXCEPT ![p].new = n] /\ \E l \in {"pull2", "dest"} : goto(p, l)
    BY <1>4 DEF InitBuilder
  <2>3. RanOK("pull2", [new |-> n, img |-> job[p].img]) /\ RanOK("dest", [new |-> n, img |-> job[p].img])
    <3> HIDE DEF n
    <3> QED
      BY <1>1, <2>1 DEF RanOK, WhileRun, AfterRun
  <2> HIDE DEF n
  <2> QED
    BY <1>3, <2>1, <2>2, <2>3 DEF PCs
<1>5. CASE DestFromSource(p)
  <2> DEFINE c == Built(job[p])
  <2>1. repo[c].at \in Commits /\ pc[p] = "dest"
    BY <1>1, <1>5, CheckoutTypes DEF TypeOK, GitTypeOK, Repo, DestFromSource
  <2>2. CASE \E torn \in {~Ready(c), ~Ready(c) \/ May("fail")}, scripts \in 0..NScripts :
                 /\ ~torn => scripts = NScripts
                 /\ job' = [job EXCEPT ![p].new.from = HeadOf(c), ![p].new.torn = torn,
                                       ![p].new.scripts = scripts]
                 /\ BuildWith(p, scripts)
    <3>1. PICK torn \in BOOLEAN, scripts \in 0..NScripts :
                 /\ ~torn => scripts = NScripts
                 /\ job' = [job EXCEPT ![p].new.from = HeadOf(c), ![p].new.torn = torn,
                                       ![p].new.scripts = scripts]
                 /\ BuildWith(p, scripts)
      <4>1. {~Ready(c), ~Ready(c) \/ May("fail")} \subseteq BOOLEAN
        OBVIOUS
      <4> QED
        BY <2>2, <4>1
    <3> DEFINE n == [job[p].new EXCEPT !.from = repo[c].at, !.torn = torn, !.scripts = scripts]
    <3>2. n \in Image /\ n.ran = job[p].new.ran /\ n.scripts = scripts /\ n.torn = torn
      BY <1>1, <2>1 DEF Image
    <3>3. job' = [job EXCEPT ![p].new = n]
      BY <1>1, <3>1 DEF TypeOK, Job, Image, HeadOf
    <3>4. /\ scripts # 0 => goto(p, "container") /\ RanOK("container", [new |-> n, img |-> job[p].img])
          /\ scripts = 0 => goto(p, "label") /\ RanOK("label", [new |-> n, img |-> job[p].img])
      <4> HIDE DEF n
      <4> QED
        BY <1>1, <2>1, <3>1, <3>2 DEF RanOK, BeforeRun, WhileRun, AfterRun, Whole, BuildWith
    <3> HIDE DEF n
    <3> QED
      BY <1>3, <3>2, <3>3, <3>4 DEF PCs
  <2>3. CASE goto(p, "clean") /\ UNCHANGED job
    BY <1>1, <1>2, <2>3 DEF RanOK, BeforeRun, WhileRun, AfterRun, PCs
  <2> QED
    BY <1>5, <2>2, <2>3 DEF DestFromSource
<1>6. CASE DestFromImage(p)
  <2> DEFINE there == MountThere(p)
             scripts == IF there THEN job[p].img.scripts ELSE 0
             label == IF there THEN job[p].img.label ELSE NoCommit
             env == job[p].new.env \/ (there /\ job[p].img.env)
             torn == job[p].img.torn \/ ~there
             n == [job[p].img EXCEPT !.label = label, !.env = env, !.torn = torn,
                                     !.scripts = scripts, !.ran = 0]
  <2>1. /\ there \in BOOLEAN /\ env \in BOOLEAN /\ torn \in BOOLEAN
        /\ scripts \in 0..NScripts /\ 0 \in 0..NScripts /\ label \in Commits \cup {NoCommit}
    <3>1. there \in BOOLEAN /\ env \in BOOLEAN /\ torn \in BOOLEAN
      BY DEF MountThere
    <3>2. job[p].img.scripts \in 0..NScripts /\ job[p].img.label \in Commits \cup {NoCommit}
      BY <1>1 DEF Image
    <3> HIDE DEF there
    <3>3. scripts \in 0..NScripts /\ 0 \in 0..NScripts /\ label \in Commits \cup {NoCommit}
      BY <3>2
    <3> HIDE DEF scripts, label, env, torn
    <3> QED
      BY <3>1, <3>3
  <2>2. /\ n \in Image /\ n.ran = 0 /\ n.scripts = scripts /\ Whole(n)
    <3>1. ~torn => scripts = NScripts
      BY <1>1 DEF RanOK, Whole
    <3> HIDE DEF there, scripts, label, env, torn
    <3> QED
      BY <1>1, <2>1, <3>1 DEF Image, Whole
  <2>3. job' = [job EXCEPT ![p].new = n] /\ BuildWith(p, scripts)
    BY <1>6, Zenon DEF DestFromImage
  <2>4. /\ scripts # 0 => goto(p, "container") /\ RanOK("container", [new |-> n, img |-> job[p].img])
        /\ scripts = 0 => goto(p, "label") /\ RanOK("label", [new |-> n, img |-> job[p].img])
    <3> HIDE DEF n, scripts
    <3> QED
      BY <1>1, <2>1, <2>2, <2>3 DEF RanOK, BeforeRun, WhileRun, AfterRun, BuildWith
  <2> HIDE DEF n, scripts
  <2> QED
    BY <1>3, <2>2, <2>3, <2>4 DEF PCs
<1>7. CASE Container(p) \/ Start(p)
  <2>1. UNCHANGED job /\ pc[p] \in {"container", "start"}
        /\ \E l \in {"start", "apt", "run", "clean"} : goto(p, l)
    BY <1>7 DEF Container, Start
  <2>2. \A l \in {"start", "apt", "run", "clean"} : RanOK(l, job[p])
    BY <1>1, <2>1 DEF RanOK, BeforeRun, WhileRun, AfterRun
  <2> QED
    BY <1>2, <2>1, <2>2 DEF PCs
<1>8. CASE Run(p)
  <2>1. CASE AttachFails(p)
    <3>1. goto(p, "clean") /\ UNCHANGED job /\ RanOK("clean", job[p])
      BY <1>1, <2>1 DEF AttachFails, RanOK, BeforeRun, WhileRun, AfterRun
    <3> QED
      BY <1>2, <3>1 DEF PCs
  <2>2. CASE At(p, "apt") /\ job' = [job EXCEPT ![p].apt = TRUE] /\ goto(p, "start")
    <3> DEFINE j == [job[p] EXCEPT !.apt = TRUE]
    <3>1. j \in Job /\ j.new = job[p].new /\ j.img = job[p].img
      BY <1>1 DEF Job
    <3>2. job' = [job EXCEPT ![p] = j]
      BY <1>1, <2>2 DEF TypeOK
    <3>3. RanOK("start", j)
      BY <1>1, <2>2, <3>1 DEF RanOK, BeforeRun, WhileRun, AfterRun
    <3> QED
      BY <2>2, <3>1, <3>2, <3>3 DEF PCs
  <2>3. CASE /\ At(p, "run") /\ job' = [job EXCEPT ![p].new.ran = @ + 1]
             /\ goto(p, IF job[p].new.ran + 1 < job[p].new.scripts THEN "start" ELSE "label")
    <3> DEFINE n == [job[p].new EXCEPT !.ran = @ + 1]
               s == job[p].new.scripts
    <3>1. job[p].new.ran < s /\ job[p].new.ran \in 0..NScripts /\ s \in 0..NScripts
      BY <1>1, <2>3 DEF RanOK, WhileRun, Image
    <3>2. /\ n \in Image /\ n.ran = job[p].new.ran + 1
          /\ n.scripts = s /\ n.torn = job[p].new.torn
      BY <1>1, <3>1 DEF Image
    <3>3. job' = [job EXCEPT ![p].new = n]
      BY <1>1, <2>3 DEF TypeOK, Job, Image
    <3>4. /\ job[p].new.ran + 1 < s => RanOK("start", [new |-> n, img |-> job[p].img])
          /\ ~(job[p].new.ran + 1 < s) => RanOK("label", [new |-> n, img |-> job[p].img])
      <4> HIDE DEF n
      <4> QED
        BY <1>1, <3>1, <3>2 DEF RanOK, BeforeRun, WhileRun, AfterRun, Whole
    <3> HIDE DEF n
    <3> QED
      BY <1>3, <2>3, <3>2, <3>3, <3>4 DEF PCs
  <2> QED
    BY <1>8, <2>1, <2>2, <2>3 DEF Run, Attach
<1>9. CASE Label(p)
  <2> DEFINE c == Built(job[p])
             upstream == IF c = "branch" \/ ~world.side THEN "branch" ELSE "default"
             n == [job[p].new EXCEPT !.label = repo[c].at, !.branch = upstream]
  <2>1. /\ n \in Image /\ n.ran = job[p].new.ran /\ n.scripts = job[p].new.scripts
        /\ n.torn = job[p].new.torn
    BY <1>1, CheckoutTypes DEF TypeOK, GitTypeOK, Repo, Image
  <2>2. pc[p] = "label" /\ (goto(p, "squash") \/ goto(p, "clean"))
    BY <1>9 DEF Label
  <2>3. CASE UNCHANGED job
    <3>1. RanOK("squash", job[p]) /\ RanOK("clean", job[p])
      BY <1>1, <2>2 DEF RanOK, BeforeRun, WhileRun, AfterRun
    <3> QED
      BY <1>2, <2>2, <2>3, <3>1 DEF PCs
  <2>4. CASE job' = [job EXCEPT ![p].new.label = HeadOf(c), ![p].new.branch = upstream]
             /\ goto(p, "squash")
    <3>1. job' = [job EXCEPT ![p].new = n]
      BY <1>1, <2>4 DEF TypeOK, Job, Image, HeadOf
    <3>2. RanOK("squash", [new |-> n, img |-> job[p].img])
      <4> HIDE DEF n
      <4> QED
        BY <1>1, <2>1, <2>2 DEF RanOK, BeforeRun, WhileRun, AfterRun, Whole
    <3> HIDE DEF n
    <3> QED
      BY <1>3, <2>1, <2>4, <3>1, <3>2 DEF PCs
  <2> QED
    BY <1>9, <2>3, <2>4 DEF Label
<1>10. CASE Squash(p)
  <2>1. CASE goto(p, "publish") /\ job' = [job EXCEPT ![p].new.stamp = clock]
    <3> DEFINE n == [job[p].new EXCEPT !.stamp = clock]
    <3>1. /\ n \in Image /\ n.ran = job[p].new.ran /\ n.scripts = job[p].new.scripts
          /\ n.torn = job[p].new.torn
      BY <1>1 DEF TypeOK, GitTypeOK, Image
    <3>2. job' = [job EXCEPT ![p].new = n]
      BY <1>1, <2>1 DEF TypeOK, Job, Image
    <3>3. RanOK("publish", [new |-> n, img |-> job[p].img])
      <4> HIDE DEF n
      <4> QED
        BY <1>1, <1>10, <3>1 DEF Squash, RanOK, BeforeRun, WhileRun, AfterRun, Whole
    <3> HIDE DEF n
    <3> QED
      BY <1>3, <2>1, <3>1, <3>2, <3>3 DEF PCs
  <2>2. CASE UNCHANGED pc /\ job' = [job EXCEPT ![p].remounted = TRUE]
    <3> DEFINE j == [job[p] EXCEPT !.remounted = TRUE]
    <3>1. j \in Job /\ j.new = job[p].new /\ j.img = job[p].img
      BY <1>1 DEF Job
    <3>2. job' = [job EXCEPT ![p] = j] /\ goto(p, pc[p])
      BY <1>1, <2>2 DEF TypeOK, goto
    <3>3. RanOK(pc[p], j)
      BY <1>1, <3>1 DEF RanOK
    <3> QED
      BY <1>1, <3>1, <3>2, <3>3
  <2>3. CASE goto(p, "clean") /\ UNCHANGED job
    <3>1. RanOK("clean", job[p])
      BY <1>1 DEF RanOK, BeforeRun, WhileRun, AfterRun
    <3> QED
      BY <1>2, <2>3, <3>1 DEF PCs
  <2> QED
    BY <1>10, <2>1, <2>2, <2>3 DEF Squash
<1>11. CASE Publish(p) \/ Restore(p)
  <2>1. UNCHANGED job /\ \E l \in {"restore", "clean"} : goto(p, l)
    BY <1>11 DEF Publish, Restore
  <2>2. \A l \in {"restore", "clean"} : RanOK(l, job[p])
    BY <1>1 DEF RanOK, BeforeRun, WhileRun, AfterRun
  <2> QED
    BY <1>2, <2>1, <2>2 DEF PCs
<1> QED
  BY <1>4, <1>5, <1>6, <1>7, <1>8, <1>9, <1>10, <1>11 DEF Build

LEMMA BuildSystem ==
  ASSUME TypeInv, NEW p \in Procs, Build(p)
  PROVE  /\ UNCHANGED <<git, world>>
         /\ img' \in Image /\ img'.ran = img'.scripts /\ Whole(img')
         /\ mounted' \in [Times -> Int] /\ owned' \in [Procs -> SUBSET Times]
         /\ target' \in {"ro", "rw"} /\ held' \in [Procs -> SUBSET Things]
<1> USE DEF TypeInv, TypeOK, system
<1>1. CASE UNCHANGED system
  BY <1>1 DEF RanInv
<1>2. CASE \/ DestFromSource(p) \/ DestFromImage(p) \/ Container(p) \/ Start(p)
           \/ Squash(p) \/ Restore(p)
  <2>1. UNCHANGED <<git, world, img, mounted, owned>> /\ target' \in {"ro", "rw"}
    BY <1>2 DEF DestFromSource, DestFromImage, Container, Start, Squash, Restore
  <2>2. held' = held \/ \E h \in SUBSET Things : Hold(p, h)
    BY <1>2 DEF DestFromSource, DestFromImage, Container, Start, Squash, Restore, Things
  <2>3. held' \in [Procs -> SUBSET Things]
    BY <2>2 DEF Hold
  <2> QED
    BY <2>1, <2>3 DEF RanInv
<1>3. CASE Publish(p)
  <2>1. UNCHANGED <<git, world, target, held>> /\ img' \in {img, job[p].new}
    BY <1>3 DEF Publish
  <2>2. mounted' \in [Times -> Int] /\ owned' \in [Procs -> SUBSET Times]
    BY <1>3 DEF Publish, Unmount
  <2>3. job[p].new \in Image /\ job[p].new.ran = job[p].new.scripts /\ Whole(job[p].new)
    BY <1>3 DEF Publish, At, Job, RanInv, RanOK, AfterRun
  <2> QED
    BY <2>1, <2>2, <2>3 DEF RanInv
<1> QED
  BY <1>1, <1>2, <1>3 DEF Build, InitBuilder, Run, Label

LEMMA TypeStep == TypeInv /\ [Next]_vars => TypeInv'
<1> SUFFICES ASSUME TypeInv, [Next]_vars PROVE TypeInv'
  OBVIOUS
<1> USE DEF TypeInv, vars, goto, At, Fail, system, git
<1>1. CASE UNCHANGED vars
  BY <1>1 DEF TypeOK, GitTypeOK, RanInv
<1>2. CASE Time \/ Commit
  <2>1. GitTypeOK'
    <3>1. CASE Time
      BY <3>1 DEF Time, Tick, TypeOK, GitTypeOK, Times
    <3>2. CASE Commit
      <4>1. PICK when \in Times : Push(when)
        BY <3>2 DEF Commit
      <4>2. head' \in Commits
        BY <4>1 DEF Push, TypeOK, GitTypeOK, Commits
      <4>3. ctime' \in [Commits -> Times]
        BY <4>1 DEF Push, TypeOK, GitTypeOK
      <4> QED
        BY <4>1, <4>2, <4>3 DEF Push, TypeOK, GitTypeOK
    <3> QED
      BY <1>2, <3>1, <3>2
  <2> QED
    BY <1>2, <2>1 DEF Time, Commit, TypeOK, RanInv
<1>3. CASE Import
  <2>1. img' \in Image /\ img'.ran = img'.scripts /\ Whole(img')
    <3>1. PICK c \in img.from..head, s \in (img.stamp + 1)..clock :
            img' = Other(c, s)
      BY <1>3 DEF Import
    <3>2. img.from \in Commits /\ img.stamp \in Times /\ head \in Commits /\ clock \in Times
      BY DEF TypeOK, GitTypeOK, Image
    <3>3. c \in Commits /\ s \in Times
      BY <3>2 DEF Commits, Times
    <3>4. \A i \in Image :
            LET n == [i EXCEPT !.from = c, !.label = c, !.stamp = s]
            IN  n \in Image /\ n.ran = i.ran /\ n.scripts = i.scripts /\ n.torn = i.torn
      BY <3>3 DEF Image
    <3> QED
      BY <3>1, <3>4, ZeroTypes, FirstWhole DEF Whole, Other
  <2> QED
    BY <1>3, <2>1 DEF Import, TypeOK, GitTypeOK, RanInv
<1>4. ASSUME NEW p \in Procs, Command(p) \/ ContainerEnds(p) \/ Kill(p) PROVE TypeInv'
  <2>1. CASE DlFileGit(p)
    <3>1. \E l \in PCs : goto(p, l) /\ (l \in BeforeRun => pc[p] \in BeforeRun)
                         /\ l \notin WhileRun \cup AfterRun
      BY <2>1 DEF DlFileGit, Pull, Clone, PCs, BeforeRun, WhileRun, AfterRun
    <3>2. UNCHANGED <<world, img, mounted, owned, target, held, job>>
      BY <2>1 DEF DlFileGit, Pull, Clone
    <3>3. GitTypeOK'
      BY <2>1, RepoType DEF TypeOK, GitTypeOK
    <3>4. PICK l \in PCs : goto(p, l) /\ (l \in BeforeRun => pc[p] \in BeforeRun)
                           /\ l \notin WhileRun \cup AfterRun
      BY <3>1
    <3>5. RanOK(pc[p], job[p]) /\ job[p] \in Job /\ job' = [job EXCEPT ![p] = job[p]]
      BY <3>2 DEF RanInv, TypeOK
    <3>6. RanOK(l, job[p])
      BY <3>4, <3>5 DEF RanOK
    <3>7. img.ran = img.scripts /\ Whole(img)
      BY DEF RanInv
    <3> QED
      BY <3>2, <3>3, <3>4, <3>5, <3>6, <3>7, TypeMoved DEF TypeOK
  <2>2. CASE Check(p)
    <3>1. \E l \in PCs \ (BeforeRun \cup WhileRun \cup AfterRun) : goto(p, l)
      BY <2>2 DEF Check, Visit, Mount, ReadSource, ReadCommit, Head, Stamp, LatestIs, Script,
                  Decide, PCs, BeforeRun, WhileRun, AfterRun
    <3>2. UNCHANGED <<git, world, img, target, held>>
      BY <2>2 DEF Check, Visit, Mount, ReadSource, ReadCommit, Head, Stamp, LatestIs, Script,
                  Decide
    <3>3. mounted' \in [Times -> Int] /\ owned' \in [Procs -> SUBSET Times]
      BY <2>2 DEF Check, Visit, Mount, ReadSource, ReadCommit, Head, Stamp, LatestIs, Script,
                  Decide, TypeOK, Image
    <3>4. \E j \in Job : job' = [job EXCEPT ![p] = j] /\ Whole(j.img) /\ Whole(j.new)
      <4> DEFINE Keeping(j) == j \in Job /\ Whole(j.img) /\ Whole(j.new)
      <4>0. Keeping(job[p]) /\ Whole(img)
        BY DEF RanInv, RanOK, TypeOK
      <4>1. UNCHANGED job \/ \E j : Keeping(j) /\ job' = [job EXCEPT ![p] = j]
        <5>1. CASE Visit(p) \/ Mount(p)
          <6>1. Keeping([job[p] EXCEPT !.img = img])
            BY <4>0 DEF TypeOK, Job
          <6>2. UNCHANGED job \/ job' = [job EXCEPT ![p].img = img]
            BY <5>1 DEF Visit, Mount
          <6>3. CASE job' = [job EXCEPT ![p].img = img]
            <7>1. job' = [job EXCEPT ![p] = [job[p] EXCEPT !.img = img]]
              BY <6>3 DEF TypeOK
            <7> QED
              BY <6>1, <7>1
          <6> QED
            BY <6>2, <6>3
        <5>2. CASE ReadSource(p)
          <6>1. \A b \in BOOLEAN : Keeping([job[p] EXCEPT !.src = b])
            BY <4>0 DEF TypeOK, Job
          <6>2. (MountThere(p) /\ job[p].img.label # NoCommit) \in BOOLEAN
            OBVIOUS
          <6> QED
            BY <5>2, <6>1, <6>2 DEF ReadSource, TypeOK
        <5>3. CASE ReadCommit(p)
          <6>1. Keeping([job[p] EXCEPT !.commit =
                          IF MountThere(p) THEN job[p].img.label ELSE NoCommit])
            BY <4>0 DEF TypeOK, Job, Image
          <6> QED
            BY <5>3, <6>1 DEF ReadCommit, TypeOK
        <5>4. ASSUME NEW t \in Times, LatestIs(p, t)
              PROVE  \E j : Keeping(j) /\ job' = [job EXCEPT ![p] = j]
          <6>1. Keeping([job[p] EXCEPT !.latest = t])
            BY <4>0 DEF TypeOK, Job
          <6> QED
            BY <5>4, <6>1 DEF LatestIs, TypeOK
        <5>5. LastStamp(p) \in Times
          BY CheckoutTypes DEF LastStamp, HeadOf, TypeOK, GitTypeOK, Repo
        <5>6. CASE Stamp(p)
          BY <5>4, <5>5, <5>6 DEF Stamp
        <5>7. CASE Script(p)
          <6>1. job[p].img.stamp \in Times /\ clock \in Times
            BY DEF TypeOK, GitTypeOK, Job, Image
          <6>2. \A t \in 0..clock : t \in Times
            BY <6>1 DEF Times
          <6> QED
            BY <5>4, <5>5, <5>7, <6>1, <6>2 DEF Script
        <5>8. CASE Head(p) \/ Decide(p)
          BY <5>8 DEF Head, Decide
        <5> QED
          BY <2>2, <5>1, <5>2, <5>3, <5>6, <5>7, <5>8 DEF Check
      <4>2. CASE UNCHANGED job
        BY <4>0, <4>2 DEF TypeOK
      <4> QED
        BY <4>1, <4>2
    <3>5. ASSUME NEW l \in PCs \ (BeforeRun \cup WhileRun \cup AfterRun), NEW j \in Job,
                 Whole(j.img), Whole(j.new)
          PROVE  RanOK(l, j)
      BY <3>5 DEF RanOK
    <3>6. GitTypeOK' /\ img.ran = img.scripts /\ Whole(img)
      BY <3>2 DEF TypeOK, GitTypeOK, RanInv
    <3> QED
      BY <3>1, <3>2, <3>3, <3>4, <3>5, <3>6, TypeMoved DEF TypeOK
  <2>3. CASE Build(p)
    <3>1. GitTypeOK'
      BY <2>3, BuildSystem DEF TypeOK, GitTypeOK
    <3> QED
      BY <2>3, <3>1, BuildMoves, BuildSystem, TypeMoved DEF Becomes
  <2>4. CASE End(p)
    <3>1. mounted' \in [Times -> Int] /\ owned' \in [Procs -> SUBSET Times]
      BY <2>4 DEF End, Clean, Stop, Destroy, Unmount, TypeOK
    <3>2. held' \in [Procs -> SUBSET Things]
      BY <2>4 DEF End, Clean, Stop, Destroy, Release, TypeOK
    <3>3. /\ UNCHANGED <<git, world, img, target>>
          /\ job' = [job EXCEPT ![p] = NoJob] \/ UNCHANGED job
          /\ \E l \in {"idle", "stop", "destroy"} : goto(p, l)
      BY <2>4 DEF End, Clean, Stop, Destroy
    <3>4. /\ \E j \in Job : job' = [job EXCEPT ![p] = j] /\ Whole(j.img) /\ Whole(j.new)
          /\ GitTypeOK' /\ img.ran = img.scripts /\ Whole(img)
      <4>1. Whole(job[p].img) /\ Whole(job[p].new) /\ job[p] \in Job
        BY DEF RanInv, RanOK, TypeOK
      <4> QED
        BY <3>3, <4>1, ZeroTypes, FirstWhole DEF TypeOK, GitTypeOK, RanInv
    <3>5. ASSUME NEW l \in {"idle", "stop", "destroy"}, NEW j, Whole(j.img), Whole(j.new)
          PROVE  RanOK(l, j) /\ l \in PCs
      BY <3>5 DEF RanOK, BeforeRun, WhileRun, AfterRun, PCs
    <3> QED
      BY <3>1, <3>2, <3>3, <3>4, <3>5, TypeMoved DEF TypeOK
  <2>5. CASE ContainerEnds(p)
    BY <2>5 DEF ContainerEnds, Release, TypeOK, GitTypeOK, RanInv
  <2>6. CASE Kill(p)
    <3>1. GitTypeOK'
      BY <2>6, RepoType DEF TypeOK, GitTypeOK
    <3>2. RanOK("dead", NoJob) /\ "dead" \in PCs /\ img.ran = img.scripts /\ Whole(img)
      BY FirstWhole DEF RanOK, BeforeRun, WhileRun, AfterRun, PCs, RanInv
    <3> QED
      BY <2>6, <3>1, <3>2, ZeroTypes, TypeMoved DEF Kill, TypeOK
  <2> QED
    BY <1>4, <2>1, <2>2, <2>3, <2>4, <2>5, <2>6 DEF Command
<1> QED
  BY <1>1, <1>2, <1>3, <1>4 DEF Next

LEMMA TypeInvariant == Spec => []TypeInv
  BY TypeInit, TypeStep, PTL DEF Spec

(* Every variable keeps its type; no script of a build runs that is not    *)
(* one of the component's.                                                 *)
THEOREM TypeCorrect == Spec => []TypeOK
  BY TypeInvariant, PTL DEF TypeInv

-----------------------------------------------------------------------------
(***************************************************************************)
(* What is left behind.                                                    *)
(***************************************************************************)

(* A step of p concerns no other process.                                  *)
LEMMA Others ==
  ASSUME TypeOK, NEW p \in Procs, Command(p) \/ ContainerEnds(p) \/ Kill(p),
         NEW q \in Procs, q # p
  PROVE  UNCHANGED <<pc[q], job[q], held[q], owned[q]>>
<1> USE DEF TypeOK, goto, At, Fail, system
<1>1. CASE DlFileGit(p)
  BY <1>1 DEF DlFileGit, Pull, Clone
<1>2. CASE Check(p)
  BY <1>2 DEF Check, Visit, Mount, ReadSource, ReadCommit, Head, Stamp, LatestIs, Script, Decide
<1>3. CASE InitBuilder(p) \/ Container(p) \/ Start(p)
  BY <1>3 DEF InitBuilder, Container, Start, Hold
<1>4. CASE DestFromSource(p) \/ DestFromImage(p)
  <2>1. UNCHANGED <<pc[q], held[q], owned>>
    BY <1>4 DEF DestFromSource, DestFromImage, BuildWith, Hold
  <2>2. UNCHANGED job \/ \E j : job' = [job EXCEPT ![p] = j]
    BY <1>4 DEF DestFromSource, DestFromImage
  <2> QED
    BY <2>1, <2>2
<1>5. CASE Run(p) \/ Label(p) \/ Squash(p)
  BY <1>5 DEF Run, Attach, AttachFails, Label, Squash
<1>6. CASE Publish(p) \/ Restore(p) \/ End(p)
  BY <1>6 DEF Publish, Restore, End, Clean, Stop, Destroy, Unmount, Release
<1>7. CASE ContainerEnds(p) \/ Kill(p)
  BY <1>7 DEF ContainerEnds, Kill, Release
<1> QED
  BY <1>1, <1>2, <1>3, <1>4, <1>5, <1>6, <1>7 DEF Command, Build

(* How many processes own the mount of an image.                           *)
LEMMA OwnedType ==
  ASSUME NEW s
  PROVE  /\ Owned(s) \in Nat
         /\ \A p \in Procs : s \in owned[p] => Owned(s) > 0
<1> DEFINE S == {p \in Procs : s \in owned[p]}
<1>1. IsFiniteSet(S) /\ Cardinality(S) \in Nat
  BY FS_Subset, FS_CardinalityType
<1>2. ASSUME NEW p \in Procs, s \in owned[p] PROVE Cardinality(S) > 0
  <2>1. S # {}
    BY <1>2
  <2> QED
    BY <1>1, <2>1, FS_EmptySet
<1> QED
  BY <1>1, <1>2 DEF Owned

LEMMA OwnedOne ==
  ASSUME TypeOK, NEW p \in Procs, NEW s \in Times, owned[p] = {},
         owned' = [owned EXCEPT ![p] = {s}], NEW t \in Times
  PROVE  Owned(t)' = Owned(t) + (IF t = s THEN 1 ELSE 0)
<1> DEFINE S == {q \in Procs : t \in owned[q]}
           S2 == {q \in Procs : t \in owned'[q]}
<1>1. IsFiniteSet(S) /\ p \notin S /\ Cardinality(S) \in Nat
  BY FS_Subset, FS_CardinalityType
<1>2. CASE t = s
  <2>1. S2 = S \cup {p}
    BY <1>2 DEF TypeOK
  <2>2. Cardinality(S \cup {p}) = Cardinality(S) + 1
    BY <1>1, FS_AddElement
  <2> QED
    BY <1>2, <2>1, <2>2 DEF Owned
<1>3. CASE t # s
  <2>1. S2 = S
    BY <1>3 DEF TypeOK
  <2>2. Owned(t) = Cardinality(S) /\ Owned(t)' = Cardinality(S2)
    BY DEF Owned
  <2> HIDE DEF S, S2
  <2> QED
    BY <1>1, <1>3, <2>1, <2>2
<1> QED
  BY <1>2, <1>3

LEMMA OwnedNone ==
  ASSUME TypeOK, NEW p \in Procs, owned' = [owned EXCEPT ![p] = {}], NEW t \in Times
  PROVE  Owned(t)' = Owned(t) - (IF t \in owned[p] THEN 1 ELSE 0)
<1> DEFINE S == {q \in Procs : t \in owned[q]}
           S2 == {q \in Procs : t \in owned'[q]}
<1>1. IsFiniteSet(S) /\ Cardinality(S) \in Nat
  BY FS_Subset, FS_CardinalityType
<1>2. S2 = S \ {p}
  BY DEF TypeOK
<1>3. Cardinality(S \ {p}) = IF p \in S THEN Cardinality(S) - 1 ELSE Cardinality(S)
  BY <1>1, FS_RemoveElement
<1>4. Owned(t) = Cardinality(S) /\ Owned(t)' = Cardinality(S2)
  BY DEF Owned
<1>5. p \in S <=> t \in owned[p]
  OBVIOUS
<1> HIDE DEF S, S2
<1> QED
  BY <1>1, <1>2, <1>3, <1>4, <1>5

(* A process that has not mounted anything yet, or has unmounted it, owns  *)
(* no mount.                                                               *)
MountsInv ==
  /\ \A s \in Times : mounted[s] = Booted(s) + Owned(s)
  /\ \A p \in Procs : pc[p] \in {"idle", "mount", "stop", "destroy"} => owned[p] = {}

LEMMA MountsInit == Init => MountsInv
<1> SUFFICES ASSUME Init, NEW s \in Times PROVE mounted[s] = Booted(s) + Owned(s)
  BY DEF Init, MountsInv
<1>1. {p \in Procs : s \in owned[p]} = {}
  BY DEF Init
<1>2. Owned(s) = 0
  BY <1>1, FS_EmptySet DEF Owned
<1> QED
  BY <1>2 DEF Init, Booted

LEMMA MountsStep == TypeInv /\ MountsInv /\ [Next]_vars => MountsInv'
<1> SUFFICES ASSUME TypeInv, MountsInv, [Next]_vars PROVE MountsInv'
  OBVIOUS
<1> USE DEF TypeInv, vars
<1>1. CASE UNCHANGED vars \/ Time \/ Commit \/ Import
  <2>1. UNCHANGED <<world, mounted, owned, pc>>
    BY <1>1 DEF Time, Commit, Import
  <2>2. \A s : Owned(s)' = Owned(s) /\ Booted(s)' = Booted(s)
    BY <2>1 DEF Owned, Booted
  <2> QED
    BY <2>1, <2>2 DEF MountsInv
<1>2. ASSUME NEW p \in Procs, Command(p) \/ ContainerEnds(p) \/ Kill(p) PROVE MountsInv'
  <2>1. UNCHANGED world /\ pc' \in [Procs -> PCs]
    <3>1. TypeOK'
      BY <1>2, TypeStep DEF Next
    <3>2. UNCHANGED world
      BY <1>2, BuildSystem DEF Command, DlFileGit, Pull, Clone, Check, Visit, Mount, ReadSource,
         ReadCommit, Head, Stamp, Script, Decide, End, Clean, Stop, Destroy, ContainerEnds, Kill,
         system
    <3> QED
      BY <3>1, <3>2 DEF TypeOK
  <2>2. \A s : Booted(s)' = Booted(s)
    BY <2>1 DEF Booted
  <2>3. \A s : Owned(s) \in Nat
    BY OwnedType
  <2>4. ASSUME UNCHANGED <<mounted, owned>>,
               pc'[p] \in {"idle", "mount", "stop", "destroy"} => owned[p] = {}
        PROVE  MountsInv'
    <3>1. \A s : Owned(s)' = Owned(s)
      BY <2>4 DEF Owned
    <3>2. \A q \in Procs : q # p => pc'[q] = pc[q]
      BY <1>2, Others
    <3> QED
      BY <2>2, <2>4, <3>1, <3>2 DEF MountsInv
  <2>5. ASSUME Unmount(p) PROVE MountsInv'
    <3>1. \A s \in Times : Owned(s)' = Owned(s) - (IF s \in owned[p] THEN 1 ELSE 0)
      BY <2>5, OwnedNone DEF Unmount
    <3>2. \A s \in Times : mounted'[s] = mounted[s] - (IF s \in owned[p] THEN 1 ELSE 0)
      BY <2>5 DEF Unmount
    <3>3. \A s \in Times : (mounted[s] = Booted(s) + Owned(s))'
      BY <2>2, <2>3, <3>1, <3>2 DEF MountsInv, Booted
    <3>4. owned'[p] = {}
      BY <2>5 DEF Unmount, TypeOK
    <3>5. \A q \in Procs : q # p => pc'[q] = pc[q] /\ owned'[q] = owned[q]
      BY <1>2, Others
    <3> QED
      BY <3>3, <3>4, <3>5 DEF MountsInv
  <2>6. CASE Mount(p)
    <3>1. CASE UNCHANGED <<mounted, owned>>
      BY <2>4, <2>6, <3>1 DEF Mount, MountsInv, Fail, goto, TypeOK, At
    <3>2. CASE /\ mounted' = [mounted EXCEPT ![img.stamp] = @ + 1]
               /\ owned' = [owned EXCEPT ![p] = {img.stamp}]
               /\ goto(p, "source")
      <4>1. img.stamp \in Times /\ owned[p] = {}
        BY <2>6 DEF TypeOK, Image, Mount, At, MountsInv
      <4>2. \A s \in Times : Owned(s)' = Owned(s) + (IF s = img.stamp THEN 1 ELSE 0)
        BY <3>2, <4>1, OwnedOne
      <4>3. \A s \in Times : mounted'[s] = mounted[s] + (IF s = img.stamp THEN 1 ELSE 0)
        BY <3>2 DEF TypeOK
      <4>4. \A s \in Times : (mounted[s] = Booted(s) + Owned(s))'
        BY <2>2, <2>3, <4>2, <4>3 DEF MountsInv, Booted
      <4>5. pc'[p] = "source"
        BY <3>2 DEF goto, TypeOK
      <4>6. \A q \in Procs : q # p => pc'[q] = pc[q] /\ owned'[q] = owned[q]
        BY <1>2, Others
      <4> QED
        BY <4>4, <4>5, <4>6 DEF MountsInv
    <3> QED
      BY <2>6, <3>1, <3>2 DEF Mount
  <2>7. CASE Clean(p)
    BY <2>5, <2>7 DEF Clean
  <2>8. CASE Publish(p)
    <3>1. CASE Unmount(p)
      BY <2>5, <3>1
    <3>2. CASE goto(p, "clean") /\ UNCHANGED <<mounted, owned>>
      BY <2>4, <3>2 DEF goto, TypeOK
    <3> QED
      BY <2>8, <3>1, <3>2 DEF Publish, Fail
  <2>9. CASE DlFileGit(p) \/ ContainerEnds(p) \/ Kill(p)
    BY <2>4, <2>9 DEF DlFileGit, Pull, Clone, ContainerEnds, Kill, goto, TypeOK, Fail, MountsInv
  <2>10. CASE Check(p) /\ ~Mount(p)
    BY <2>4, <2>10 DEF Check, Visit, ReadSource, ReadCommit, Head, Stamp, LatestIs, Script,
       Decide, goto, TypeOK, Fail, MountsInv, At, system
  <2>11. CASE Build(p) /\ ~Publish(p)
    <3>1. UNCHANGED <<mounted, owned>>
      BY <2>11 DEF Build, InitBuilder, DestFromSource, DestFromImage, Container, Start, Run,
         Label, Squash, Restore, system
    <3>2. pc'[p] \notin {"idle", "mount", "stop", "destroy"}
      <4>1. CASE InitBuilder(p) \/ DestFromSource(p) \/ DestFromImage(p)
        BY <4>1 DEF InitBuilder, DestFromSource, DestFromImage, BuildWith, goto, TypeOK, Fail
      <4>2. CASE Container(p) \/ Start(p) \/ Run(p)
        BY <4>2 DEF Container, Start, Run, Attach, AttachFails, goto, TypeOK, Fail
      <4>3. CASE Label(p) \/ Squash(p) \/ Restore(p)
        BY <4>3 DEF Label, Squash, Restore, goto, TypeOK, Fail, At
      <4> QED
        BY <2>11, <4>1, <4>2, <4>3 DEF Build
    <3> QED
      BY <2>4, <3>1, <3>2
  <2>12. CASE Stop(p) \/ Destroy(p)
    BY <2>4, <2>12 DEF Stop, Destroy, goto, TypeOK, MountsInv, At
  <2> QED
    BY <1>2, <2>6, <2>7, <2>8, <2>9, <2>10, <2>11, <2>12 DEF Command, End
<1> QED
  BY <1>1, <1>2 DEF Next

(* A container runs with its configuration, which a command that ends      *)
(* destroys last.                                                          *)
HeldOK(l, h) ==
  /\ "running" \in h => "config" \in h
  /\ l = "idle" => h \subseteq {"comnt"}
  /\ l = "stop" => h \subseteq {"comnt", "config", "running"}
  /\ l = "destroy" => h \subseteq {"comnt", "config"}
  /\ l \in {"start", "apt", "run"} => "config" \in h
HeldInv == \A p \in Procs : HeldOK(pc[p], held[p])

LEMMA HeldStep == TypeInv /\ HeldInv /\ [Next]_vars => HeldInv'
<1> SUFFICES ASSUME TypeInv, HeldInv, [Next]_vars PROVE HeldInv'
  OBVIOUS
<1> USE DEF TypeInv, vars
<1>1. CASE UNCHANGED vars \/ Time \/ Commit \/ Import
  BY <1>1 DEF Time, Commit, Import, HeldInv
<1>2. ASSUME NEW p \in Procs, Command(p) \/ ContainerEnds(p) \/ Kill(p) PROVE HeldInv'
  <2> USE DEF goto, At, Fail
  <2>1. TypeOK /\ HeldOK(pc[p], held[p]) /\ held[p] \subseteq Things
    BY DEF HeldInv, TypeOK
  <2>2. HeldOK(pc[p], held[p])'
    <3>1. CASE DlFileGit(p)
      BY <2>1, <3>1 DEF DlFileGit, Pull, Clone, HeldOK, TypeOK
    <3>2. CASE Check(p)
      BY <2>1, <3>2 DEF Check, Visit, Mount, ReadSource, ReadCommit, Head, Stamp, LatestIs,
         Script, Decide, HeldOK, TypeOK, system
    <3>3. CASE InitBuilder(p) \/ DestFromSource(p) \/ DestFromImage(p) \/ Container(p) \/ Start(p)
      <4>1. CASE InitBuilder(p)
        BY <2>1, <4>1 DEF InitBuilder, HeldOK, TypeOK, system
      <4>2. CASE DestFromSource(p) \/ DestFromImage(p)
        <5>1. /\ held'[p] \subseteq held[p] \cup {"destdir", "comnt"}
              /\ held[p] \subseteq held'[p]
          BY <2>1, <4>2 DEF DestFromSource, DestFromImage, Hold, TypeOK
        <5>2. pc'[p] \in {"label", "container", "clean"}
          BY <4>2 DEF DestFromSource, DestFromImage, BuildWith, TypeOK
        <5> QED
          BY <2>1, <5>1, <5>2 DEF HeldOK
      <4>3. CASE Container(p) \/ Start(p)
        BY <2>1, <4>3 DEF Container, Start, Hold, HeldOK, TypeOK
      <4> QED
        BY <3>3, <4>1, <4>2, <4>3
    <3>4. CASE Run(p) \/ Label(p) \/ Squash(p) \/ Publish(p) \/ Restore(p)
      BY <2>1, <3>4 DEF Run, Attach, AttachFails, Label, Squash, Publish, Restore, HeldOK,
         TypeOK, system
    <3>5. CASE Clean(p)
      BY <2>1, <3>5 DEF Clean, Release, HeldOK, TypeOK, Things
    <3>6. CASE Stop(p) \/ Destroy(p)
      BY <2>1, <3>6 DEF Stop, Destroy, Release, HeldOK, TypeOK
    <3>7. CASE ContainerEnds(p) \/ Kill(p)
      BY <2>1, <3>7 DEF ContainerEnds, Kill, Release, HeldOK, TypeOK
    <3> QED
      BY <1>2, <3>1, <3>2, <3>3, <3>4, <3>5, <3>6, <3>7 DEF Command, Build, End
  <2>3. \A q \in Procs : q # p => UNCHANGED <<pc[q], held[q]>>
    BY <1>2, Others
  <2> QED
    BY <2>2, <2>3 DEF HeldInv
<1> QED
  BY <1>1, <1>2 DEF Next

(* Unless something fails, a file system that is writable although it      *)
(* should not be is so for a process that will change that.                *)
Restores(p) == job[p].remounted /\ pc[p] \in {"squash", "publish", "restore"}
TargetInv ==
  world.readonly /\ world.faults = {} /\ target = "rw" => \E p \in Procs : Restores(p)

LEMMA TargetStep == TypeInv /\ TargetInv /\ [Next]_vars => TargetInv'
<1> SUFFICES ASSUME TypeInv, TargetInv, [Next]_vars PROVE TargetInv'
  OBVIOUS
<1> USE DEF TypeInv, vars
<1>1. CASE UNCHANGED vars \/ Time \/ Commit \/ Import
  BY <1>1 DEF Time, Commit, Import, TargetInv, Restores
<1>2. ASSUME NEW p \in Procs, Command(p) \/ ContainerEnds(p) \/ Kill(p) PROVE TargetInv'
  <2> USE DEF goto, At, Fail
  <2>1. SUFFICES ASSUME world.readonly, world.faults = {}, UNCHANGED world, target' = "rw"
                 PROVE  \E q \in Procs : Restores(q)'
    BY <1>2, BuildSystem DEF TargetInv, Command, DlFileGit, Pull, Clone, Check, Visit, Mount,
       ReadSource, ReadCommit, Head, Stamp, Script, Decide, End, Clean, Stop, Destroy,
       ContainerEnds, Kill, system
  <2>2. \A f : ~May(f)
    BY <2>1 DEF May
  <2>3. CASE Squash(p)
    <3>1. CASE target = "ro" /\ job' = [job EXCEPT ![p].remounted = TRUE] /\ UNCHANGED pc
      BY <2>3, <3>1 DEF Squash, Restores, TypeOK, Job
    <3>2. CASE target = "rw" /\ job' = [job EXCEPT ![p].new.stamp = clock] /\ goto(p, "publish")
      <4>1. PICK q \in Procs : Restores(q)
        BY <2>1, <3>2 DEF TargetInv
      <4>2. CASE q = p
        BY <3>2, <4>1, <4>2 DEF Restores, TypeOK, Job
      <4>3. CASE q # p
        BY <1>2, <4>1, <4>3, Others DEF Restores
      <4> QED
        BY <4>2, <4>3
    <3> QED
      BY <2>2, <2>3, <3>1, <3>2 DEF Squash
  <2>4. CASE Publish(p)
    <3>1. target = "rw" /\ UNCHANGED job
          /\ goto(p, IF job[p].remounted THEN "restore" ELSE "clean")
      BY <2>1, <2>4 DEF Publish
    <3>2. PICK q \in Procs : Restores(q)
      BY <2>1, <3>1 DEF TargetInv
    <3>3. CASE q = p
      BY <3>1, <3>2, <3>3 DEF Restores, TypeOK
    <3>4. CASE q # p
      BY <1>2, <3>2, <3>4, Others DEF Restores
    <3> QED
      BY <3>3, <3>4
  <2>5. ~Restore(p)
    BY <2>1, <2>2 DEF Restore
  <2>6. CASE ~Squash(p) /\ ~Publish(p)
    <3>1. target = "rw" /\ (pc[p] \in {"squash", "publish", "restore"} => ContainerEnds(p) \/ Kill(p))
      BY <1>2, <2>1, <2>5, <2>6 DEF Command, DlFileGit, Pull, Clone, Check, Visit, Mount,
         ReadSource, ReadCommit, Head, Stamp, Script, Decide, Build, InitBuilder, DestFromSource,
         DestFromImage, Container, Start, Run, Attach, AttachFails, Label, End, Clean, Stop,
         Destroy, ContainerEnds, Kill, system
    <3>2. ~ContainerEnds(p) /\ ~Kill(p)
      BY <2>2 DEF ContainerEnds, Kill
    <3>3. PICK q \in Procs : Restores(q)
      BY <2>1, <3>1 DEF TargetInv
    <3>4. q # p
      BY <3>1, <3>2, <3>3 DEF Restores
    <3> QED
      BY <1>2, <3>3, <3>4, Others DEF Restores
  <2> QED
    BY <2>3, <2>4, <2>6
<1> QED
  BY <1>1, <1>2 DEF Next

(* A command that ends leaves no container and no build directory behind,  *)
(* and of its mounts only the writable layer of a build without a source,  *)
(* which nothing ever unmounts.  Images it unmounts exactly as often as it *)
(* has mounted them, however commands interleave, fail or are killed; if   *)
(* nothing fails, a read-only file system is so again.                     *)
THEOREM OnlyLayersLeft == Spec => []OnlyLayersStay
<1>1. Init => HeldInv /\ TargetInv
  BY DEF Init, HeldInv, HeldOK, TargetInv
<1>2. TypeInv /\ MountsInv /\ HeldInv /\ TargetInv => OnlyLayersStay
  BY DEF TypeInv, TypeOK, MountsInv, HeldInv, HeldOK, TargetInv, Restores, OnlyLayersStay, At,
         Quiet, Resting
<1> QED
  BY <1>1, <1>2, TypeInvariant, MountsInit, MountsStep, HeldStep, TargetStep, PTL DEF Spec

-----------------------------------------------------------------------------
(***************************************************************************)
(* One command at a time: what it knows at each place.                     *)
(***************************************************************************)
GitInv ==
  /\ \A c, d \in Commits : c <= d => ctime[c] <= ctime[d]
  /\ \A c \in Commits : ctime[c] <= clock
  /\ \A c \in Checkouts : repo[c].at <= head

LEMMA GitStep == TypeInv /\ GitInv /\ [Next]_vars => GitInv'
<1> SUFFICES ASSUME TypeInv, GitInv, [Next]_vars PROVE GitInv'
  OBVIOUS
<1> USE DEF TypeInv, TypeOK, GitTypeOK, GitInv
<1>1. CASE UNCHANGED git
  BY <1>1 DEF git
<1>2. CASE Time
  <2>1. clock' = clock + 1 /\ UNCHANGED <<head, ctime, repo>>
    BY <1>2 DEF Time, Tick
  <2> QED
    BY <2>1 DEF Times
<1>3. CASE Commit
  <2>1. PICK when \in Times : Push(when)
    BY <1>3 DEF Commit
  <2>2. /\ head' = head + 1 /\ UNCHANGED <<clock, repo>>
        /\ ctime[head] <= when /\ when <= clock
        /\ \A c \in Commits : ctime'[c] = IF c > head THEN when ELSE ctime[c]
    BY <2>1 DEF Push, Times
  <2>3. \A c \in Commits : c <= head => ctime[c] <= ctime[head]
    OBVIOUS
  <2>4. head \in Int /\ when \in Int /\ \A c \in Commits : c \in Int /\ ctime[c] \in Int
    BY DEF Commits, Times
  <2>5. \A c, d \in Commits : c <= d => ctime'[c] <= ctime'[d]
    <3>1. \A c \in Commits : c <= head => ctime[c] <= when
      BY <2>2, <2>3, <2>4
    <3> HIDE DEF GitTypeOK, TypeOK, TypeInv
    <3> QED
      BY <2>2, <2>4, <3>1
  <2>6. \A c \in Commits : ctime'[c] <= clock
    BY <2>2
  <2>7. \A c \in Checkouts : repo[c].at \in Int
    BY DEF Repo, Commits
  <2> QED
    BY <2>2, <2>4, <2>5, <2>6, <2>7
<1>4. ASSUME NEW p \in Procs, DlFileGit(p) \/ Kill(p) PROVE GitInv'
  <2>1. /\ UNCHANGED <<clock, head, ctime>>
        /\ \A c \in Checkouts : repo'[c].at \in {repo[c].at, head, 0}
    BY <1>4, RepoType, TipType
  <2>2. head \in Nat
    BY DEF Commits
  <2> QED
    BY <2>1, <2>2
<1>5. ASSUME NEW p \in Procs, Check(p) \/ Build(p) \/ End(p) \/ ContainerEnds(p)
      PROVE  UNCHANGED git
  BY <1>5, BuildSystem DEF Check, Visit, Mount, ReadSource, ReadCommit, Head, Stamp, Script,
     Decide, End, Clean, Stop, Destroy, ContainerEnds, system
<1> QED
  BY <1>1, <1>2, <1>3, <1>4, <1>5 DEF Next, Command, Import, vars

(* A checkout is being cloned by somebody.                                 *)
Clones(p, c) ==
  \/ pc[p] = "clone" /\ Checked(job[p]) = c
  \/ pc[p] = "clone2" /\ Built(job[p]) = c
ClonesInv ==
  \A c \in Checkouts : repo[c].st = "cloning" => \E p \in Procs : Clones(p, c)

LEMMA ClonesStep == TypeInv /\ ClonesInv /\ [Next]_vars => ClonesInv'
<1> SUFFICES ASSUME TypeInv, ClonesInv, [Next]_vars PROVE ClonesInv'
  OBVIOUS
<1> USE DEF TypeInv
<1>1. CASE UNCHANGED vars \/ Time \/ Commit \/ Import
  <2>1. UNCHANGED <<repo, world, pc, job>>
    <3>1. CASE UNCHANGED vars
      BY <3>1 DEF vars, git
    <3>2. CASE Time
      BY <3>2 DEF Time, Tick
    <3>3. CASE Commit
      BY <3>3 DEF Commit, Push
    <3>4. CASE Import
      BY <3>4 DEF Import, git
    <3> QED
      BY <1>1, <3>1, <3>2, <3>3, <3>4
  <2> QED
    BY <2>1 DEF ClonesInv, Clones, Checked, Built
<1>2. ASSUME NEW p \in Procs, Command(p) \/ ContainerEnds(p) \/ Kill(p) PROVE ClonesInv'
  <2>1. UNCHANGED world
    BY <1>2, BuildSystem DEF Command, DlFileGit, Pull, Clone, Check, Visit, Mount, ReadSource,
       ReadCommit, Head, Stamp, Script, Decide, End, Clean, Stop, Destroy, ContainerEnds, Kill,
       system
  <2>2. \A q \in Procs, c \in Checkouts : q # p /\ Clones(q, c) => Clones(q, c)'
    BY <1>2, <2>1, Others DEF Clones, Checked, Built
  <2>3. ASSUME NEW c \in Checkouts, repo'[c].st = "cloning"
        PROVE  \E q \in Procs : Clones(q, c)'
    <3>0. repo \in [Checkouts -> Repo] /\ pc \in [Procs -> PCs] /\ \A d : repo[d].st = "ready" => repo[d].st # "cloning"
      BY DEF TypeOK, GitTypeOK
    <3>1. CASE DlFileGit(p)
      <4>1. UNCHANGED job
        BY <3>1 DEF DlFileGit, Pull, Clone
      <4>2. ASSUME NEW d \in Checkouts, NEW pull, NEW clone, NEW next,
                   pull \in {"pull", "pull2"}, pc[p] = pull, Pull(p, d, pull, clone, next)
            PROVE  \/ UNCHANGED repo \/ (repo'[d].st = "ready" /\ \A e \in Checkouts : e # d => repo'[e] = repo[e])
                   \/ (pc'[p] = clone /\ \A e \in Checkouts : e # d => repo'[e] = repo[e])
        BY <3>0, <4>2 DEF Pull, PullSucceeds, PullFails, BeginClone, HasTip, MarkAs, There, goto
      <4>3. ASSUME NEW d \in Checkouts, NEW clone, NEW next, Clone(p, d, clone, next)
            PROVE  repo'[d].st # "cloning" /\ \A e \in Checkouts : e # d => repo'[e] = repo[e]
        BY <3>0, <4>3 DEF Clone, EndClone, AbortClone, HasTip, MarkAs, Repo
      <4>4. CASE Pull(p, Checked(job[p]), "pull", "clone", "head")
        <5>1. pc[p] = "pull"
          BY <4>4 DEF Pull, At
        <5>2. \/ repo[c].st = "cloning"
              \/ c = Checked(job[p]) /\ pc'[p] = "clone"
          BY <2>3, <4>2, <4>4, <5>1, CheckoutTypes
        <5> QED
          BY <2>1, <2>2, <4>1, <5>1, <5>2 DEF ClonesInv, Clones, Checked
      <4>5. CASE Pull(p, Built(job[p]), "pull2", "clone2", "dest")
        <5>1. pc[p] = "pull2"
          BY <4>5 DEF Pull, At
        <5>2. \/ repo[c].st = "cloning"
              \/ c = Built(job[p]) /\ pc'[p] = "clone2"
          BY <2>3, <4>2, <4>5, <5>1, CheckoutTypes
        <5> QED
          BY <2>1, <2>2, <4>1, <5>1, <5>2 DEF ClonesInv, Clones, Built
      <4>6. CASE Clone(p, Checked(job[p]), "clone", "head")
        <5>1. pc[p] = "clone"
          BY <4>6 DEF Clone, At
        <5>2. repo[c].st = "cloning" /\ c # Checked(job[p])
          BY <2>3, <4>3, <4>6, CheckoutTypes
        <5> QED
          BY <2>2, <5>1, <5>2 DEF ClonesInv, Clones
      <4>7. CASE Clone(p, Built(job[p]), "clone2", "dest")
        <5>1. pc[p] = "clone2"
          BY <4>7 DEF Clone, At
        <5>2. repo[c].st = "cloning" /\ c # Built(job[p])
          BY <2>3, <4>3, <4>7, CheckoutTypes
        <5> QED
          BY <2>2, <5>1, <5>2 DEF ClonesInv, Clones
      <4> QED
        BY <3>1, <4>4, <4>5, <4>6, <4>7 DEF DlFileGit
    <3>2. CASE Kill(p)
      <4>1. CASE pc[p] \notin {"clone", "clone2"}
        BY <2>2, <2>3, <3>2, <4>1 DEF Kill, At, ClonesInv, Clones
      <4>2. ASSUME NEW d \in Checkouts, KillClone(d, Tip(d))
            PROVE  repo'[d].st # "cloning" /\ \A e \in Checkouts : e # d => repo'[e] = repo[e]
        BY <3>0, <4>2 DEF KillClone, HasTip, MarkAs, Repo
      <4>3. CASE pc[p] = "clone"
        <5>1. repo[c].st = "cloning" /\ c # Checked(job[p])
          BY <2>3, <3>2, <4>2, <4>3, CheckoutTypes DEF Kill, At
        <5> QED
          BY <2>2, <4>3, <5>1 DEF ClonesInv, Clones
      <4>4. CASE pc[p] = "clone2"
        <5>1. repo[c].st = "cloning" /\ c # Built(job[p])
          BY <2>3, <3>2, <4>2, <4>4, CheckoutTypes DEF Kill, At
        <5> QED
          BY <2>2, <4>4, <5>1 DEF ClonesInv, Clones
      <4> QED
        BY <4>1, <4>3, <4>4
    <3>3. CASE Check(p) \/ Build(p) \/ End(p) \/ ContainerEnds(p)
      <4>1. UNCHANGED repo
        BY <3>3, BuildSystem DEF Check, Visit, Mount, ReadSource, ReadCommit, Head, Stamp,
           Script, Decide, End, Clean, Stop, Destroy, ContainerEnds, system, git
      <4>2. pc[p] \in {"clone", "clone2"} => UNCHANGED <<pc, job>>
        <5>1. Check(p) => pc[p] \notin {"clone", "clone2"}
          BY DEF Check, Visit, Mount, ReadSource, ReadCommit, Head, Stamp, Script, Decide, At
        <5>2. Build(p) => pc[p] \notin {"clone", "clone2"}
          BY DEF Build, InitBuilder, DestFromSource, DestFromImage, Container, Start, Run,
             Attach, AttachFails, Label, Squash, Publish, Restore, At
        <5>3. End(p) => pc[p] \notin {"clone", "clone2"}
          BY DEF End, Clean, Stop, Destroy, At
        <5> QED
          BY <3>3, <5>1, <5>2, <5>3 DEF ContainerEnds
      <4> QED
        BY <2>1, <2>2, <2>3, <4>1, <4>2 DEF ClonesInv, Clones, Checked, Built
    <3> QED
      BY <1>2, <3>1, <3>2, <3>3 DEF Command
  <2> QED
    BY <2>3 DEF ClonesInv
<1> QED
  BY <1>1, <1>2 DEF Next

Late == {"container", "start", "apt", "run", "label"}
Last == {"squash", "publish"}
Middle == {"init", "pull2", "clone2", "dest"}
Asking == {"pull", "clone", "head", "stamp"}
Looking == {"mount", "source", "commit", "script", "decide"}
           \cup Asking \cup Middle \cup Late \cup Last

(* What it looks at is x.sfs as it is, and is mounted.                     *)
Sees(l, j) ==
  /\ l \in Looking => j.img = img
  /\ l \in Looking \ {"mount"} => mounted[img.stamp] > 0

(* An update is one to a commit that is not older.                         *)
Knows(l, j) ==
  /\ l \in Asking \cup {"commit", "pull2", "clone2"} => j.src
  /\ l \in Looking \ {"mount", "source"} /\ j.src => img.label = img.from
  /\ l \in Asking => j.commit = img.label
  /\ l = "script" /\ j.src => HeadOf(Checked(j)) = img.from
  /\ l = "decide" /\ j.src /\ j.latest > img.stamp => HeadOf(Checked(j)) >= img.from
  /\ l \in Middle /\ j.src /\ world.web => HeadOf(Built(j)) >= img.from

(* The tree is that of the commit its label will name.                     *)
TrueLabel(i) == i.label = i.from \/ (i.label = NoCommit /\ May("fail"))
Builds(l, j) ==
  /\ l \in Late \cup Last => j.new.from <= head /\ (world.web => j.new.from >= img.from)
  /\ l \in {"dest"} \cup Late /\ j.src /\ ~May("fail") => Ready(Built(j))
  /\ l \in Late /\ j.src => j.new.from = HeadOf(Built(j))
  /\ l \in {"pull2", "clone2", "dest"} \cup Late /\ j.src => j.new.label = NoCommit
  /\ l \in Late /\ ~j.src => TrueLabel(j.new)
  /\ l \in Last => TrueLabel(j.new)
  /\ l \in {"pull2", "clone2", "dest"} \cup Late \cup Last /\ world.web => j.new.branch = "branch"
  /\ l = "publish" => ctime[j.new.from] <= j.new.stamp

(* Settings and tree are complete.                                         *)
Keeps(l, j) ==
  /\ l \in {"pull2", "clone2", "dest"} \cup Late \cup Last => j.new.env = TRUE
  /\ l \in Late \cup Last /\ ~May("fail") => j.new.torn = FALSE

ImageInv ==
  /\ TrueLabel(img) /\ img.from <= head /\ ctime[img.from] <= img.stamp
  /\ img.env = TRUE /\ (~May("fail") => img.torn = FALSE)
  /\ world.web => img.branch = "branch"

AloneInv ==
  world.alone =>
    /\ ImageInv
    /\ \A p, q \in Procs : ~Resting(p) /\ ~Resting(q) => p = q
    /\ \A p \in Procs : /\ Sees(pc[p], job[p]) /\ Knows(pc[p], job[p])
                         /\ Builds(pc[p], job[p]) /\ Keeps(pc[p], job[p])

LEMMA AloneInit == Init => AloneInv /\ GitInv /\ ClonesInv
<1> SUFFICES ASSUME Init PROVE AloneInv /\ GitInv /\ ClonesInv
  OBVIOUS
<1>1. GitInv /\ ImageInv /\ ClonesInv
  BY ZeroTypes DEF Init, GitInit, GitInv, ImageInv, TrueLabel, First, ClonesInv
<1>2. \A p \in Procs : pc[p] = "idle"
  BY DEF Init
<1> QED
  BY <1>1, <1>2 DEF AloneInv, Sees, Knows, Builds, Keeps, Resting, Looking, Asking, Middle, Late,
                    Last

(* What happens around the commands; an image is brought in between two.   *)
LEMMA Surroundings ==
  ASSUME Time \/ Commit \/ Import
  PROVE  /\ UNCHANGED <<world, pc, job, mounted>>
         /\ Import => /\ UNCHANGED git /\ (world.alone => Quiet)
                      /\ \E c \in img.from..head, s \in (img.stamp + 1)..clock :
                           /\ s >= ctime[c]
                           /\ img' = Other(c, s)
<1>1. UNCHANGED <<world, pc, job, mounted>>
  BY DEF Time, Commit, Import
<1>2. ASSUME Import
      PROVE  /\ UNCHANGED git
             /\ \E c \in img.from..head, s \in (img.stamp + 1)..clock :
                  /\ s >= ctime[c]
                  /\ img' = Other(c, s)
  BY <1>2 DEF Import
<1>3. Import /\ world.alone => Quiet
  BY DEF Import
<1> QED
  BY <1>1, <1>2, <1>3

LEMMA AloneSurroundings ==
  ASSUME TypeInv, GitInv, AloneInv, world.alone, Time \/ Commit \/ Import
  PROVE  AloneInv' /\ img'.from >= img.from
<1> USE DEF TypeInv
<1>1. UNCHANGED <<world, pc, job, mounted>>
  BY Surroundings
<1>2. \A p, q \in Procs : (~Resting(p) /\ ~Resting(q) => p = q)'
  BY <1>1 DEF AloneInv, Resting
<1>3. img.from \in Int /\ img.stamp \in Int /\ head \in Int /\ img.from \in Commits
  BY DEF TypeOK, GitTypeOK, Image, Commits, Times
<1>4. CASE Time \/ Commit
  <2>1. UNCHANGED <<img, repo>> /\ head' >= head /\ head' \in Int
    BY <1>3, <1>4 DEF Time, Tick, Commit, Push
  <2>2. \A c \in Commits : c <= head => ctime'[c] = ctime[c]
    BY <1>3, <1>4 DEF Time, Tick, Commit, Push, TypeOK, GitTypeOK, Commits
  <2>3. ImageInv'
    BY <1>1, <1>3, <2>1, <2>2 DEF ImageInv, TrueLabel, AloneInv, May
  <2>4. ASSUME NEW p \in Procs
        PROVE  /\ Sees(pc[p], job[p])' /\ Knows(pc[p], job[p])'
               /\ Builds(pc[p], job[p])' /\ Keeps(pc[p], job[p])'
    <3>1. Sees(pc[p], job[p])' /\ Knows(pc[p], job[p])' /\ Keeps(pc[p], job[p])'
      <4>1. Sees(pc[p], job[p]) /\ Knows(pc[p], job[p]) /\ Keeps(pc[p], job[p])
        BY DEF AloneInv
      <4>2. Sees(pc[p], job[p])' /\ Keeps(pc[p], job[p])'
        BY <1>1, <2>1, <4>1 DEF Sees, Keeps, May
      <4>3. Knows(pc[p], job[p])'
        BY <1>1, <2>1, <4>1 DEF Knows, HeadOf, Checked, Built
      <4> QED
        BY <4>2, <4>3
    <3>2. job[p].new.from \in Commits /\ job[p].new.from \in Int
      BY DEF TypeOK, Job, Image, Commits
    <3>3. Builds(pc[p], job[p])
      BY DEF AloneInv
    <3>4. Builds(pc[p], job[p])'
      <4>1. TrueLabel(job[p].new)' <=> TrueLabel(job[p].new)
        BY <1>1 DEF TrueLabel, May
      <4> QED
        BY <1>1, <1>3, <2>1, <2>2, <3>2, <3>3, <4>1
           DEF Builds, Late, Last, May, Ready, HeadOf, Built
    <3> QED
      BY <3>1, <3>4
  <2> QED
    BY <1>1, <1>2, <1>3, <2>1, <2>3, <2>4 DEF AloneInv
<1>5. CASE Import
  <2>1. \A p \in Procs : pc'[p] \in {"idle", "dead"}
    BY <1>1, <1>5, Surroundings DEF Quiet, Resting
  <2>2. \A p \in Procs : /\ Sees(pc[p], job[p])' /\ Knows(pc[p], job[p])'
                         /\ Builds(pc[p], job[p])' /\ Keeps(pc[p], job[p])'
    BY <2>1 DEF Sees, Knows, Builds, Keeps, Looking, Asking, Middle, Late, Last
  <2>3. PICK c \in img.from..head, s \in (img.stamp + 1)..clock :
          /\ s >= ctime[c]
          /\ img' = Other(c, s)
    BY <1>5, Surroundings
  <2>4. /\ img'.from = c /\ img'.label = c /\ img'.stamp = s /\ img'.env = TRUE
        /\ img'.torn = FALSE /\ img'.branch = "branch"
    BY <2>3 DEF Other, First
  <2>5. ImageInv' /\ img'.from >= img.from
    <3>1. UNCHANGED <<head, ctime>>
      BY <1>5, Surroundings DEF git
    <3>2. c \in Int /\ s \in Int /\ c <= head /\ c >= img.from /\ ctime[c] <= s
      <4>1. c \in Commits /\ ctime[c] \in Int
        <5>1. c \in Commits
          <6>1. img.from \in Commits /\ head \in Commits
            BY <1>3 DEF TypeInv, TypeOK, GitTypeOK
          <6> QED
            BY <2>3, <6>1 DEF Commits
        <5>2. ctime[c] \in Times
          BY <5>1, <2>3 DEF TypeOK, GitTypeOK
        <5> QED
          BY <5>1, <5>2 DEF Times
      <4> QED
        BY <1>3, <2>3, <4>1 DEF Commits
    <3> QED
      BY <2>4, <3>1, <3>2 DEF ImageInv, TrueLabel
  <2> QED
    BY <1>1, <1>2, <2>2, <2>5 DEF AloneInv
<1> QED
  BY <1>4, <1>5

(* While p runs all others rest, so it is enough to look at p.             *)
Fine(p) ==
  /\ Sees(pc[p], job[p]) /\ Knows(pc[p], job[p])
  /\ Builds(pc[p], job[p]) /\ Keeps(pc[p], job[p])

LEMMA AloneFrame ==
  ASSUME TypeInv, AloneInv, world.alone, UNCHANGED world,
         NEW p \in Procs, Command(p) \/ Kill(p), ImageInv', Fine(p)'
  PROVE  AloneInv'
<1> USE DEF TypeInv
<1>1. \A q \in Procs : q # p => pc[q] \in {"idle", "dead"}
  <2>1. CASE Visit(p)
    BY <2>1 DEF Visit, Resting
  <2>2. CASE ~Visit(p)
    <3>1. ~Resting(p)
      BY <2>2 DEF Command, DlFileGit, Pull, Clone, Check, Mount, ReadSource, ReadCommit, Head,
         Stamp, Script, Decide, Build, InitBuilder, DestFromSource, DestFromImage, Container,
         Start, Run, Attach, AttachFails, Label, Squash, Publish, Restore, End, Clean, Stop,
         Destroy, Kill, At, Resting
    <3> QED
      BY <3>1 DEF AloneInv, Resting
  <2> QED
    BY <2>1, <2>2
<1>2. \A q \in Procs : q # p => pc'[q] \in {"idle", "dead"}
  BY <1>1, Others
<1>3. ASSUME NEW q \in Procs, q # p PROVE Fine(q)'
  BY <1>2, <1>3
     DEF Fine, Sees, Knows, Builds, Keeps, Looking, Asking, Middle, Late, Last
<1>4. \A q \in Procs : Fine(q)'
  BY <1>3
<1>5. \A q, r \in Procs : (~Resting(q) /\ ~Resting(r) => q = r)'
  BY <1>2 DEF Resting
<1> QED
  BY <1>4, <1>5 DEF AloneInv, Fine

LEMMA AloneGit ==
  ASSUME TypeInv, GitInv, ClonesInv, AloneInv, world.alone, NEW p \in Procs, DlFileGit(p)
  PROVE  Fine(p)' /\ ImageInv' /\ UNCHANGED <<world, img>>
<1> USE DEF TypeInv
<1>1. UNCHANGED <<clock, head, ctime, world, img, mounted, job>>
  BY DEF DlFileGit, Pull, Clone
<1>2. /\ \A c \in Checkouts : repo'[c].at \in {repo[c].at, Tip(c)} /\ repo[c].at \in Int
      /\ head \in Int /\ img.from \in Int /\ Tip("branch") = head
  BY RepoType DEF Repo, Image, Commits, TypeOK, GitTypeOK, Tip
<1>3. \/ pc[p] \in {"pull", "clone"} /\ pc'[p] \in {"clone", "head", "clean"}
      \/ pc[p] \in {"pull2", "clone2"} /\ pc'[p] \in {"clone2", "dest", "clean"}
  BY DEF DlFileGit, Pull, Clone, goto, Fail, At, TypeOK
<1>4. ImageInv /\ ImageInv' /\ Fine(p)
  BY <1>1 DEF AloneInv, ImageInv, TrueLabel, Fine, May
<1>5. Sees(pc[p], job[p])' /\ job[p].img = img
  BY <1>1, <1>3, <1>4 DEF Fine, Sees, Looking, Asking, Middle, Late, Last
<1>6. world.web => Built(job[p]) = "branch"
  BY <1>4, <1>5 DEF ImageInv, Built
<1>7. Knows(pc[p], job[p])'
  <2>1. /\ job[p].src /\ img.label = img.from
        /\ pc'[p] \in Asking => pc[p] \in Asking /\ job[p].commit = img.label
    BY <1>3, <1>4 DEF Fine, Knows, Looking, Asking, Middle
  <2>2. pc'[p] \in Middle /\ world.web => HeadOf(Built(job[p]))' >= img.from
    <3>1. SUFFICES ASSUME pc'[p] \in Middle, world.web PROVE repo'["branch"].at >= img.from
      BY <1>1, <1>6 DEF HeadOf, Built
    <3>2. repo["branch"].at >= img.from
      BY <1>3, <1>4, <1>6, <2>1, <3>1 DEF Fine, Knows, HeadOf, Middle
    <3> QED
      BY <1>2, <1>4, <3>2 DEF ImageInv, Checkouts
  <2> QED
    BY <1>1, <1>3, <2>1, <2>2 DEF Knows, Asking, Middle, HeadOf
<1>8. pc'[p] = "dest" /\ ~May("fail") => Ready(Built(job[p]))'
  <2> DEFINE c == Built(job[p])
  <2>1. SUFFICES ASSUME pc'[p] = "dest", ~May("fail") PROVE repo'[c].st = "ready"
    BY <1>1 DEF Ready, Built
  <2>2. c \in Checkouts /\ repo \in [Checkouts -> Repo]
    BY CheckoutTypes DEF TypeOK, GitTypeOK
  <2>3. repo[c].st # "cloning" \/ pc[p] # "pull2"
    <3>1. SUFFICES ASSUME repo[c].st = "cloning", pc[p] = "pull2" PROVE FALSE
      OBVIOUS
    <3>2. PICK q \in Procs : Clones(q, c)
      BY <2>2, <3>1 DEF ClonesInv
    <3> QED
      BY <3>1, <3>2 DEF AloneInv, Resting, Clones
  <2>4. \/ Pull(p, c, "pull2", "clone2", "dest") /\ pc[p] = "pull2"
        \/ Clone(p, c, "clone2", "dest")
    BY <2>1 DEF DlFileGit, Pull, Clone, At, Fail, goto, TypeOK
  <2>5. HasTip(c, Tip(c))
    BY <2>1, <2>3, <2>4 DEF Pull, Clone, PullSucceeds, EndClone, Fail, goto, TypeOK
  <2> QED
    BY <2>2, <2>5 DEF HasTip
<1>9. Builds(pc[p], job[p])'
  <2>1. /\ pc[p] \in {"pull2", "clone2"} => job[p].new.label = NoCommit
        /\ pc[p] \in {"pull2", "clone2"} /\ world.web => job[p].new.branch = "branch"
    BY <1>3, <1>4 DEF Fine, Knows, Builds
  <2> QED
    BY <1>1, <1>3, <1>8, <2>1 DEF Builds, Late, Last, May
<1>10. Keeps(pc[p], job[p])'
  BY <1>1, <1>3, <1>4 DEF Fine, Keeps, Late, Last, May
<1> QED
  BY <1>1, <1>4, <1>5, <1>7, <1>9, <1>10 DEF Fine

LEMMA AloneCheck ==
  ASSUME TypeInv, MountsInv, GitInv, AloneInv, world.alone, NEW p \in Procs, Check(p)
  PROVE  Fine(p)' /\ ImageInv' /\ UNCHANGED <<world, img>>
<1> USE DEF TypeInv, TypeOK, GitTypeOK, goto, At, Fail
<1>1. UNCHANGED <<git, world, img>>
  BY DEF Check, Visit, Mount, ReadSource, ReadCommit, Head, Stamp, LatestIs, Script, Decide,
         system
<1>2. ImageInv /\ ImageInv' /\ Fine(p)
  BY <1>1 DEF AloneInv, ImageInv, TrueLabel, Fine, git, May
<1>3. pc'[p] \in {"mount", "source", "commit", "pull", "script", "stamp", "decide", "init", "clean"}
  BY DEF Check, Visit, Mount, ReadSource, ReadCommit, Head, Stamp, LatestIs, Script, Decide
<1>4. Builds(pc[p], job[p])' /\ Keeps(pc[p], job[p])'
  BY <1>3 DEF Builds, Keeps, Late, Last
<1>5. CASE pc'[p] = "clean"
  <2>1. Sees(pc[p], job[p])' /\ Knows(pc[p], job[p])'
    BY <1>5 DEF Sees, Knows, Asking, Middle, Looking, Late, Last
  <2> QED
    BY <1>1, <1>2, <1>4, <2>1 DEF Fine
<1>6. CASE Visit(p)
  <2>1. job'[p].img = img /\ UNCHANGED mounted
        /\ pc'[p] = IF mounted[img.stamp] > 0 THEN "source" ELSE "mount"
    BY <1>6 DEF Visit, system, Job
  <2> QED
    BY <1>1, <1>2, <1>4, <2>1 DEF Fine, Sees, Knows, Asking, Middle
<1>7. CASE Mount(p) /\ pc'[p] # "clean"
  <2>1. job'[p].img = img /\ pc'[p] = "source"
    BY <1>7 DEF Mount, Job
  <2>2. mounted[img.stamp] \in Nat /\ img.stamp \in Times
    <3>1. img.stamp \in Times
      BY DEF Image
    <3> QED
      BY <3>1, OwnedType DEF MountsInv, Booted
  <2>3. mounted'[img.stamp] > 0
    BY <1>7, <2>2 DEF Mount
  <2> QED
    BY <1>1, <1>2, <1>4, <2>1, <2>3 DEF Fine, Sees, Knows, Asking, Middle
<1>8. CASE ReadSource(p)
  <2>1. Sees(pc[p], job[p]) /\ pc[p] = "source"
    BY <1>2, <1>8 DEF Fine, ReadSource
  <2>2. job[p].img = img /\ mounted[img.stamp] > 0 /\ MountThere(p)
    BY <2>1 DEF Sees, Looking, MountThere
  <2>3. /\ job'[p].img = img /\ UNCHANGED mounted
        /\ job'[p].src = (img.label # NoCommit)
        /\ pc'[p] = IF img.label # NoCommit THEN "commit" ELSE "script"
    BY <1>8, <2>2 DEF ReadSource, system, Job
  <2>4. img.label # NoCommit => img.label = img.from
    BY <1>2 DEF ImageInv, TrueLabel
  <2> QED
    BY <1>1, <1>2, <1>4, <2>2, <2>3, <2>4 DEF Fine, Sees, Knows, Asking, Middle
<1>9. CASE ReadCommit(p)
  <2>1. Sees(pc[p], job[p]) /\ pc[p] = "commit" /\ job[p].src /\ img.label = img.from
    BY <1>2, <1>9 DEF Fine, ReadCommit, Knows, Looking
  <2>2. job[p].img = img /\ mounted[img.stamp] > 0 /\ MountThere(p)
    BY <2>1 DEF Sees, Looking, MountThere
  <2>3. job'[p].img = img /\ job'[p].src = job[p].src /\ job'[p].commit = img.label
        /\ pc'[p] = "pull" /\ UNCHANGED mounted
    BY <1>9, <2>2 DEF ReadCommit, system, Job
  <2> QED
    BY <1>1, <1>2, <1>4, <2>1, <2>2, <2>3 DEF Fine, Sees, Knows, Asking, Middle
<1>10. CASE Head(p) /\ pc'[p] # "clean"
  <2>1. pc[p] = "head" /\ pc'[p] \in {"script", "stamp"} /\ UNCHANGED <<job, mounted>>
        /\ (pc'[p] = "script" => HeadOf(Checked(job[p])) = job[p].commit)
    BY <1>10 DEF Head, system
  <2>2. Sees(pc[p], job[p])'
    BY <1>1, <1>2, <2>1 DEF Fine, Sees, Looking, Asking
  <2>3. /\ job[p].src /\ img.label = img.from /\ job[p].commit = img.label
    BY <1>2, <2>1 DEF Fine, Knows, Looking, Asking
  <2>4. Knows(pc[p], job[p])'
    BY <1>1, <2>1, <2>3 DEF Knows, Asking, Middle, git, HeadOf, Checked
  <2> QED
    BY <1>1, <1>2, <1>4, <2>2, <2>4 DEF Fine
<1>11. CASE Stamp(p) \/ (Script(p) /\ pc'[p] # "clean")
  <2> DEFINE at == HeadOf(Checked(job[p]))
  <2>1. PICK t : LatestIs(p, t) /\ (Stamp(p) => t = ctime[at])
    BY <1>11 DEF Stamp, LastStamp, Script
  <2>2. job'[p].img = job[p].img /\ job'[p].src = job[p].src /\ job'[p].latest = t
        /\ pc'[p] = "decide" /\ UNCHANGED mounted /\ pc[p] \in {"stamp", "script"}
    BY <1>11, <2>1 DEF LatestIs, Stamp, Script, system, Job
  <2>3. Sees(pc[p], job[p])'
    BY <1>1, <1>2, <1>11, <2>2 DEF Fine, Sees, Looking, Asking, Stamp, Script
  <2>4. at \in Commits /\ img.from \in Commits
    BY CheckoutTypes DEF Repo, Image, HeadOf
  <2> HIDE DEF at
  <2>5. Stamp(p) /\ t > img.stamp => at >= img.from
    <3>1. ctime[at] \in Int /\ ctime[img.from] \in Int /\ img.stamp \in Int
          /\ at \in Int /\ img.from \in Int
      <4>1. ctime[at] \in Times /\ ctime[img.from] \in Times /\ img.stamp \in Times
        BY <2>4 DEF Image
      <4> QED
        BY <2>4, <4>1 DEF Times, Commits
    <3>2. at <= img.from => ctime[at] <= ctime[img.from]
      BY <2>4 DEF GitInv
    <3> QED
      BY <1>2, <2>1, <3>1, <3>2 DEF ImageInv
  <2>6. Script(p) /\ job[p].src => at = img.from
    BY <1>2 DEF Fine, Knows, Script, at
  <2>7. job[p].src => img.label = img.from
    BY <1>2, <2>2 DEF Fine, Knows, Looking, Asking
  <2>8. at = HeadOf(Checked(job[p]))'
    BY <1>1, <2>2 DEF at, HeadOf, Checked, git
  <2>9. Knows(pc[p], job[p])'
    BY <1>1, <1>11, <2>2, <2>4, <2>5, <2>6, <2>7, <2>8 DEF Knows, Asking, Middle, Commits
  <2> QED
    BY <1>1, <1>2, <1>4, <2>3, <2>9 DEF Fine
<1>12. CASE Decide(p) /\ pc'[p] # "clean"
  <2>1. pc[p] = "decide" /\ pc'[p] = "init" /\ UNCHANGED <<job, mounted>>
        /\ job[p].latest > job[p].img.stamp
    BY <1>12 DEF Decide, system
  <2>2. Sees(pc[p], job[p]) /\ Sees(pc[p], job[p])' /\ job[p].img = img
    BY <1>1, <1>2, <2>1 DEF Fine, Sees, Looking, Asking, Middle
  <2>3. job[p].src => img.label = img.from /\ HeadOf(Checked(job[p])) >= img.from
    BY <1>2, <2>1, <2>2 DEF Fine, Knows, Looking
  <2>4. world.web => Built(job[p]) = Checked(job[p])
    BY DEF Built, Checked
  <2>5. Knows(pc[p], job[p])'
    BY <1>1, <2>1, <2>3, <2>4 DEF Knows, Asking, Middle, git, HeadOf, Built
  <2> QED
    BY <1>1, <1>2, <1>4, <2>2, <2>5 DEF Fine
<1> QED
  BY <1>5, <1>6, <1>7, <1>8, <1>9, <1>10, <1>11, <1>12 DEF Check

LEMMA AloneBuild ==
  ASSUME TypeInv, GitInv, AloneInv, world.alone, NEW p \in Procs, Build(p)
  PROVE  Fine(p)' /\ ImageInv' /\ UNCHANGED world /\ (world.web => img'.from >= img.from)
<1> USE DEF TypeInv, TypeOK, GitTypeOK, goto, At, Fail
<1>1. UNCHANGED <<git, world>>
  BY BuildSystem
<1>2. ImageInv /\ Fine(p)
  BY DEF AloneInv, Fine
<1> DEFINE c == Built(job[p])
<1>3. /\ job[p] \in Job /\ job[p].new \in Image /\ img.from \in Int /\ c \in Checkouts
      /\ HeadOf(c) \in Commits /\ HeadOf(c) \in Int /\ HeadOf(c) <= head /\ head \in Int
  <2>1. job[p] \in Job /\ c \in Checkouts /\ img.from \in Commits /\ repo[c] \in Repo
    BY CheckoutTypes DEF Image
  <2>2. job[p].new \in Image
    BY <2>1 DEF Job
  <2>3. HeadOf(c) \in Commits /\ HeadOf(c) <= head
    BY <2>1 DEF HeadOf, GitInv, Repo
  <2> QED
    BY <2>1, <2>2, <2>3 DEF Commits
<1>4. ASSUME UNCHANGED <<img, mounted>>, pc[p] \in Middle \cup Late \cup Last,
             job'[p].img = job[p].img, job'[p].src = job[p].src,
             pc'[p] \in {"pull2", "dest"} => pc[p] = "init" /\ (pc'[p] = "pull2" => job[p].src),
             pc'[p] \in {"pull2", "dest"} \cup Late \cup Last,
             Builds(pc[p], job[p])', Keeps(pc[p], job[p])'
      PROVE  Fine(p)' /\ ImageInv' /\ UNCHANGED world /\ img'.from >= img.from
  <2>1. Sees(pc[p], job[p])'
    BY <1>2, <1>4 DEF Fine, Sees, Looking, Asking, Middle, Late, Last
  <2>2. Knows(pc[p], job[p])'
    <3>1. Built(job[p])' = c
      BY <1>1, <1>4 DEF Built
    <3>2. Knows(pc[p], job[p])
      BY <1>2 DEF Fine
    <3>3. job[p].src => img.label = img.from
      BY <1>4, <3>2 DEF Knows, Looking, Asking, Middle, Late, Last
    <3>4. pc'[p] \in Middle /\ job[p].src /\ world.web => HeadOf(c) >= img.from
      BY <1>4, <3>2 DEF Knows, Middle, Late, Last
    <3> HIDE DEF c
    <3> QED
      BY <1>1, <1>4, <3>1, <3>3, <3>4 DEF Knows, Asking, Middle, Late, Last, git, HeadOf
  <2>3. ImageInv'
    BY <1>1, <1>2, <1>4 DEF ImageInv, TrueLabel, May, git
  <2> QED
    BY <1>1, <1>3, <1>4, <2>1, <2>2, <2>3 DEF Fine
<1>5. ASSUME UNCHANGED img, pc'[p] \in {"restore", "clean"}
      PROVE  Fine(p)' /\ ImageInv' /\ UNCHANGED world /\ img'.from >= img.from
  <2>1. Fine(p)'
    BY <1>5 DEF Fine, Sees, Knows, Builds, Keeps, Looking, Asking, Middle, Late, Last
  <2>2. ImageInv'
    BY <1>1, <1>2, <1>5 DEF ImageInv, TrueLabel, May, git
  <2> QED
    BY <1>1, <1>3, <1>5, <2>1, <2>2
<1>6. CASE InitBuilder(p)
  <2>1. pc[p] = "init" /\ UNCHANGED <<img, mounted>>
        /\ pc'[p] = IF job[p].src THEN "pull2" ELSE "dest"
    BY <1>6 DEF InitBuilder, system
  <2>2. job[p].img = img /\ MountThere(p)
    BY <1>2, <2>1 DEF Fine, Sees, Looking, Middle, MountThere
  <2>3. job'[p].img = job[p].img /\ job'[p].src = job[p].src
        /\ job'[p].new = Blank(MountThere(p) /\ job[p].img.env)
    BY <1>6 DEF InitBuilder, Job
  <2>4. /\ job'[p].new.env = (MountThere(p) /\ job[p].img.env)
        /\ job'[p].new.label = NoCommit /\ job'[p].new.branch = "branch"
    BY <2>3 DEF Blank, First
  <2>5. job'[p].new.env = TRUE
    BY <1>2, <2>2, <2>4 DEF ImageInv
  <2>6. Builds(pc[p], job[p])' /\ Keeps(pc[p], job[p])'
    BY <2>1, <2>3, <2>4, <2>5 DEF Builds, Keeps, Late, Last
  <2> QED
    BY <1>4, <2>1, <2>3, <2>6 DEF Middle
<1>7. CASE DestFromSource(p) /\ pc'[p] # "clean"
  <2>1. pc[p] = "dest" /\ pc'[p] \in {"label", "container"} /\ UNCHANGED <<img, mounted>>
        /\ job[p].src
    BY <1>7 DEF DestFromSource, BuildWith
  <2>2. PICK torn \in {~Ready(c), ~Ready(c) \/ May("fail")}, n \in 0..NScripts :
          job' = [job EXCEPT ![p].new.from = HeadOf(c), ![p].new.torn = torn,
                             ![p].new.scripts = n]
    BY <1>7 DEF DestFromSource
  <2>3. job'[p].img = job[p].img /\ job'[p].src = job[p].src /\ job'[p].new.from = HeadOf(c)
        /\ job'[p].new.env = job[p].new.env /\ job'[p].new.torn = torn
        /\ job'[p].new.label = job[p].new.label /\ job'[p].new.branch = job[p].new.branch
    BY <1>3, <2>2 DEF Job, Image
  <2>4. /\ job[p].new.env = TRUE /\ job[p].new.label = NoCommit
        /\ ~May("fail") => Ready(c)
        /\ world.web => job[p].new.branch = "branch"
        /\ world.web => HeadOf(c) >= img.from
    BY <1>2, <2>1 DEF Fine, Knows, Builds, Keeps, Middle
  <2>5. HeadOf(Built(job[p]))' = HeadOf(c) /\ (Ready(Built(job[p]))' <=> Ready(c))
    BY <1>1, <2>3 DEF Built, git, HeadOf, Ready
  <2>6. ~May("fail") => torn = FALSE
    <3> DEFINE ready == Ready(c)
               fail == May("fail")
    <3>1. ready \in BOOLEAN
      BY DEF Ready
    <3>2. fail \in BOOLEAN
      BY DEF May
    <3>3. ~fail => ready
      BY <2>4, Zenon
    <3>4. torn = ~ready \/ torn = (~ready \/ fail)
      OBVIOUS
    <3> HIDE DEF ready, fail
    <3>5. ~fail => torn = FALSE
      BY <3>1, <3>2, <3>3, <3>4, Zenon
    <3> QED
      BY <3>5 DEF fail
  <2> HIDE DEF c
  <2>7. Builds(pc[p], job[p])'
    BY <1>1, <1>3, <2>1, <2>3, <2>4, <2>5 DEF Builds, Late, Last, May, git
  <2>8. Keeps(pc[p], job[p])'
    BY <1>1, <2>3, <2>4, <2>6 DEF Keeps, May
  <2> QED
    BY <1>4, <2>1, <2>3, <2>7, <2>8 DEF Middle, Late
<1>8. CASE DestFromImage(p)
  <2>1. pc[p] = "dest" /\ pc'[p] \in {"label", "container"} /\ UNCHANGED <<img, mounted>>
        /\ ~job[p].src
    BY <1>8 DEF DestFromImage, BuildWith
  <2>2. job[p].img = img /\ MountThere(p) /\ (world.web => img.branch = "branch")
    BY <1>2, <2>1 DEF Fine, Sees, Looking, Middle, MountThere, ImageInv
  <2>3. /\ job'[p].img = job[p].img /\ job'[p].src = job[p].src
        /\ job'[p].new.from = img.from /\ job'[p].new.branch = img.branch
        /\ job'[p].new.label = IF MountThere(p) THEN img.label ELSE NoCommit
        /\ job'[p].new.env = (job[p].new.env \/ (MountThere(p) /\ img.env))
        /\ job'[p].new.torn = (img.torn \/ ~MountThere(p))
    <3>1. job'[p].new = [job[p].img EXCEPT
               !.label = IF MountThere(p) THEN @ ELSE NoCommit,
               !.env = job[p].new.env \/ (MountThere(p) /\ @),
               !.torn = @ \/ ~MountThere(p),
               !.scripts = IF MountThere(p) THEN job[p].img.scripts ELSE 0, !.ran = 0]
          /\ job'[p].img = job[p].img /\ job'[p].src = job[p].src
      BY <1>3, <1>8 DEF DestFromImage, Job
    <3> HIDE DEF MountThere
    <3> QED
      BY <2>2, <3>1 DEF Image
  <2>4. /\ job'[p].new.label = img.label /\ job'[p].new.env = TRUE
        /\ ~May("fail") => job'[p].new.torn = FALSE
    BY <1>2, <2>2, <2>3 DEF ImageInv
  <2>5. Builds(pc[p], job[p])' /\ Keeps(pc[p], job[p])'
    BY <1>1, <1>2, <1>3, <2>1, <2>2, <2>3, <2>4
       DEF Builds, Keeps, Late, Last, git, ImageInv, TrueLabel, May
  <2> QED
    BY <1>4, <2>1, <2>3, <2>5 DEF Middle, Late
<1>9. ASSUME UNCHANGED <<img, mounted>>, pc[p] \in Late \ {"label"}, pc'[p] \in Late,
             job'[p].img = job[p].img, job'[p].src = job[p].src,
             job'[p].new.from = job[p].new.from, job'[p].new.label = job[p].new.label,
             job'[p].new.env = job[p].new.env, job'[p].new.torn = job[p].new.torn,
             job'[p].new.branch = job[p].new.branch
      PROVE  Fine(p)' /\ ImageInv' /\ UNCHANGED world /\ img'.from >= img.from
  <2>1. Built(job[p])' = c /\ HeadOf(c)' = HeadOf(c) /\ (Ready(c)' <=> Ready(c))
    BY <1>1, <1>9 DEF Built, git, HeadOf, Ready
  <2>2. Builds(pc[p], job[p]) /\ Keeps(pc[p], job[p])
    BY <1>2 DEF Fine
  <2> HIDE DEF c
  <2>3. Builds(pc[p], job[p])'
    BY <1>1, <1>9, <2>1, <2>2 DEF Builds, TrueLabel, Late, Last, git, May, c
  <2>4. Keeps(pc[p], job[p])'
    BY <1>1, <1>9, <2>2 DEF Keeps, Late, Last, May
  <2> QED
    BY <1>4, <1>9, <2>3, <2>4 DEF Late
<1>10. CASE Container(p) \/ Start(p) \/ Run(p)
  <2>1. UNCHANGED <<img, mounted>> /\ pc[p] \in Late \ {"label"}
        /\ pc'[p] \in {"start", "apt", "run", "label", "clean"}
    BY <1>10 DEF Container, Start, Run, Attach, AttachFails, Late, system
  <2>2. /\ job'[p].img = job[p].img /\ job'[p].src = job[p].src
        /\ job'[p].new.from = job[p].new.from /\ job'[p].new.label = job[p].new.label
        /\ job'[p].new.env = job[p].new.env /\ job'[p].new.torn = job[p].new.torn
        /\ job'[p].new.branch = job[p].new.branch
    <3>1. CASE UNCHANGED job
      BY <3>1
    <3>2. CASE job' = [job EXCEPT ![p].apt = TRUE]
      BY <3>2 DEF Job
    <3>3. CASE job' = [job EXCEPT ![p].new.ran = @ + 1]
      <4>1. job'[p] = [job[p] EXCEPT !.new = [job[p].new EXCEPT !.ran = job[p].new.ran + 1]]
        BY <3>3
      <4>2. job'[p].new = [job[p].new EXCEPT !.ran = job[p].new.ran + 1]
            /\ job'[p].img = job[p].img /\ job'[p].src = job[p].src
        BY <1>3, <4>1 DEF Job
      <4> QED
        BY <1>3, <4>2 DEF Image
    <3> QED
      BY <1>10, <3>1, <3>2, <3>3 DEF Container, Start, Run, Attach, AttachFails
  <2> QED
    BY <1>5, <1>9, <2>1, <2>2 DEF Late
<1>11. CASE Label(p) /\ pc'[p] # "clean"
  <2> DEFINE b == IF c = "branch" \/ ~world.side THEN "branch" ELSE "default"
  <2>1. pc[p] = "label" /\ pc'[p] = "squash" /\ UNCHANGED <<img, mounted>>
    BY <1>11 DEF Label, system
  <2>2. Builds("label", job[p]) /\ Keeps("label", job[p]) /\ job[p].img = img
    BY <1>2, <2>1 DEF Fine, Sees, Looking, Late
  <2>3. world.web => c = "branch"
    BY <1>2, <2>2 DEF Built, ImageInv
  <2>4. /\ job'[p].img = job[p].img /\ job'[p].src = job[p].src
        /\ job'[p].new.from = job[p].new.from
        /\ job'[p].new.env = job[p].new.env /\ job'[p].new.torn = job[p].new.torn
        /\ world.web => job'[p].new.branch = "branch"
        /\ TrueLabel(job'[p].new)
    <3>1. CASE UNCHANGED job /\ (~job[p].src \/ May("fail") \/ ~Ready(c))
      BY <2>2, <3>1 DEF Builds, Late, TrueLabel
    <3>2. CASE job[p].src /\ job' = [job EXCEPT ![p].new.label = HeadOf(c), ![p].new.branch = b]
      <4>2. job'[p].new = [job[p].new EXCEPT !.label = HeadOf(c), !.branch = b]
            /\ job'[p].img = job[p].img /\ job'[p].src = job[p].src
        BY <1>3, <3>2 DEF Job
      <4>3. job[p].new.from = HeadOf(c)
        BY <2>2, <3>2 DEF Builds, Late
      <4>4. world.web => b = "branch"
        BY <2>3
      <4> HIDE DEF b, c
      <4> QED
        BY <1>3, <4>2, <4>3, <4>4 DEF Image, TrueLabel
    <3> QED
      BY <1>11, <3>1, <3>2 DEF Label
  <2>5. Builds(pc[p], job[p])' /\ Keeps(pc[p], job[p])'
    BY <1>1, <2>1, <2>2, <2>4 DEF Builds, Keeps, TrueLabel, Late, Last, git, May
  <2> QED
    BY <1>4, <2>1, <2>4, <2>5 DEF Late, Last
<1>12. CASE Squash(p) /\ pc'[p] # "clean"
  <2>1. pc[p] = "squash" /\ pc'[p] \in {"squash", "publish"} /\ UNCHANGED <<img, mounted>>
    BY <1>12 DEF Squash
  <2>2. /\ job'[p].img = job[p].img /\ job'[p].src = job[p].src
        /\ job'[p].new.from = job[p].new.from /\ job'[p].new.label = job[p].new.label
        /\ job'[p].new.env = job[p].new.env /\ job'[p].new.torn = job[p].new.torn
        /\ job'[p].new.branch = job[p].new.branch
        /\ (pc'[p] = "publish" => job'[p].new.stamp = clock)
    <3>1. CASE job' = [job EXCEPT ![p].new.stamp = clock]
      BY <1>3, <3>1 DEF Job, Image
    <3>2. CASE job' = [job EXCEPT ![p].remounted = TRUE] /\ UNCHANGED pc
      BY <2>1, <3>2 DEF Job
    <3> QED
      BY <1>12, <3>1, <3>2 DEF Squash
  <2>3. ctime[job[p].new.from] <= clock
    BY <1>3 DEF GitInv, Image
  <2>4. Builds(pc[p], job[p])' /\ Keeps(pc[p], job[p])'
    BY <1>1, <1>2, <2>1, <2>2, <2>3 DEF Fine, Builds, Keeps, TrueLabel, Late, Last, git, May
  <2> QED
    BY <1>4, <2>1, <2>2, <2>4 DEF Last
<1>13. CASE Publish(p) /\ img' = job[p].new
  <2>1. pc[p] = "publish" /\ pc'[p] \in {"restore", "clean"}
    BY <1>13 DEF Publish
  <2>2. Fine(p)'
    BY <2>1 DEF Fine, Sees, Knows, Builds, Keeps, Looking, Asking, Middle, Late, Last
  <2>3. ImageInv' /\ (world.web => img'.from >= img.from)
    BY <1>1, <1>2, <1>13, <2>1
       DEF ImageInv, TrueLabel, git, May, Fine, Builds, Keeps, Last
  <2> QED
    BY <1>1, <2>2, <2>3
<1>14. CASE \/ Restore(p) \/ (Publish(p) /\ UNCHANGED img)
            \/ ((DestFromSource(p) \/ Label(p) \/ Squash(p)) /\ pc'[p] = "clean")
  <2>1. UNCHANGED img /\ pc'[p] \in {"restore", "clean"}
    BY <1>14 DEF Restore, Publish, DestFromSource, Label, Squash, system
  <2> QED
    BY <1>5, <2>1
<1>15. Publish(p) => img' = job[p].new \/ UNCHANGED img
  BY DEF Publish
<1> QED
  BY <1>1, <1>6, <1>7, <1>8, <1>10, <1>11, <1>12, <1>13, <1>14, <1>15 DEF Build

LEMMA AloneUnchanged ==
  ASSUME AloneInv, UNCHANGED <<world, pc, job, img, mounted, repo, head, ctime>>
  PROVE  AloneInv'
<1>1. ImageInv => ImageInv'
  BY DEF ImageInv, TrueLabel, May
<1>2. ASSUME NEW p \in Procs, Sees(pc[p], job[p]), Knows(pc[p], job[p]),
             Builds(pc[p], job[p]), Keeps(pc[p], job[p])
      PROVE  /\ Sees(pc[p], job[p])' /\ Knows(pc[p], job[p])'
             /\ Builds(pc[p], job[p])' /\ Keeps(pc[p], job[p])'
  <2>1. Sees(pc[p], job[p])' /\ Keeps(pc[p], job[p])'
    BY <1>2 DEF Sees, Keeps, May
  <2>2. Knows(pc[p], job[p])'
    BY <1>2 DEF Knows, HeadOf, Checked, Built
  <2>3. TrueLabel(job[p].new)' <=> TrueLabel(job[p].new)
    BY DEF TrueLabel, May
  <2>4. Builds(pc[p], job[p])'
    BY <1>2, <2>3 DEF Builds, May, Ready, HeadOf, Built
  <2> QED
    BY <2>1, <2>2, <2>4
<1>3. \A p, q \in Procs : (~Resting(p) /\ ~Resting(q) => p = q)' <=> (~Resting(p) /\ ~Resting(q) => p = q)
  BY DEF Resting
<1> QED
  BY <1>1, <1>2, <1>3 DEF AloneInv

LEMMA AloneStep ==
  ASSUME TypeInv, MountsInv, GitInv, ClonesInv, AloneInv, [Next]_vars
  PROVE  AloneInv' /\ (world.alone /\ world.web => img'.from >= img.from)
<1> USE DEF TypeInv
<1>0. img.from \in Int
  BY DEF TypeOK, Image, Commits
<1>1. CASE UNCHANGED vars
  <2>1. AloneInv'
    <3>1. UNCHANGED <<world, pc, job, img, mounted, repo, head, ctime>>
      BY <1>1 DEF vars, git
    <3> QED
      BY <3>1, AloneUnchanged
  <2> QED
    BY <1>0, <1>1, <2>1 DEF vars
<1>2. CASE Time \/ Commit \/ Import
  <2>1. UNCHANGED world
    BY <1>2 DEF Time, Commit, Import
  <2>2. CASE world.alone
    BY <1>2, <2>2, AloneSurroundings
  <2> QED
    BY <2>1, <2>2 DEF AloneInv
<1>3. ASSUME NEW p \in Procs, Command(p) \/ ContainerEnds(p) \/ Kill(p)
      PROVE  AloneInv' /\ (world.alone /\ world.web => img'.from >= img.from)
  <2>1. UNCHANGED world
    BY <1>3, BuildSystem DEF Command, DlFileGit, Pull, Clone, Check, Visit, Mount, ReadSource,
       ReadCommit, Head, Stamp, Script, Decide, End, Clean, Stop, Destroy, ContainerEnds, Kill,
       system
  <2>2. CASE ~world.alone
    BY <2>1, <2>2 DEF AloneInv
  <2>3. CASE world.alone /\ (DlFileGit(p) \/ Check(p) \/ Build(p))
    BY <1>0, <2>3, AloneGit, AloneCheck, AloneBuild, AloneFrame DEF Command
  <2>4. CASE world.alone /\ (End(p) \/ Kill(p))
    <3>1. UNCHANGED <<world, img, head, ctime>> /\ pc'[p] \in {"idle", "stop", "destroy", "dead"}
      BY <2>4 DEF End, Clean, Stop, Destroy, Kill, goto, TypeOK, git
    <3>2. Fine(p)'
      BY <3>1 DEF Fine, Sees, Knows, Builds, Keeps, Looking, Asking, Middle, Late, Last
    <3>3. ImageInv'
      BY <2>4, <3>1 DEF AloneInv, ImageInv, TrueLabel, May
    <3> QED
      BY <1>0, <2>4, <3>1, <3>2, <3>3, AloneFrame DEF Command
  <2>5. CASE ContainerEnds(p)
    <3>1. AloneInv'
      <4>1. UNCHANGED <<world, pc, job, img, mounted, repo, head, ctime>>
        BY <2>5 DEF ContainerEnds, git
      <4> QED
        BY <4>1, AloneUnchanged
    <3> QED
      BY <1>0, <2>5, <3>1 DEF ContainerEnds
  <2> QED
    BY <1>3, <2>2, <2>3, <2>4, <2>5 DEF Command
<1> QED
  BY <1>1, <1>2, <1>3 DEF Next

LEMMA AloneInvariant == Spec => [](TypeInv /\ MountsInv /\ GitInv /\ ClonesInv /\ AloneInv)
  BY TypeInit, TypeStep, MountsInit, MountsStep, AloneInit, AloneStep, GitStep, ClonesStep, PTL
     DEF Spec

(* What is published was built to the end: all scripts in its tree have    *)
(* succeeded, and scripts are missing only with other files.  One command  *)
(* at a time and if no command fails, the tree is that of its source; that *)
(* git archive fails is not noticed by the build.                          *)
THEOREM BuiltWhole == Spec => []Complete
<1>1. TypeInv /\ AloneInv => Complete
  BY DEF TypeInv, RanInv, Whole, AloneInv, ImageInv, Complete
<1> QED
  BY <1>1, AloneInvariant, PTL

(* One command at a time: the label written into an image at the end of    *)
(* its build is the commit it was built from, however pulls, builds and    *)
(* mounts fail; only where commands fail can it be missing, since          *)
(* source_url makes nothing of a failing git.                              *)
THEOREM Labelled == Spec => []LabelTrue
<1>1. AloneInv => LabelTrue
  BY DEF AloneInv, ImageInv, TrueLabel, LabelTrue
<1> QED
  BY <1>1, AloneInvariant, PTL

(* One command at a time: an image has the build settings of the one it    *)
(* replaces, whichever of the two ways to build it was taken.              *)
THEOREM SettingsHandedOn == Spec => []SettingsKept
<1>1. AloneInv => SettingsKept
  BY DEF AloneInv, ImageInv, SettingsKept
<1> QED
  BY <1>1, AloneInvariant, PTL

(* One command at a time, and check and build use the same checkout, as    *)
(* they do for http, https and git URLs: an image is never replaced by one *)
(* of an earlier commit, although a failing pull leaves an old checkout to *)
(* build from.                                                             *)
THEOREM NeverOlder == Spec => NeverBack
<1>1. /\ TypeInv /\ MountsInv /\ GitInv /\ ClonesInv /\ AloneInv /\ [Next]_vars
      => [world.alone /\ world.web => img'.from >= img.from]_vars
  BY AloneStep
<1> QED
  BY <1>1, AloneInvariant, PTL DEF Spec, NeverBack
=============================================================================
