-------------------------- MODULE HttpCacheProofs --------------------------
(***************************************************************************)
(* Theorems about HttpCache, for any number of processes, of versions and  *)
(* of reads in a file.                                                     *)
(***************************************************************************)
EXTENDS HttpCache, TLAPS

USE HttpAssumption

(* A temporary name has the number of some process, and of the process     *)
(* itself unless the processes are in containers of their own.             *)
LEMMA Numbers ==
  ASSUME NEW p \in Procs
  PROVE  Number(p) \in Procs /\ (~world.same => Number(p) = p)
BY DEF Number

LEMMA Typing == NoFile \in File /\ NoJob \in Job /\ \A v \in Versions : Copy(v) \in Data
BY DEF NoFile, File, Empty, Data, None, NoJob, Job, Dates, Versions, Copy, Parts

LEMMA TypeInit == Init => TypeOK
<1> SUFFICES ASSUME Init PROVE TypeOK
  OBVIOUS
<1>1. cache \in File
  <2>1. Copy(0) \in Data
    BY Typing DEF Versions
  <2>2. [there |-> TRUE, data |-> Copy(0), date |-> 0] \in File
    BY <2>1 DEF File, Dates
  <2> QED
    BY <2>2, Typing DEF Init
<1>2. page \in [ver : Versions, date : Dates]
  BY DEF Init, Dates, Versions
<1> QED
  BY <1>1, <1>2, Typing DEF Init, TypeOK

(* A part that is read keeps a file a file.                                *)
LEMMA Written ==
  ASSUME NEW f \in File, NEW i \in Parts, NEW v \in Versions
  PROVE  [f EXCEPT !.data[i] = v] \in File
BY DEF File, Data

LEMMA TypeStep == TypeOK /\ [Next]_vars => TypeOK'
<1> SUFFICES ASSUME TypeOK, [Next]_vars PROVE TypeOK'
  OBVIOUS
<1> USE DEF TypeOK, goto
<1>1. ASSUME Release PROVE TypeOK'
  BY <1>1 DEF Release, Versions, Dates
<1>2. ASSUME NEW p \in Procs, Begin(p) PROVE TypeOK'
  <2>1. [NoJob EXCEPT !.since = IF cache.there /\ cache.data # Empty THEN cache.date ELSE None] \in Job
    BY Typing DEF Job, File, None
  <2> QED
    BY <1>2, <2>1 DEF Begin
<1>3. ASSUME NEW p \in Procs, Ask(p) PROVE TypeOK'
  BY <1>3, Typing DEF Ask, Job
<1>4. ASSUME NEW p \in Procs, Open(p) PROVE TypeOK'
  <2>1. [NoFile EXCEPT !.there = TRUE] \in File
    BY Typing DEF File
  <2> QED
    BY <1>4, <2>1, Numbers DEF Open, Job
<1>5. ASSUME NEW p \in Procs, Read(p) PROVE TypeOK'
  <2> DEFINE i == job[p].read + 1
             n == Number(p)
  <2>1. i \in Parts /\ i \in 0..NParts /\ job[p].ver \in Versions /\ n \in Procs
    BY <1>5, Numbers DEF Read, Job, Parts
  <2>2. /\ temp' = IF job[p].fd = "temp"
                   THEN [temp EXCEPT ![n].data[i] = job[p].ver] ELSE temp
        /\ cache' = IF job[p].fd = "cache"
                    THEN [cache EXCEPT !.data[i] = job[p].ver] ELSE cache
        /\ job' = [job EXCEPT ![p].read = i]
    BY <1>5 DEF Read
  <2> HIDE DEF i, n
  <2>3. cache' \in File
    BY <2>1, <2>2, Written
  <2>4. temp' \in [Procs -> File]
    <3>1. [temp[n] EXCEPT !.data[i] = job[p].ver] \in File
      BY <2>1, Written
    <3>2. [temp EXCEPT ![n].data[i] = job[p].ver] = [temp EXCEPT ![n] = [temp[n] EXCEPT !.data[i] = job[p].ver]]
      BY <2>1
    <3> QED
      BY <2>1, <2>2, <3>1, <3>2
  <2>5. job' \in [Procs -> Job]
    BY <2>1, <2>2 DEF Job
  <2> QED
    BY <1>5, <2>3, <2>4, <2>5 DEF Read
<1>6. ASSUME NEW p \in Procs, ReadEnd(p) PROVE TypeOK'
  BY <1>6 DEF ReadEnd
<1>7. ASSUME NEW p \in Procs, Move(p) PROVE TypeOK'
  <2>1. cache' \in File /\ temp' \in [Procs -> File]
    BY <1>7, Numbers, Typing DEF Move, File, Job
  <2>2. ASSUME NEW q \in Procs PROVE job'[q] \in Job
    <3>1. Follow(p, q) \in {"none", "temp", "cache", "gone"}
      BY DEF Follow, Job
    <3>2. [job[q] EXCEPT !.fd = Follow(p, q)] \in Job
      BY <3>1 DEF Job
    <3> QED
      BY <1>7, <3>2, Typing DEF Move
  <2>3. job' \in [Procs -> Job]
    BY <1>7, <2>2 DEF Move
  <2> QED
    BY <1>7, <2>1, <2>3 DEF Move
<1>8. ASSUME NEW p \in Procs, Fail(p) PROVE TypeOK'
  BY <1>8, Typing DEF Fail
<1>9. ASSUME UNCHANGED vars PROVE TypeOK'
  BY <1>9 DEF vars
<1> QED
  BY <1>1, <1>2, <1>3, <1>4, <1>5, <1>6, <1>7, <1>8, <1>9 DEF Next, dl_file_url

(* The cache, the downloads and what the server sent keep their types.     *)
THEOREM TypeCorrect == Spec => []TypeOK
<1> QED
  BY TypeInit, TypeStep, PTL DEF Spec

-----------------------------------------------------------------------------
Inv == TypeOK /\ WholeInv

LEMMA WholeInit == Init => WholeInv
<1> SUFFICES ASSUME Init PROVE WholeInv
  OBVIOUS
<1>1. CacheWhole
  BY DEF Init, CacheWhole, NoFile, Versions
<1>2. \A p \in Procs : Idle(p) /\ JobInv(p)
  BY DEF Init, Idle, JobInv, NoJob
<1> QED
  BY <1>1, <1>2 DEF WholeInv

(* Processes that download at once have different temporary names.         *)
LEMMA Apart ==
  ASSUME Inv, Sound, NEW p \in Procs, NEW q \in Procs, p # q, ~Idle(p), ~Idle(q)
  PROVE  Number(p) # Number(q)
BY Numbers DEF Inv, WholeInv, Sound

(* What does not touch a process and its file keeps what is said of it.    *)
LEMMA Untouched ==
  ASSUME Inv, NEW q \in Procs, pc'[q] = pc[q], job'[q] = job[q], world' = world,
         Sound => Idle(q) \/ temp'[Number(q)] = temp[Number(q)]
  PROVE  JobInv(q)'
<1>1. Number(q)' = Number(q) /\ (Sound' <=> Sound)
  BY DEF Number, Sound, May
<1> QED
  BY <1>1 DEF Inv, WholeInv, JobInv, Idle

(* One download at a time stays one.                                       *)
LEMMA OneStep ==
  ASSUME Inv, [Next]_vars
  PROVE  (\A p, q \in Procs : world.alone /\ ~Idle(p) /\ ~Idle(q) => p = q)'
<1> SUFFICES ASSUME NEW p \in Procs, NEW q \in Procs,
                    world'.alone, ~Idle(p)', ~Idle(q)'
             PROVE  p = q
  OBVIOUS
<1> USE DEF Idle, goto
<1>0. world' = world
  BY DEF Next, vars, Release, dl_file_url, Begin, Ask, Open, Read, ReadEnd, Move, Fail
<1>1. CASE \E r \in Procs : Begin(r)
  <2>1. PICK r \in Procs : Begin(r)
    BY <1>1
  <2>2. \A s \in Procs : Idle(s)
    BY <2>1, <1>0 DEF Begin
  <2>3. \A s \in Procs : s # r => Idle(s)'
    BY <2>1, <2>2 DEF Begin, Inv, TypeOK
  <2> QED
    BY <2>3
<1>2. CASE ~\E r \in Procs : Begin(r)
  <2>1. \A s \in Procs : ~Idle(s)' => ~Idle(s)
    BY <1>2 DEF Next, vars, Release, dl_file_url, Ask, Open, Read, ReadEnd, Move, Fail, Inv, TypeOK
  <2> QED
    BY <2>1, <1>0 DEF Inv, WholeInv
<1> QED
  BY <1>1, <1>2

LEMMA WholeStep == Inv /\ [Next]_vars => WholeInv'
<1> SUFFICES ASSUME Inv, [Next]_vars PROVE WholeInv'
  OBVIOUS
<1>0. \A p, q \in Procs : Number(p)' = Number(p) /\ (Sound' <=> Sound)
  <2>1. world' = world
    BY DEF Next, vars, Release, dl_file_url, Begin, Ask, Open, Read, ReadEnd, Move, Fail
  <2> QED
    BY <2>1 DEF Number, Sound, May
<1> SUFFICES CacheWhole' /\ \A q \in Procs : JobInv(q)'
  BY OneStep DEF WholeInv
<1> USE DEF Inv, TypeOK, goto
<1>1. CASE Release
  BY <1>1 DEF Release, WholeInv, CacheWhole, JobInv, Sound, May, Number
<1>2. CASE UNCHANGED vars
  BY <1>2 DEF vars, WholeInv, CacheWhole, JobInv, Sound, May, Number
<1>3. ASSUME NEW p \in Procs, dl_file_url(p)
      PROVE  CacheWhole' /\ \A q \in Procs : JobInv(q)'
  <2>0. world' = world
    BY <1>3 DEF dl_file_url, Begin, Ask, Open, Read, ReadEnd, Move, Fail
  <2> SUFFICES CacheWhole' /\ JobInv(p)' /\ \A q \in Procs : q # p => JobInv(q)'
    OBVIOUS
  <2>1. CASE Begin(p) \/ Ask(p) \/ ReadEnd(p) \/ Fail(p)
    <3>1. CacheWhole'
      BY <2>1, <1>0 DEF Begin, Ask, ReadEnd, Fail, WholeInv, CacheWhole
    <3>2. JobInv(p)'
      <4>1. CASE Begin(p) \/ Fail(p)
        BY <4>1 DEF Begin, Fail, JobInv, NoJob
      <4>2. CASE Ask(p)
        <5>1. job'[p].fd = "none" /\ job'[p].read = 0
          BY <4>2 DEF Ask, WholeInv, JobInv, NoJob, Job
        <5> QED
          BY <4>2, <5>1 DEF Ask, JobInv
      <4>3. CASE ReadEnd(p)
        <5>1. Sound => job[p].read = NParts
          BY <4>3 DEF ReadEnd, Sound
        <5> QED
          BY <1>0, <4>3, <5>1 DEF ReadEnd, WholeInv, JobInv
      <4> QED
        BY <2>1, <4>1, <4>2, <4>3
    <3>3. ASSUME NEW q \in Procs, q # p PROVE JobInv(q)'
      BY <2>0, <2>1, <3>3, Untouched DEF Begin, Ask, ReadEnd, Fail
    <3> QED
      BY <3>1, <3>2, <3>3
  <2>2. CASE Open(p)
    <3>1. CacheWhole'
      BY <2>2, <1>0 DEF Open, WholeInv, CacheWhole
    <3>2. JobInv(p)'
      <4>1. Number(p) \in Procs /\ Number(p)' = Number(p)
        BY Numbers, <1>0
      <4>2. job'[p].read = 0 /\ job'[p].fd = "temp" /\ pc'[p] = "read" /\ temp'[Number(p)].there
        BY <2>2, <4>1 DEF Open, WholeInv, JobInv, Job
      <4> QED
        BY <4>1, <4>2 DEF JobInv
    <3>3. ASSUME NEW q \in Procs, q # p PROVE JobInv(q)'
      <4>1. Sound => Idle(q) \/ Number(q) # Number(p)
        BY <2>2, <3>3, Apart DEF Open, Idle
      <4> QED
        BY <2>0, <2>2, <3>3, <4>1, Numbers, Untouched DEF Open
    <3> QED
      BY <3>1, <3>2, <3>3
  <2>3. CASE Read(p)
    <3> DEFINE i == job[p].read + 1
               n == Number(p)
    <3>1. n \in Procs /\ n' = n
      BY Numbers, <1>0
    <3>2. Sound => job[p].fd = "temp" /\ cache' = cache /\ temp' = [temp EXCEPT ![n].data[i] = job[p].ver]
      BY <2>3 DEF Read, WholeInv, JobInv
    <3>3. CacheWhole'
      BY <3>2, <1>0 DEF WholeInv, CacheWhole
    <3>4. JobInv(p)'
      <4>1. pc'[p] = "read" /\ job'[p] = [job[p] EXCEPT !.read = i] /\ i \in Parts
        BY <2>3 DEF Read, Parts, Job
      <4>2. ASSUME Sound
            PROVE  temp'[n].there /\ \A k \in 1..i : temp'[n].data[k] = job[p].ver
        <5>1. temp[n] \in File /\ temp[n].there /\ \A k \in 1..job[p].read : temp[n].data[k] = job[p].ver
          BY <2>3, <3>1, <4>2 DEF Read, WholeInv, JobInv
        <5>2. temp'[n] = [temp[n] EXCEPT !.data = [temp[n].data EXCEPT ![i] = job[p].ver]]
          <6> HIDE DEF n, i
          <6> QED
            BY <3>1, <3>2, <4>2
        <5>3. temp[n].data \in Data /\ job[p].read \in Nat
          BY <5>1 DEF File, Job
        <5>4. temp'[n].there /\ temp'[n].data = [temp[n].data EXCEPT ![i] = job[p].ver]
          BY <5>1, <5>2 DEF File
        <5> QED
          BY <4>1, <5>1, <5>3, <5>4 DEF Data, Parts
      <4> HIDE DEF i
      <4>3. job'[p].read = i /\ job'[p].ver = job[p].ver /\ job'[p].fd = job[p].fd
        BY <4>1 DEF Job
      <4> QED
        BY <1>0, <3>1, <3>2, <4>1, <4>2, <4>3 DEF JobInv
    <3>5. ASSUME NEW q \in Procs, q # p PROVE JobInv(q)'
      <4>1. Sound => Idle(q) \/ Number(q) # n
        BY <2>3, <3>5, Apart DEF Read, Idle
      <4>2. Sound => Idle(q) \/ temp'[Number(q)] = temp[Number(q)]
        BY <3>1, <3>2, <4>1, <3>5, Numbers
      <4>3. pc'[q] = pc[q] /\ job'[q] = job[q]
        BY <2>3, <3>5 DEF Read
      <4> QED
        BY <2>0, <4>2, <4>3, Untouched
    <3> QED
      BY <3>3, <3>4, <3>5
  <2>4. CASE Move(p)
    <3> DEFINE n == Number(p)
    <3>1. n \in Procs /\ n' = n
      BY Numbers, <1>0
    <3>2. CacheWhole'
      <4>1. SUFFICES ASSUME Sound PROVE \E v \in Versions : cache'.data = Copy(v)
        BY <1>0 DEF CacheWhole
      <4>2. cache'.data = temp[n].data /\ temp[n].data \in Data
        BY <2>4, <3>1 DEF Move, File
      <4>3. \A k \in Parts : temp[n].data[k] = job[p].ver
        BY <2>4, <4>1 DEF Move, WholeInv, JobInv, Parts
      <4>4. job[p].ver \in Versions
        BY DEF Job
      <4> QED
        BY <4>2, <4>3, <4>4 DEF Data, Copy
    <3>3. JobInv(p)'
      BY <2>4 DEF Move, JobInv, NoJob
    <3>4. ASSUME NEW q \in Procs, q # p PROVE JobInv(q)'
      <4>1. Sound => Idle(q) \/ Number(q) # n
        BY <2>4, <3>4, Apart DEF Move, Idle
      <4>2. Sound => Idle(q) \/ temp'[Number(q)] = temp[Number(q)]
        BY <2>4, <3>1, <4>1, <3>4, Numbers DEF Move
      <4>3. pc'[q] = pc[q] /\ job'[q] = [job[q] EXCEPT !.fd = Follow(p, q)]
        BY <2>4, <3>4 DEF Move
      <4>4. Sound => Follow(p, q) = job[q].fd
        BY <2>4, <3>4, <4>1 DEF Follow, Move, WholeInv, JobInv, Idle
      <4>5. job[q].fd = "none" => Follow(p, q) = "none"
        BY <3>4 DEF Follow
      <4>6. JobInv(q)
        BY DEF WholeInv
      <4>7. /\ job'[q].read = job[q].read /\ job'[q].ver = job[q].ver
            /\ job'[q].fd = Follow(p, q)
        BY <4>3 DEF Job
      <4> HIDE DEF n
      <4> QED
        BY <1>0, <4>2, <4>3, <4>4, <4>5, <4>6, <4>7 DEF JobInv, Idle
    <3> QED
      BY <3>2, <3>3, <3>4
  <2> QED
    BY <1>3, <2>1, <2>2, <2>3, <2>4 DEF dl_file_url
<1> QED
  BY <1>1, <1>2, <1>3 DEF Next

(* Whatever fails, and whoever downloads at once, the file in the cache is *)
(* all of one version, where connections end only at the end of the file   *)
(* and processes that download at once have numbers of their own.          *)
THEOREM Whole == Spec => []CacheWhole
<1>1. Init => Inv
  BY TypeInit, WholeInit DEF Inv
<1>2. Inv /\ [Next]_vars => Inv'
  BY TypeStep, WholeStep DEF Inv
<1>3. Inv => CacheWhole
  BY DEF Inv, WholeInv
<1> QED
  BY <1>1, <1>2, <1>3, PTL DEF Spec
=============================================================================
