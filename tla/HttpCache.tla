----------------------------- MODULE HttpCache -----------------------------
(***************************************************************************)
(* Downloader.dl_file_url: one file of a web server in the download cache  *)
(* that commands, check scripts and build scripts share without a lock.  A *)
(* file that is there is asked for only if it was modified since; what     *)
(* arrives is written to a temporary name with the process's number and    *)
(* renamed.  Every container counts its processes for itself and has the   *)
(* cache bound in, so that two processes may have the same number.         *)
(*                                                                         *)
(* Abstractions: a version of the file is NParts reads long; the server    *)
(* dates its versions and answers a request at one moment; a process that  *)
(* has ended is as good as one yet to start.  A stalled download goes on   *)
(* waiting: it is a process that takes no step.                            *)
(***************************************************************************)
EXTENDS Integers

CONSTANTS
  Procs,    \* the processes
  NParts,   \* reads in a file
  MaxVer,   \* the last version the server has
  Worlds    \* the circumstances the downloads may run under

(***************************************************************************)
(* alone : downloads are run one after the other                           *)
(* apart : no two versions have the same Last-Modified, which counts       *)
(*         seconds                                                         *)
(* same  : the processes have the same number, in containers of their own  *)
(* faults: "fail": requests and writes fail, or processes are killed;      *)
(*         "short": connections end early                                  *)
(***************************************************************************)
World == [alone : BOOLEAN, apart : BOOLEAN, same : BOOLEAN,
          faults : SUBSET {"fail", "short"}]

ASSUME HttpAssumption == NParts \in Nat \ {0} /\ MaxVer \in Nat /\ Worlds \subseteq World

Versions == 0..MaxVer
Dates == Nat
Parts == 1..NParts
None == -1
Data == [Parts -> Versions \cup {None}]   \* what each part of a file is from
Empty == [i \in Parts |-> None]
Copy(v) == [i \in Parts |-> v]

VARIABLES
  world,   \* the circumstances, chosen once
  page,    \* the version the server has, and its Last-Modified
  cache,   \* the file in the cache
  temp,    \* the temporary files, by number
  pc,      \* where each process is
  job      \* its local variables

vars == <<world, page, cache, temp, pc, job>>

File == [there : BOOLEAN, data : Data, date : Dates]
NoFile == [there |-> FALSE, data |-> Empty, date |-> 0]
(* fd: where the open file is by now: others may have renamed it to the    *)
(* name in the cache, and replaced it there.                               *)
Job == [since : Dates \cup {None},   \* If-Modified-Since
        ver : Versions, date : Dates,  \* what is downloaded, its Last-Modified
        read : 0..NParts,
        fd : {"none", "temp", "cache", "gone"}]
NoJob == [since |-> None, ver |-> 0, date |-> 0, read |-> 0, fd |-> "none"]

TypeOK ==
  /\ world \in World
  /\ page \in [ver : Versions, date : Dates]
  /\ cache \in File
  /\ temp \in [Procs -> File]
  /\ pc \in [Procs -> {"idle", "ask", "open", "read", "move"}]
  /\ job \in [Procs -> Job]

Init ==
  /\ world \in Worlds
  /\ page = [ver |-> 0, date |-> 0]
  /\ cache \in {NoFile, [there |-> TRUE, data |-> Copy(0), date |-> 0]}
  /\ temp = [p \in Procs |-> NoFile]
  /\ pc = [p \in Procs |-> "idle"]
  /\ job = [p \in Procs |-> NoJob]

-----------------------------------------------------------------------------
goto(p, l) == pc' = [pc EXCEPT ![p] = l]
May(fault) == fault \in world.faults
Idle(p) == pc[p] = "idle"

(* Mutant: the temporary name has no number.                               *)
NumberNone(p) == CHOOSE q \in Procs : TRUE
(* The process whose number p has in its temporary name.                   *)
Number(p) == IF world.same THEN CHOOSE q \in Procs : TRUE ELSE p

Release ==
  /\ page.ver < MaxVer
  /\ \E d \in (IF world.apart THEN {} ELSE {page.date}) \cup {page.date + 1} :
       page' = [ver |-> page.ver + 1, date |-> d]
  /\ UNCHANGED <<world, cache, temp, pc, job>>

Begin(p) ==
  /\ Idle(p)
  /\ world.alone => \A q \in Procs : Idle(q)
  /\ job' = [job EXCEPT ![p] =
       [NoJob EXCEPT !.since = IF cache.there /\ cache.data # Empty THEN cache.date ELSE None]]
  /\ goto(p, "ask")
  /\ UNCHANGED <<world, page, cache, temp>>

(* 304, or the file.                                                       *)
Ask(p) ==
  /\ pc[p] = "ask"
  /\ \/ job[p].since >= page.date
        /\ goto(p, "idle") /\ job' = [job EXCEPT ![p] = NoJob]
     \/ job[p].since < page.date
        /\ goto(p, "open")
        /\ job' = [job EXCEPT ![p].ver = page.ver, ![p].date = page.date]
  /\ UNCHANGED <<world, page, cache, temp>>

Open(p) ==
  /\ pc[p] = "open"
  /\ temp' = [temp EXCEPT ![Number(p)] = [NoFile EXCEPT !.there = TRUE]]
  /\ job' = [job EXCEPT ![p].fd = "temp"]
  /\ goto(p, "read")
  /\ UNCHANGED <<world, page, cache>>

(* Mutant: the end of the file is counted as a read.                       *)
ReadOn(p) ==
  /\ pc[p] = "read"
  /\ job' = [job EXCEPT ![p].read = @ + 1]
  /\ UNCHANGED <<world, page, cache, temp, pc>>

(* A read that brings nothing is the end of the file.                      *)
Read(p) ==
  /\ pc[p] = "read" /\ job[p].read < NParts
  /\ LET i == job[p].read + 1 IN
       /\ temp' = IF job[p].fd = "temp"
                  THEN [temp EXCEPT ![Number(p)].data[i] = job[p].ver] ELSE temp
       /\ cache' = IF job[p].fd = "cache"
                   THEN [cache EXCEPT !.data[i] = job[p].ver] ELSE cache
       /\ job' = [job EXCEPT ![p].read = i]
  /\ UNCHANGED <<world, page, pc>>

ReadEnd(p) ==
  /\ pc[p] = "read" /\ (job[p].read = NParts \/ May("short"))
  /\ goto(p, "move")
  /\ UNCHANGED <<world, page, cache, temp, job>>

(* Where the open file of q is once p has renamed its own.                 *)
Follow(p, q) ==
  CASE q = p -> "none"
    [] q # p /\ job[q].fd = "cache" -> "gone"
    [] q # p /\ job[q].fd = "temp" /\ Number(q) = Number(p) -> "cache"
    [] OTHER -> job[q].fd

(* Mutant: the file keeps the time at which it was written.                *)
MoveUndated(p) ==
  /\ pc[p] = "move" /\ temp[Number(p)].there
  /\ cache' = [temp[Number(p)] EXCEPT !.date = page.date]
  /\ temp' = [temp EXCEPT ![Number(p)] = NoFile]
  /\ job' = [q \in Procs |-> IF q = p THEN NoJob ELSE [job[q] EXCEPT !.fd = Follow(p, q)]]
  /\ goto(p, "idle")
  /\ UNCHANGED <<world, page>>

(* os.utime and os.rename.                                                 *)
Move(p) ==
  /\ pc[p] = "move" /\ temp[Number(p)].there
  /\ cache' = [temp[Number(p)] EXCEPT !.date = job[p].date]
  /\ temp' = [temp EXCEPT ![Number(p)] = NoFile]
  /\ job' = [q \in Procs |-> IF q = p THEN NoJob ELSE [job[q] EXCEPT !.fd = Follow(p, q)]]
  /\ goto(p, "idle")
  /\ UNCHANGED <<world, page>>

Fail(p) ==
  /\ ~Idle(p)
  /\ May("fail") \/ (pc[p] = "move" /\ ~temp[Number(p)].there)
  /\ goto(p, "idle") /\ job' = [job EXCEPT ![p] = NoJob]
  /\ UNCHANGED <<world, page, cache, temp>>

dl_file_url(p) ==
  Begin(p) \/ Ask(p) \/ Open(p) \/ Read(p) \/ ReadEnd(p) \/ Move(p) \/ Fail(p)

Next == Release \/ \E p \in Procs : dl_file_url(p)

(* Some command or other asks for the file again and again.                *)
Spec == Init /\ [][Next]_vars
FairSpec == Spec /\ WF_vars(\E p \in Procs : dl_file_url(p))

-----------------------------------------------------------------------------
(***************************************************************************)
(* Properties.                                                             *)
(***************************************************************************)

(* The cached file is all of one version, whatever fails, unless a         *)
(* connection ends early without an error, or two processes that have the  *)
(* same number download at once.                                           *)
Sound == ~May("short") /\ (world.alone \/ ~world.same)
CacheWhole ==
  Sound => (cache.there => \E v \in Versions : cache.data = Copy(v))

(* The inductive form: in those circumstances processes that download have *)
(* different temporary names, and each has in its file what it has read.   *)
JobInv(p) ==
  /\ pc[p] \in {"idle", "ask", "open"} => job[p].fd = "none" /\ job[p].read = 0
  /\ Sound /\ pc[p] \in {"read", "move"} =>
       /\ job[p].fd = "temp" /\ temp[Number(p)].there
       /\ \A i \in 1..job[p].read : temp[Number(p)].data[i] = job[p].ver
  /\ Sound /\ pc[p] = "move" => job[p].read = NParts
WholeInv ==
  /\ CacheWhole
  /\ \A p, q \in Procs : world.alone /\ ~Idle(p) /\ ~Idle(q) => p = q
  /\ \A p \in Procs : JobInv(p)

(* Once the server keeps its version, the cache comes to have it for good, *)
(* though a slow download may have put an older version there meanwhile.   *)
Converges ==
  (Sound /\ world.faults = {} /\ world.apart) =>
    <>[](cache.there /\ cache.data = Copy(page.ver))
=============================================================================
