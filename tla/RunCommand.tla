----------------------------- MODULE RunCommand -----------------------------
(***************************************************************************)
(* run_command: every other part of the program starts its tools through   *)
(* it.  The parent selects on two bounded pipes, reads a readable one until*)
(* it would block, gives a pipe up when a read brings nothing, and waits   *)
(* for the child when both are given up.  The child writes to both pipes in*)
(* any order, blocks where one is full, and may leave a process behind that*)
(* holds the pipes too (lxc-start -d, a daemon started by a build script). *)
(*                                                                         *)
(* Of the output the model keeps the order of its units: whole characters  *)
(* and the two bytes of a longer one, in any order, since the command may  *)
(* write anything.  A failing Popen, sudo, the environment and the stripped*)
(* newlines are left out.                                                  *)
(***************************************************************************)
EXTENDS Naturals, Sequences

CONSTANTS
  Capacity,    \* units a pipe holds
  MaxUnits,    \* units written altogether, at most
  ShowOutput,  \* the argument show_output
  Forks        \* the child may leave a process behind

ASSUME RunAssumption ==
  /\ Capacity \in Nat \ {0} /\ MaxUnits \in Nat
  /\ {ShowOutput, Forks} \subseteq BOOLEAN

Streams == {"out", "err"}
Writers == {"child", "daemon"}
Unit == {"char", "lead", "trail"}

VARIABLES
  par,      \* the parent: where run_command is
  check,    \* check_f
  ready,    \* in_f
  data,     \* what _read_until_block has read so far
  buf,      \* stdout_buf and stderr_buf
  pipe,     \* the units in each pipe
  holds,    \* the processes that have the write end of each pipe
  alive,    \* the processes that have not ended
  failed,   \* the child's exit status is not 0
  writes,   \* the stream each process is in a write to
  written   \* history: all units ever written to each stream

parent == <<par, check, ready, data, buf>>
writers == <<holds, alive, failed, writes, written>>
vars == <<par, check, ready, data, buf, pipe, holds, alive, failed, writes, written>>

Ended == {"returned", "raised", "undecodable"}

TypeOK ==
  /\ par \in {"select", "wait"} \cup Streams \cup Ended
  /\ check \subseteq Streams /\ ready \subseteq Streams
  /\ data \in Seq(Unit)
  /\ buf \in [Streams -> Seq(Unit)]
  /\ pipe \in [Streams -> Seq(Unit)]
  /\ holds \in [Streams -> SUBSET Writers]
  /\ alive \subseteq Writers
  /\ failed \in BOOLEAN
  /\ writes \in [Writers -> Streams \cup {"none"}]
  /\ written \in [Streams -> Seq(Unit)]

Init ==
  /\ par = "select" /\ check = Streams /\ ready = {} /\ data = <<>>
  /\ buf = [s \in Streams |-> <<>>] /\ pipe = [s \in Streams |-> <<>>]
  /\ holds = [s \in Streams |-> {"child"}] /\ alive = {"child"} /\ failed = FALSE
  /\ writes = [w \in Writers |-> "none"]
  /\ written = [s \in Streams |-> <<>>]

(* Every first byte of a long character is followed by its second one.     *)
Decodes(units) ==
  \A i \in DOMAIN units :
    /\ units[i] = "lead" => i + 1 \in DOMAIN units /\ units[i + 1] = "trail"
    /\ units[i] = "trail" => i - 1 \in DOMAIN units /\ units[i - 1] = "lead"

-----------------------------------------------------------------------------
(***************************************************************************)
(* The parent.                                                             *)
(***************************************************************************)
Readable(s) == pipe[s] # <<>> \/ holds[s] = {}

(* Mutants: standard output is read to its end first; both pipes are read, *)
(* whichever select named.                                                 *)
SelectFirst ==
  /\ par = "select" /\ check # {}
  /\ ready' = {s \in check : Readable(s) /\ (s = "err" => "out" \notin check)}
  /\ ready' # {}
  /\ par' = "out"
  /\ UNCHANGED <<check, data, buf, pipe, writers>>
SelectAny ==
  /\ par = "select" /\ check # {}
  /\ \E s \in check : Readable(s)
  /\ ready' = check
  /\ par' = "out"
  /\ UNCHANGED <<check, data, buf, pipe, writers>>

(* A select that times out is tried again.                                 *)
Select ==
  /\ par = "select" /\ check # {}
  /\ ready' = {s \in check : Readable(s)}
  /\ ready' # {}
  /\ par' = "out"
  /\ UNCHANGED <<check, data, buf, pipe, writers>>

After(s) == IF s = "out" THEN "err" ELSE "select"

Skip(s) ==
  /\ par = s /\ s \notin ready
  /\ par' = After(s)
  /\ UNCHANGED <<check, ready, data, buf, pipe, writers>>

Read(s) ==
  /\ par = s /\ s \in ready /\ pipe[s] # <<>>
  /\ data' = Append(data, Head(pipe[s]))
  /\ pipe' = [pipe EXCEPT ![s] = Tail(@)]
  /\ UNCHANGED <<par, check, ready, buf, writers>>

(* Mutants: the result of the read that would block is kept; what was read *)
(* last before the end of the output is dropped; each piece is decoded.    *)
ReadEndNone(s) ==
  /\ par = s /\ s \in ready /\ pipe[s] = <<>>
  /\ buf' = [buf EXCEPT ![s] = @ \o Append(data, "None")]
  /\ check' = IF holds[s] = {} THEN check \ {s} ELSE check
  /\ data' = <<>> /\ par' = After(s)
  /\ UNCHANGED <<ready, pipe, writers>>
ReadEndDrops(s) ==
  /\ par = s /\ s \in ready /\ pipe[s] = <<>>
  /\ IF holds[s] = {}
     THEN check' = check \ {s} /\ UNCHANGED buf
     ELSE buf' = [buf EXCEPT ![s] = @ \o data] /\ UNCHANGED check
  /\ data' = <<>> /\ par' = After(s)
  /\ UNCHANGED <<ready, pipe, writers>>

ReadEndDecodes(s) ==
  /\ par = s /\ s \in ready /\ pipe[s] = <<>>
  /\ IF data = <<>>
     THEN check' = check \ {s} /\ UNCHANGED buf
     ELSE buf' = [buf EXCEPT ![s] = @ \o data] /\ UNCHANGED check
  /\ data' = <<>>
  /\ par' = IF Decodes(data) THEN After(s) ELSE "undecodable"
  /\ UNCHANGED <<ready, pipe, writers>>

(* The pipe is empty: read(1) would block or is at the end.  Only a read   *)
(* that brought nothing at all gives the pipe up.                          *)
ReadEnd(s) ==
  /\ par = s /\ s \in ready /\ pipe[s] = <<>>
  /\ IF data = <<>>
     THEN check' = check \ {s} /\ UNCHANGED buf
     ELSE buf' = [buf EXCEPT ![s] = @ \o data] /\ UNCHANGED check
  /\ data' = <<>>
  /\ par' = IF ShowOutput /\ ~Decodes(data) THEN "undecodable" ELSE After(s)
  /\ UNCHANGED <<ready, pipe, writers>>

Decode ==
  /\ par = "select" /\ check = {}
  /\ par' = IF \A s \in Streams : Decodes(buf[s]) THEN "wait" ELSE "undecodable"
  /\ UNCHANGED <<check, ready, data, buf, pipe, writers>>

Wait ==
  /\ par = "wait" /\ "child" \notin alive
  /\ par' = IF failed THEN "raised" ELSE "returned"
  /\ UNCHANGED <<check, ready, data, buf, pipe, writers>>

Parent == Select \/ Decode \/ Wait \/ \E s \in Streams : Skip(s) \/ Read(s) \/ ReadEnd(s)

-----------------------------------------------------------------------------
(***************************************************************************)
(* The command and what it leaves behind.                                  *)
(***************************************************************************)
BeginWrite(w, s) ==
  /\ w \in alive /\ w \in holds[s] /\ writes[w] = "none"
  /\ Len(written["out"]) + Len(written["err"]) < MaxUnits
  /\ writes' = [writes EXCEPT ![w] = s]
  /\ UNCHANGED <<parent, pipe, holds, alive, failed, written>>

(* The write blocks while the pipe is full.                                *)
EndWrite(w, s) ==
  /\ w \in alive /\ writes[w] = s
  /\ Len(pipe[s]) < Capacity
  /\ \E u \in Unit : /\ pipe' = [pipe EXCEPT ![s] = Append(@, u)]
                     /\ written' = [written EXCEPT ![s] = Append(@, u)]
  /\ writes' = [writes EXCEPT ![w] = "none"]
  /\ UNCHANGED <<parent, holds, alive, failed>>

Close(w, s) ==
  /\ w \in alive /\ w \in holds[s] /\ writes[w] = "none"
  /\ holds' = [holds EXCEPT ![s] = @ \ {w}]
  /\ UNCHANGED <<parent, pipe, alive, failed, writes, written>>

Fork ==
  /\ Forks /\ alive = {"child"} /\ writes["child"] = "none"
  /\ alive' = Writers
  /\ holds' = [s \in Streams |-> IF "child" \in holds[s] THEN Writers ELSE holds[s]]
  /\ UNCHANGED <<parent, pipe, failed, writes, written>>

End(w) ==
  /\ alive' = alive \ {w}
  /\ holds' = [s \in Streams |-> holds[s] \ {w}]
  /\ writes' = [writes EXCEPT ![w] = "none"]
  /\ failed' \in (IF w = "child" THEN BOOLEAN ELSE {failed})
  /\ UNCHANGED <<parent, pipe, written>>

Exit(w) == w \in alive /\ writes[w] = "none" /\ End(w)

Killed(w) == w \in alive /\ writes[w] # "none" /\ End(w)

Writer(w) == Exit(w) \/ \E s \in Streams : BeginWrite(w, s) \/ EndWrite(w, s) \/ Close(w, s)

Next == Parent \/ Fork \/ \E w \in Writers : Writer(w) \/ Killed(w)

Spec == Init /\ [][Next]_vars

(***************************************************************************)
(* The command and what it leaves behind end by themselves, but not in the *)
(* middle of a write: a process that blocks on a full pipe ends only once  *)
(* the parent has made room.  Nobody has to be killed.                     *)
(***************************************************************************)
FairSpec == Spec /\ WF_vars(Parent) /\ \A w \in Writers : WF_vars(Writer(w))

-----------------------------------------------------------------------------
(***************************************************************************)
(* When run_command returns or raises CommandFailed, it has all output of  *)
(* both streams, in order, whoever wrote it and however the reads and the  *)
(* writes fell: neither what is still in a pipe when the child ends nor    *)
(* what a process left behind writes later is lost.                        *)
(***************************************************************************)
Complete == par \in {"wait", "returned", "raised"} => buf = written

(***************************************************************************)
(* Decoding fails only for output that is not UTF-8 as a whole: a character*)
(* that two reads tear apart is put together again.  This is so without    *)
(* show_output only, which decodes what each turn has read.                *)
(***************************************************************************)
DecodesWhole ==
  par = "undecodable" => \E s \in Streams : ~Decodes(written[s])

(***************************************************************************)
(* run_command ends: parent, child and what the child leaves behind never  *)
(* wait for each other in a circle over the two pipes.                     *)
(***************************************************************************)
Termination == <>(par \in Ended)
=============================================================================
