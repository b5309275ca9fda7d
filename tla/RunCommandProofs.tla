-------------------------- MODULE RunCommandProofs --------------------------
(***************************************************************************)
(* Theorems about RunCommand, for pipes and outputs of any size.           *)
(***************************************************************************)
EXTENDS RunCommand, SequenceTheorems, TLAPS

USE RunAssumption

(* Concatenation, under a name the provers leave folded.                   *)
Cat(s, t) == s \o t

(* A unit read moves from the head of the pipe to the end of the data.     *)
LEMMA ReadMoves ==
  ASSUME NEW S, NEW d \in Seq(S), NEW p \in Seq(S), p # <<>>
  PROVE  /\ Append(d, Head(p)) \in Seq(S) /\ Tail(p) \in Seq(S)
         /\ Cat(Append(d, Head(p)), Tail(p)) = Cat(d, p)
<1> DEFINE h == <<Head(p)>>
<1>1. Head(p) \in S /\ Tail(p) \in Seq(S) /\ h \in Seq(S)
  BY HeadTailProperties
<1>2. Append(d, Head(p)) = d \o h
  BY <1>1, AppendIsConcat
<1>3. h \o Tail(p) = p
  OBVIOUS
<1>4. (d \o h) \o Tail(p) = d \o (h \o Tail(p))
  BY <1>1, ConcatAssociative
<1> QED
  BY <1>1, <1>2, <1>3, <1>4 DEF Cat

(* Cat makes sequences, is associative, and appends.                       *)
LEMMA CatType ==
  ASSUME NEW S, NEW x \in Seq(S), NEW y \in Seq(S)
  PROVE  Cat(x, y) \in Seq(S)
  BY ConcatProperties DEF Cat

LEMMA CatAssociative ==
  ASSUME NEW S, NEW x \in Seq(S), NEW y \in Seq(S), NEW z \in Seq(S)
  PROVE  Cat(Cat(x, y), z) = Cat(x, Cat(y, z))
  BY ConcatAssociative DEF Cat

LEMMA CatAppends ==
  ASSUME NEW S, NEW x \in Seq(S), NEW u \in S
  PROVE  Append(x, u) = Cat(x, <<u>>) /\ <<u>> \in Seq(S)
<1>1. Append(x, u) = x \o <<u>>
  BY AppendIsConcat
<1>2. <<u>> \in Seq(S)
  OBVIOUS
<1> QED
  BY <1>1, <1>2 DEF Cat

(* A unit written comes after all others, wherever these are.              *)
LEMMA WriteAppends ==
  ASSUME NEW b \in Seq(Unit), NEW d \in Seq(Unit), NEW p \in Seq(Unit), NEW u \in Unit
  PROVE  Cat(b, Cat(d, Append(p, u))) = Append(Cat(b, Cat(d, p)), u)
<1> DEFINE e == <<u>>
<1>1. Append(p, u) = Cat(p, e) /\ e \in Seq(Unit)
  BY CatAppends
<1>2. Cat(d, p) \in Seq(Unit) /\ Cat(b, Cat(d, p)) \in Seq(Unit)
  BY CatType
<1>3. Append(Cat(b, Cat(d, p)), u) = Cat(Cat(b, Cat(d, p)), e)
  BY <1>2, CatAppends
<1> HIDE DEF e
<1>4. Cat(Cat(d, p), e) = Cat(d, Cat(p, e))
  BY <1>1, CatAssociative
<1>5. Cat(Cat(b, Cat(d, p)), e) = Cat(b, Cat(Cat(d, p), e))
  BY <1>1, <1>2, CatAssociative
<1> QED
  BY <1>1, <1>3, <1>4, <1>5

(* What was read joins the buffer.                                         *)
LEMMA BufferTakes ==
  ASSUME NEW S, NEW b \in Seq(S), NEW d \in Seq(S)
  PROVE  /\ b \o d \in Seq(S)
         /\ Cat(b, Cat(d, <<>>)) = b \o d
         /\ Cat(b \o d, Cat(<<>>, <<>>)) = b \o d
<1>1. b \o d \in Seq(S)
  BY ConcatProperties
<1>2. d \o <<>> = d /\ <<>> \o <<>> = <<>> /\ (b \o d) \o <<>> = b \o d
  BY <1>1, ConcatEmptySeq, EmptySeq
<1> QED
  BY <1>1, <1>2 DEF Cat

-----------------------------------------------------------------------------
(* What has been read of a stream in this turn, and the streams of this    *)
(* turn that are still to be read.                                         *)
Turn(s) == IF par = s THEN data ELSE <<>>
Ahead(s) == par = s \/ (par = "out" /\ s = "err")

(* Every unit written is in the buffer, in the data or in the pipe; a pipe *)
(* given up is at its end; a pipe that select named and that has brought   *)
(* nothing yet is still readable; who is in a write has the pipe open.     *)
Conserved == \A s \in Streams : written[s] = Cat(buf[s], Cat(Turn(s), pipe[s]))
GivenUp == \A s \in Streams \ check : pipe[s] = <<>> /\ holds[s] = {}
StillReadable ==
  \A s \in ready : Ahead(s) /\ Turn(s) = <<>> => Readable(s)
Idle == data # <<>> => par \in ready
AllGivenUp == par \in {"wait", "returned", "raised"} => check = {}

WritesOpen == \A w \in Writers : writes[w] # "none" => w \in holds[writes[w]]

Inv ==
  /\ TypeOK /\ Conserved /\ GivenUp /\ StillReadable /\ Idle /\ AllGivenUp
  /\ WritesOpen

LEMMA InitInv == Init => Inv
<1> SUFFICES ASSUME Init PROVE Inv
  OBVIOUS
<1>1. TypeOK
  <2>1. failed \in BOOLEAN /\ holds \in [Streams -> SUBSET Writers]
    BY DEF Init, Writers
  <2>2. /\ par \in {"select", "wait"} \cup Streams \cup Ended
        /\ check \subseteq Streams /\ ready \subseteq Streams
        /\ data \in Seq(Unit) /\ alive \subseteq Writers
    BY DEF Init, Writers
  <2>3. /\ buf \in [Streams -> Seq(Unit)] /\ pipe \in [Streams -> Seq(Unit)]
        /\ written \in [Streams -> Seq(Unit)]
        /\ writes \in [Writers -> Streams \cup {"none"}]
    BY DEF Init
  <2> QED
    BY <2>1, <2>2, <2>3 DEF TypeOK
<1>2. Cat(<<>>, Cat(<<>>, <<>>)) = <<>>
  BY DEF Cat
<1>3. Conserved
  <2>1. \A s \in Streams : buf[s] = <<>> /\ pipe[s] = <<>> /\ Turn(s) = <<>> /\ written[s] = <<>>
    BY DEF Init, Turn
  <2> QED
    BY <1>2, <2>1 DEF Conserved
<1>4. GivenUp /\ StillReadable /\ Idle /\ AllGivenUp /\ WritesOpen
  BY DEF Init, GivenUp, StillReadable, Idle, AllGivenUp, WritesOpen, Streams
<1> QED
  BY <1>1, <1>3, <1>4 DEF Inv

(* The parent's steps that leave buffers, data and pipes alone.            *)
LEMMA QuietStep ==
  ASSUME Inv, Select \/ Decode \/ Wait \/ \E s \in Streams : Skip(s)
  PROVE  Inv'
<1> USE DEF Inv
<1>1. /\ UNCHANGED <<data, buf, pipe, holds, alive, failed, writes, written>>
      /\ check' = check
  BY DEF Select, Decode, Wait, Skip, writers
<1>2. data = <<>>
  BY DEF Select, Decode, Wait, Skip, Idle, TypeOK, Streams
<1>3. \A s : Turn(s) = <<>> /\ Turn(s)' = <<>>
  BY <1>1, <1>2 DEF Turn
<1>4. \A s : Readable(s)' = Readable(s)
  BY <1>1 DEF Readable
<1>5. /\ par' \in {"select", "wait"} \cup Streams \cup Ended
      /\ ready' \subseteq Streams
  BY DEF Select, Decode, Wait, Skip, TypeOK, Streams, Ended, After
<1>6. TypeOK'
  BY <1>1, <1>5 DEF TypeOK
<1>7. Conserved'
  BY <1>1, <1>3 DEF Conserved
<1>8. GivenUp'
  BY <1>1 DEF GivenUp
<1>9. StillReadable'
  <2>1. CASE Select
    BY <2>1, <1>4 DEF Select, StillReadable
  <2>2. CASE \E s \in Streams : Skip(s)
    BY <2>2, <1>3, <1>4 DEF Skip, StillReadable, Ahead, After, Streams, TypeOK
  <2>3. CASE Decode \/ Wait
    BY <2>3 DEF Decode, Wait, StillReadable, Ahead, Streams, TypeOK
  <2> QED
    BY <2>1, <2>2, <2>3
<1>10. Idle'
  BY <1>1, <1>2 DEF Idle
<1>11. AllGivenUp'
  BY <1>1 DEF Select, Decode, Wait, Skip, AllGivenUp, After, Streams
<1>12. WritesOpen'
  BY <1>1 DEF WritesOpen
<1> QED
  BY <1>6, <1>7, <1>8, <1>9, <1>10, <1>11, <1>12

(* Reading one unit.                                                       *)
LEMMA ReadStep ==
  ASSUME Inv, NEW s \in Streams, Read(s)
  PROVE  Inv'
<1> USE DEF Inv
<1>1. /\ data \in Seq(Unit) /\ pipe[s] \in Seq(Unit) /\ pipe[s] # <<>>
      /\ pipe \in [Streams -> Seq(Unit)]
      /\ par = s /\ s \in ready
  BY DEF TypeOK, Read
<1>2. /\ data' = Append(data, Head(pipe[s]))
      /\ pipe' = [pipe EXCEPT ![s] = Tail(@)]
      /\ UNCHANGED <<par, check, ready, buf, holds, alive, failed, writes, written>>
  BY DEF Read, writers
<1>3. /\ data' \in Seq(Unit) /\ Tail(pipe[s]) \in Seq(Unit)
      /\ Cat(data', Tail(pipe[s])) = Cat(data, pipe[s])
  BY <1>1, <1>2, ReadMoves
<1>4. pipe' \in [Streams -> Seq(Unit)]
  BY <1>1, <1>2, <1>3
<1>5. TypeOK'
  BY <1>2, <1>3, <1>4 DEF TypeOK
<1>6. /\ Turn(s) = data /\ Turn(s)' = data' /\ pipe'[s] = Tail(pipe[s])
      /\ \A t \in Streams \ {s} : Turn(t) = <<>> /\ Turn(t)' = <<>> /\ pipe'[t] = pipe[t]
  BY <1>1, <1>2 DEF Turn
<1>7. Conserved'
  BY <1>2, <1>3, <1>6 DEF Conserved
<1>8. GivenUp'
  BY <1>1, <1>2 DEF GivenUp
<1>9. data' # <<>>
  BY <1>1, <1>2, AppendProperties, HeadTailProperties
<1>10. StillReadable'
  BY <1>1, <1>2, <1>6, <1>9 DEF StillReadable, Ahead, Readable, TypeOK
<1>11. Idle' /\ AllGivenUp' /\ WritesOpen'
  BY <1>1, <1>2 DEF Idle, AllGivenUp, WritesOpen, Streams
<1> QED
  BY <1>5, <1>7, <1>8, <1>10, <1>11

(* The end of a turn of reading.                                           *)
LEMMA ReadEndStep ==
  ASSUME Inv, NEW s \in Streams, ReadEnd(s)
  PROVE  Inv'
<1> USE DEF Inv
<1>1. /\ data \in Seq(Unit) /\ buf[s] \in Seq(Unit) /\ pipe[s] = <<>>
      /\ buf \in [Streams -> Seq(Unit)] /\ check \subseteq Streams
      /\ par = s /\ s \in ready
  BY DEF TypeOK, ReadEnd
<1>2. /\ UNCHANGED <<ready, pipe, holds, alive, failed, writes, written>>
      /\ data' = <<>> /\ par' \in {"undecodable", After(s)}
  BY DEF ReadEnd, writers
<1>3. \/ data = <<>> /\ check' = check \ {s} /\ buf' = buf
      \/ data # <<>> /\ check' = check /\ buf' = [buf EXCEPT ![s] = @ \o data]
  BY DEF ReadEnd
<1>4. /\ buf[s] \o data \in Seq(Unit)
      /\ Cat(buf[s], Cat(data, <<>>)) = buf[s] \o data
      /\ Cat(buf[s] \o data, Cat(<<>>, <<>>)) = buf[s] \o data
  BY <1>1, BufferTakes
<1>5. /\ par' \in {"select", "wait"} \cup Streams \cup Ended /\ par' \notin {s, "wait", "returned", "raised"}
      /\ \A t \in Streams : (Ahead(t))' => t # s /\ Ahead(t)
  BY <1>1, <1>2 DEF After, Streams, Ended, Ahead
<1>6. buf' \in [Streams -> Seq(Unit)] /\ check' \subseteq check /\ data' \in Seq(Unit)
  BY <1>1, <1>2, <1>3, <1>4, EmptySeq
<1>7. TypeOK'
  BY <1>1, <1>2, <1>5, <1>6 DEF TypeOK
<1>8. /\ Turn(s) = data /\ Turn(s)' = <<>>
      /\ \A t \in Streams \ {s} : Turn(t) = <<>> /\ Turn(t)' = <<>> /\ buf'[t] = buf[t]
  BY <1>1, <1>2, <1>3 DEF Turn
<1>9. Conserved'
  <2>1. CASE data = <<>>
    BY <2>1, <1>2, <1>3, <1>8 DEF Conserved
  <2>2. CASE data # <<>>
    BY <2>2, <1>1, <1>2, <1>3, <1>4, <1>8 DEF Conserved
  <2> QED
    BY <2>1, <2>2
<1>10. data = <<>> => holds[s] = {}
  BY <1>1, <1>8 DEF StillReadable, Ahead, Readable
<1>11. GivenUp'
  BY <1>1, <1>2, <1>3, <1>10 DEF GivenUp
<1>12. StillReadable'
  BY <1>2, <1>5, <1>8 DEF StillReadable, Readable, TypeOK
<1>13. Idle' /\ AllGivenUp' /\ WritesOpen'
  BY <1>2, <1>5 DEF Idle, AllGivenUp, WritesOpen
<1> QED
  BY <1>7, <1>9, <1>11, <1>12, <1>13

(* Writing one unit.                                                       *)
LEMMA EndWriteStep ==
  ASSUME Inv, NEW w \in Writers, NEW s \in Streams, EndWrite(w, s)
  PROVE  Inv'
<1> USE DEF Inv
<1>1. PICK u \in Unit : /\ pipe' = [pipe EXCEPT ![s] = Append(@, u)]
                        /\ written' = [written EXCEPT ![s] = Append(@, u)]
  BY DEF EndWrite
<1>2. /\ UNCHANGED <<par, check, ready, data, buf, holds, alive, failed>>
      /\ writes' = [writes EXCEPT ![w] = "none"]
  BY DEF EndWrite, parent
<1>3. /\ \A t \in Streams : Turn(t) \in Seq(Unit) /\ Turn(t)' = Turn(t) /\ buf[t] \in Seq(Unit)
      /\ pipe \in [Streams -> Seq(Unit)] /\ written \in [Streams -> Seq(Unit)]
  BY <1>2, EmptySeq DEF Turn, TypeOK
<1>4. /\ Append(pipe[s], u) \in Seq(Unit) /\ Append(written[s], u) \in Seq(Unit)
      /\ Append(pipe[s], u) # <<>>
  <2>1. pipe[s] \in Seq(Unit) /\ written[s] \in Seq(Unit)
    BY <1>3
  <2> QED
    BY <2>1, AppendProperties
<1>5. pipe' \in [Streams -> Seq(Unit)] /\ written' \in [Streams -> Seq(Unit)]
  BY <1>1, <1>3, <1>4
<1>6. writes' \in [Writers -> Streams \cup {"none"}]
  BY <1>2 DEF TypeOK
<1>7. TypeOK'
  BY <1>2, <1>5, <1>6 DEF TypeOK
<1>8. Cat(buf[s], Cat(Turn(s), Append(pipe[s], u))) = Append(Cat(buf[s], Cat(Turn(s), pipe[s])), u)
  <2>1. buf[s] \in Seq(Unit) /\ Turn(s) \in Seq(Unit) /\ pipe[s] \in Seq(Unit)
    BY <1>3
  <2> QED
    BY <2>1, WriteAppends
<1>9. Conserved'
  BY <1>1, <1>2, <1>3, <1>8 DEF Conserved
<1>10. GivenUp'
  BY <1>1, <1>2 DEF GivenUp, WritesOpen, EndWrite, TypeOK, Streams
<1>13. WritesOpen'
  BY <1>2, <1>6 DEF WritesOpen, TypeOK, Streams
<1>11. StillReadable'
  BY <1>1, <1>2, <1>3, <1>4 DEF StillReadable, Readable, Ahead, TypeOK
<1>12. Idle' /\ AllGivenUp'
  BY <1>2 DEF Idle, AllGivenUp
<1> QED
  BY <1>7, <1>9, <1>10, <1>11, <1>12, <1>13

(* The other steps of the writers touch neither buffers nor pipes, and no  *)
(* pipe that has lost its last writer gets one again.                      *)
LEMMA WriterStep ==
  ASSUME Inv,
         \/ Fork
         \/ \E w \in Writers : Exit(w) \/ Killed(w)
         \/ \E w \in Writers, s \in Streams : BeginWrite(w, s) \/ Close(w, s)
  PROVE  Inv'
<1> USE DEF Inv
<1>1. UNCHANGED <<par, check, ready, data, buf, pipe, written>>
  BY DEF Fork, Exit, Killed, End, BeginWrite, Close, parent
<1>2. /\ alive' \subseteq Writers /\ holds' \in [Streams -> SUBSET Writers]
      /\ writes' \in [Writers -> Streams \cup {"none"}]
  <2>1. CASE Fork
    BY <2>1 DEF Fork, TypeOK, Writers
  <2>2. CASE \E w \in Writers : Exit(w) \/ Killed(w)
    <3>1. PICK w \in Writers : End(w)
      BY <2>2 DEF Exit, Killed
    <3> QED
      BY <3>1 DEF End, TypeOK, Writers
  <2>3. CASE \E w \in Writers, s \in Streams : BeginWrite(w, s)
    BY <2>3 DEF BeginWrite, TypeOK, Writers
  <2>4. CASE \E w \in Writers, s \in Streams : Close(w, s)
    BY <2>4 DEF Close, TypeOK, Writers
  <2> QED
    BY <2>1, <2>2, <2>3, <2>4
<1>3. failed' \in BOOLEAN
  <2>1. CASE Fork
    BY <2>1 DEF Fork, TypeOK
  <2>2. CASE \E w \in Writers : Exit(w) \/ Killed(w)
    <3>1. PICK w \in Writers : End(w)
      BY <2>2 DEF Exit, Killed
    <3> QED
      BY <3>1 DEF End, TypeOK
  <2>3. CASE \E w \in Writers, s \in Streams : BeginWrite(w, s)
    BY <2>3 DEF BeginWrite, TypeOK
  <2>4. CASE \E w \in Writers, s \in Streams : Close(w, s)
    BY <2>4 DEF Close, TypeOK
  <2> QED
    BY <2>1, <2>2, <2>3, <2>4
<1>4. TypeOK'
  BY <1>1, <1>2, <1>3 DEF TypeOK
<1>5. \A s \in Streams : holds[s] = {} => holds'[s] = {}
  <2>1. CASE Fork
    BY <2>1 DEF Fork, TypeOK
  <2>2. CASE \E w \in Writers : Exit(w) \/ Killed(w)
    <3>1. PICK w \in Writers : End(w)
      BY <2>2 DEF Exit, Killed
    <3> QED
      BY <3>1 DEF End, TypeOK
  <2>3. CASE \E w \in Writers, s \in Streams : BeginWrite(w, s)
    BY <2>3 DEF BeginWrite, TypeOK
  <2>4. CASE \E w \in Writers, s \in Streams : Close(w, s)
    BY <2>4 DEF Close, TypeOK
  <2> QED
    BY <2>1, <2>2, <2>3, <2>4
<1>6. \A s : Turn(s)' = Turn(s) /\ Ahead(s)' = Ahead(s)
  BY <1>1 DEF Turn, Ahead
<1>7. Conserved'
  BY <1>1, <1>6 DEF Conserved
<1>8. GivenUp'
  BY <1>1, <1>5 DEF GivenUp
<1>9. StillReadable'
  BY <1>1, <1>5, <1>6 DEF StillReadable, Readable, TypeOK
<1>10. Idle' /\ AllGivenUp'
  BY <1>1 DEF Idle, AllGivenUp
<1>11. WritesOpen'
  <2>1. CASE Fork
    BY <2>1 DEF Fork, WritesOpen, TypeOK, Writers
  <2>2. CASE \E w \in Writers : Exit(w) \/ Killed(w)
    BY <2>2 DEF Exit, Killed, End, WritesOpen, TypeOK
  <2>3. ASSUME NEW w \in Writers, NEW s \in Streams, BeginWrite(w, s)
        PROVE  WritesOpen'
    BY <2>3 DEF BeginWrite, WritesOpen, TypeOK
  <2>4. ASSUME NEW w \in Writers, NEW s \in Streams, Close(w, s)
        PROVE  WritesOpen'
    BY <2>4 DEF Close, WritesOpen, TypeOK
  <2> QED
    BY <2>1, <2>2, <2>3, <2>4
<1> QED
  BY <1>4, <1>7, <1>8, <1>9, <1>10, <1>11

LEMMA Invariance == Spec => []Inv
<1>1. Inv /\ [Next]_vars => Inv'
  <2> SUFFICES ASSUME Inv, [Next]_vars PROVE Inv'
    OBVIOUS
  <2>1. CASE Select \/ Decode \/ Wait \/ \E s \in Streams : Skip(s)
    BY <2>1, QuietStep
  <2>2. CASE \E s \in Streams : Read(s)
    BY <2>2, ReadStep
  <2>3. CASE \E s \in Streams : ReadEnd(s)
    BY <2>3, ReadEndStep
  <2>4. CASE \E w \in Writers, s \in Streams : EndWrite(w, s)
    BY <2>4, EndWriteStep
  <2>5. CASE \/ Fork
             \/ \E w \in Writers : Exit(w) \/ Killed(w)
             \/ \E w \in Writers, s \in Streams : BeginWrite(w, s) \/ Close(w, s)
    BY <2>5, WriterStep
  <2>6. CASE UNCHANGED vars
    BY <2>6 DEF vars, Inv, TypeOK, Conserved, GivenUp, StillReadable, Idle, AllGivenUp,
                WritesOpen, Turn, Ahead, Readable
  <2> QED
    BY <2>1, <2>2, <2>3, <2>4, <2>5, <2>6 DEF Next, Parent, Writer
<1> QED
  BY <1>1, InitInv, PTL DEF Spec

(* Every variable keeps its type.                                          *)
THEOREM TypeCorrect == Spec => []TypeOK
<1>1. Inv => TypeOK
  BY DEF Inv
<1> QED
  BY <1>1, Invariance, PTL

(* Once both pipes are given up, the buffers are what was written.         *)
LEMMA AllRead ==
  ASSUME Inv, check = {}, par \notin Streams
  PROVE  buf = written
<1>1. \A s \in Streams : Turn(s) = <<>> /\ pipe[s] = <<>> /\ buf[s] \in Seq(Unit)
  BY DEF Inv, TypeOK, GivenUp, Turn, Streams
<1>2. \A b \in Seq(Unit) : Cat(b, Cat(<<>>, <<>>)) = b
  BY ConcatEmptySeq, EmptySeq DEF Cat
<1>3. \A s \in Streams : written[s] = buf[s]
  BY <1>1, <1>2 DEF Inv, Conserved
<1>4. buf \in [Streams -> Seq(Unit)] /\ written \in [Streams -> Seq(Unit)]
  BY DEF Inv, TypeOK
<1> QED
  BY <1>3, <1>4

(***************************************************************************)
(* Whatever the sizes, whenever run_command has got past its loop it has   *)
(* every unit that was written to either stream.                           *)
(***************************************************************************)
THEOREM AllOutput == Spec => []Complete
<1>1. Inv => Complete
  <2> SUFFICES ASSUME Inv, par \in {"wait", "returned", "raised"} PROVE buf = written
    BY DEF Complete
  <2> QED
    BY AllRead DEF Inv, AllGivenUp, Streams
<1> QED
  BY <1>1, Invariance, PTL

(***************************************************************************)
(* Without show_output, decoding fails only for output that is not UTF-8 as*)
(* a whole: it happens when both pipes are given up.                       *)
(***************************************************************************)
UndecodableInv ==
  par = "undecodable" => check = {} /\ \E s \in Streams : ~Decodes(buf[s])

THEOREM TornCharactersJoin == ASSUME ~ShowOutput PROVE Spec => []DecodesWhole
<1>1. Init => UndecodableInv
  BY DEF Init, UndecodableInv
<1>2. Inv /\ UndecodableInv /\ [Next]_vars => UndecodableInv'
  <2> SUFFICES ASSUME UndecodableInv, [Next]_vars, par' = "undecodable" PROVE UndecodableInv'
    BY DEF UndecodableInv
  <2> USE DEF UndecodableInv
  <2>1. CASE Decode
    BY <2>1 DEF Decode
  <2>2. CASE UNCHANGED parent
    BY <2>2 DEF parent
  <2>3. CASE Select \/ Wait
    BY <2>3 DEF Select, Wait
  <2>4. ASSUME NEW s \in Streams, Skip(s) \/ Read(s) \/ ReadEnd(s) PROVE FALSE
    BY <2>4 DEF Skip, Read, ReadEnd, After, Streams
  <2> QED
    BY <2>1, <2>2, <2>3, <2>4
    DEF Next, Parent, Writer, Fork, Exit, Killed, End, BeginWrite, EndWrite, Close, vars, parent
<1>3. Inv /\ UndecodableInv => DecodesWhole
  BY AllRead DEF UndecodableInv, DecodesWhole, Streams
<1> QED
  BY <1>1, <1>2, <1>3, Invariance, PTL DEF Spec

-----------------------------------------------------------------------------
(***************************************************************************)
(* That run_command ends rests on two facts about every state and step,    *)
(* which hold for pipes of any capacity: somebody can always go on, and no *)
(* step but the start of another process leaves as much to do as before.   *)
(***************************************************************************)
ParentFree ==
  \/ par \in Streams
  \/ par = "select" /\ (check = {} \/ \E s \in check : Readable(s))
  \/ par = "wait" /\ "child" \notin alive
WriterFree(w) == w \in alive /\ (writes[w] = "none" \/ Len(pipe[writes[w]]) < Capacity)
NeverStuck == par \notin Ended => ParentFree \/ \E w \in Writers : WriterFree(w)

(* What is left to do: units to be written, to be read and to be put into  *)
(* the buffers, pipes to be given up and closed, processes to end, and the *)
(* rest of the parent's turn, which is longer where it has to skip a pipe. *)
Count(b) == IF b THEN 1 ELSE 0
Units(f, s) == Len(f[s])
WrittenUnits == Units(written, "out") + Units(written, "err")
PipeUnits == Units(pipe, "out") + Units(pipe, "err")
Phase ==
  CASE par = "select" -> 10
    [] par = "out" -> 9
    [] par = "err" -> (IF "err" \in ready THEN 8 ELSE 11)
    [] par = "wait" -> 5
    [] OTHER -> 0
HasData == Count(data # <<>>)
Watched == Count("out" \in check) + Count("err" \in check)
ToRead == 8 * PipeUnits + 5 * HasData + 8 * Watched + Phase
Open(w) == Count(w \in holds["out"]) + Count(w \in holds["err"])
ToEnd(w) == Open(w) + (IF w \in alive THEN 1 + Count(writes[w] = "none") ELSE 0)
Left == 10 * (MaxUnits + 1 - WrittenUnits) + ToRead + ToEnd("child") + ToEnd("daemon")

(* Only a process that is alive holds a pipe open; at most one write is    *)
(* begun too many; select has named something, and nothing given up.       *)
Holders == \A s \in Streams : holds[s] \subseteq alive
Bounded == WrittenUnits + Count(writes["child"] # "none") + Count(writes["daemon"] # "none")
             <= MaxUnits + 1
Named == (par = "out" => ready # {}) /\ \A s \in ready : Ahead(s) => s \in check
LiveInv == Holders /\ Bounded /\ Named

LEMMA LiveInit == Init => LiveInv
<1> SUFFICES ASSUME Init PROVE LiveInv
  OBVIOUS
<1>1. WrittenUnits = 0
  BY DEF Init, WrittenUnits, Units, Streams
<1> QED
  BY <1>1 DEF Init, LiveInv, Holders, Bounded, Named, Count, Streams, Writers

LEMMA UnitsTypes ==
  ASSUME NEW f \in [Streams -> Seq(Unit)]
  PROVE  Units(f, "out") \in Nat /\ Units(f, "err") \in Nat
<1>1. f["out"] \in Seq(Unit) /\ f["err"] \in Seq(Unit)
  BY DEF Streams
<1> QED
  BY <1>1, LenProperties DEF Units

LEMMA CountTypes ==
  ASSUME TypeOK
  PROVE  WrittenUnits \in Nat /\ PipeUnits \in Nat
<1>1. /\ Units(written, "out") \in Nat /\ Units(written, "err") \in Nat
      /\ Units(pipe, "out") \in Nat /\ Units(pipe, "err") \in Nat
  BY UnitsTypes DEF TypeOK
<1> QED
  BY <1>1 DEF WrittenUnits, PipeUnits

LEMMA CountTypesNext ==
  ASSUME TypeOK'
  PROVE  PipeUnits' \in Nat
<1>1. pipe' \in [Streams -> Seq(Unit)]
  BY DEF TypeOK
<1>2. Units(pipe, "out")' \in Nat /\ Units(pipe, "err")' \in Nat
  BY <1>1, UnitsTypes
<1> QED
  BY <1>2 DEF PipeUnits

(* A write adds one unit to one stream and one pipe, a read takes one.     *)
LEMMA WriteCounts ==
  ASSUME TypeOK, NEW w \in Writers, NEW s \in Streams, EndWrite(w, s)
  PROVE  WrittenUnits' = WrittenUnits + 1 /\ PipeUnits' = PipeUnits + 1
<1>1. PICK u \in Unit : /\ pipe' = [pipe EXCEPT ![s] = Append(@, u)]
                        /\ written' = [written EXCEPT ![s] = Append(@, u)]
  BY DEF EndWrite
<1>2. pipe \in [Streams -> Seq(Unit)] /\ written \in [Streams -> Seq(Unit)]
  BY DEF TypeOK
<1>3. /\ Len(Append(pipe[s], u)) = Len(pipe[s]) + 1
      /\ Len(Append(written[s], u)) = Len(written[s]) + 1
  <2>1. pipe[s] \in Seq(Unit) /\ written[s] \in Seq(Unit)
    BY <1>2
  <2> QED
    BY <2>1, AppendProperties
<1>4. /\ pipe'[s] = Append(pipe[s], u) /\ written'[s] = Append(written[s], u)
      /\ \A t \in Streams \ {s} : pipe'[t] = pipe[t] /\ written'[t] = written[t]
  BY <1>1, <1>2
<1>5. /\ Units(pipe, s)' = Units(pipe, s) + 1 /\ Units(written, s)' = Units(written, s) + 1
      /\ \A t \in Streams \ {s} : /\ Units(pipe, t)' = Units(pipe, t)
                                 /\ Units(written, t)' = Units(written, t)
  BY <1>3, <1>4 DEF Units
<1>6. /\ Units(written, "out") \in Nat /\ Units(written, "err") \in Nat
      /\ Units(pipe, "out") \in Nat /\ Units(pipe, "err") \in Nat
  BY <1>2, UnitsTypes
<1> QED
  BY <1>5, <1>6 DEF WrittenUnits, PipeUnits, Streams

LEMMA ReadCounts ==
  ASSUME TypeOK, NEW s \in Streams, Read(s)
  PROVE  PipeUnits' = PipeUnits - 1
<1>1. pipe \in [Streams -> Seq(Unit)] /\ pipe[s] # <<>> /\ pipe' = [pipe EXCEPT ![s] = Tail(@)]
  BY DEF Read, TypeOK
<1>2. Len(Tail(pipe[s])) = Len(pipe[s]) - 1
  <2>1. pipe[s] \in Seq(Unit)
    BY <1>1
  <2> QED
    BY <1>1, <2>1, HeadTailProperties
<1>3. pipe'[s] = Tail(pipe[s]) /\ \A t \in Streams \ {s} : pipe'[t] = pipe[t]
  BY <1>1
<1>4. /\ Units(pipe, s)' = Units(pipe, s) - 1
      /\ \A t \in Streams \ {s} : Units(pipe, t)' = Units(pipe, t)
  BY <1>2, <1>3 DEF Units
<1>5. Units(pipe, "out") \in Nat /\ Units(pipe, "err") \in Nat
  BY <1>1, UnitsTypes
<1> QED
  BY <1>4, <1>5 DEF PipeUnits, Streams

LEMMA HoldersStep ==
  ASSUME TypeOK, Holders, [Next]_vars
  PROVE  Holders'
<1> USE DEF Holders
<1>1. CASE UNCHANGED writers
  BY <1>1 DEF writers
<1>2. CASE Fork
  BY <1>2 DEF Fork, TypeOK, Writers
<1>3. ASSUME NEW w \in Writers, End(w) PROVE Holders'
  BY <1>3 DEF End, TypeOK
<1>4. ASSUME NEW w \in Writers, NEW s \in Streams, BeginWrite(w, s) \/ EndWrite(w, s) \/ Close(w, s)
      PROVE  Holders'
  BY <1>4 DEF BeginWrite, EndWrite, Close, TypeOK
<1> QED
  BY <1>1, <1>2, <1>3, <1>4 DEF Next, Parent, Select, Decode, Wait, Skip, Read, ReadEnd, Writer,
     Exit, Killed, vars, writers

LEMMA BoundedStep ==
  ASSUME TypeOK, Bounded, [Next]_vars
  PROVE  Bounded'
<1> DEFINE In(w) == Count(writes[w] # "none")
<1>1. \A w \in Writers : In(w) \in {0, 1} /\ In(w)' \in {0, 1}
  BY DEF Count
<1>2. CASE UNCHANGED <<writes, written>>
  BY <1>2 DEF Bounded, WrittenUnits
<1>3. ASSUME NEW w \in Writers, NEW s \in Streams, BeginWrite(w, s) PROVE Bounded'
  <2>1. WrittenUnits < MaxUnits /\ written' = written
    BY <1>3 DEF BeginWrite, WrittenUnits, Units
  <2>2. WrittenUnits' = WrittenUnits /\ WrittenUnits \in Nat
    BY <2>1, CountTypes DEF WrittenUnits
  <2>3. In("child")' \in {0, 1} /\ In("daemon")' \in {0, 1}
    BY DEF Count
  <2> HIDE DEF In
  <2> QED
    BY <2>1, <2>2, <2>3 DEF Bounded, In
<1>4. ASSUME NEW w \in Writers, NEW s \in Streams, EndWrite(w, s) PROVE Bounded'
  <2>1. WrittenUnits' = WrittenUnits + 1 /\ WrittenUnits \in Nat
    BY <1>4, WriteCounts, CountTypes
  <2>2. In(w) = 1 /\ In(w)' = 0 /\ \A v \in Writers \ {w} : In(v)' = In(v)
    BY <1>4 DEF EndWrite, TypeOK, Count, Streams
  <2>3. In("child")' + In("daemon")' = In("child") + In("daemon") - 1
    BY <1>1, <2>2 DEF Writers
  <2>4. In("child") \in {0, 1} /\ In("daemon") \in {0, 1} /\ In("child")' \in {0, 1} /\ In("daemon")' \in {0, 1}
    BY DEF Count
  <2>5. WrittenUnits + In("child") + In("daemon") <= MaxUnits + 1
    BY DEF Bounded
  <2> HIDE DEF In
  <2>6. WrittenUnits' + In("child")' + In("daemon")' <= MaxUnits + 1
    BY <2>1, <2>3, <2>4, <2>5
  <2> QED
    BY <2>6 DEF Bounded, In
<1>5. ASSUME NEW w \in Writers, End(w) PROVE Bounded'
  <2>1. WrittenUnits' = WrittenUnits /\ WrittenUnits \in Nat
    BY <1>5, CountTypes DEF End, WrittenUnits
  <2>2. In("child")' <= In("child") /\ In("daemon")' <= In("daemon")
    BY <1>5 DEF End, TypeOK, Count, Streams, Writers
  <2>4. In("child") \in {0, 1} /\ In("daemon") \in {0, 1} /\ In("child")' \in {0, 1} /\ In("daemon")' \in {0, 1}
    BY DEF Count
  <2>5. WrittenUnits + In("child") + In("daemon") <= MaxUnits + 1
    BY DEF Bounded
  <2> HIDE DEF In
  <2>6. WrittenUnits' + In("child")' + In("daemon")' <= MaxUnits + 1
    BY <2>1, <2>2, <2>4, <2>5
  <2> QED
    BY <2>6 DEF Bounded, In
<1> QED
  BY <1>2, <1>3, <1>4, <1>5 DEF Next, Parent, Select, Decode, Wait, Skip, Read, ReadEnd, Writer,
     Fork, Close, Exit, Killed, vars, writers

LEMMA NamedStep ==
  ASSUME TypeOK, Named, [Next]_vars
  PROVE  Named'
<1> USE DEF Named, Ahead, TypeOK
<1>1. CASE UNCHANGED parent
  BY <1>1 DEF parent
<1>2. CASE Select
  BY <1>2 DEF Select
<1>3. CASE Decode \/ Wait
  BY <1>3 DEF Decode, Wait, Streams
<1>4. ASSUME NEW s \in Streams, Skip(s) PROVE Named'
  BY <1>4 DEF Skip, After, Streams
<1>5. ASSUME NEW s \in Streams, Read(s) PROVE Named'
  BY <1>5 DEF Read
<1>6. ASSUME NEW s \in Streams, ReadEnd(s) PROVE Named'
  <2>1. /\ ready' = ready /\ par = s /\ par' \in {"undecodable", After(s)}
        /\ check \ {s} \subseteq check'
    BY <1>6 DEF ReadEnd
  <2> QED
    BY <2>1 DEF After, Streams
<1> QED
  BY <1>1, <1>2, <1>3, <1>4, <1>5, <1>6 DEF Next, Parent, Writer, Fork, Exit, Killed, End,
     BeginWrite, EndWrite, Close, vars, parent

LEMMA LiveInvariance == Spec => []LiveInv
<1>1. TypeOK /\ LiveInv /\ [Next]_vars => LiveInv'
  BY HoldersStep, BoundedStep, NamedStep DEF LiveInv
<1> QED
  BY <1>1, LiveInit, TypeCorrect, PTL DEF Spec

(***************************************************************************)
(* The parent, the command and what it leaves behind never wait for each   *)
(* other in a circle, however small the pipes are: until run_command has   *)
(* ended, the parent has a step to take, or a process that is alive is not *)
(* blocked in a write.                                                     *)
(***************************************************************************)
THEOREM NoDeadlock == Spec => []NeverStuck
<1>1. Inv /\ LiveInv => NeverStuck
  <2> SUFFICES ASSUME Inv, LiveInv, par \notin Ended, ~ParentFree
               PROVE  \E w \in Writers : WriterFree(w)
    BY DEF NeverStuck
  <2> USE DEF Inv, LiveInv
  <2>1. CASE par = "wait"
    <3>1. "child" \in alive /\ \A s \in Streams : holds[s] = {}
      BY <2>1 DEF ParentFree, AllGivenUp, GivenUp
    <3>2. writes["child"] = "none"
      BY <3>1 DEF WritesOpen, TypeOK, Writers
    <3> QED
      BY <3>1, <3>2 DEF WriterFree, Writers
  <2>2. CASE par = "select"
    <3>1. PICK s \in check : pipe[s] = <<>> /\ holds[s] # {}
      BY <2>2 DEF ParentFree, Readable
    <3>2. PICK w \in Writers : w \in holds[s] /\ w \in alive
      BY <3>1 DEF Holders, TypeOK
    <3>3. CASE writes[w] # "none"
      <4>1. writes[w] \in Streams /\ holds[writes[w]] # {}
        BY <3>3 DEF WritesOpen, TypeOK
      <4>2. pipe[writes[w]] = <<>>
        BY <2>2, <4>1 DEF GivenUp, ParentFree, Readable
      <4>3. Len(pipe[writes[w]]) < Capacity
        BY <4>2
      <4> QED
        BY <3>2, <4>3 DEF WriterFree
    <3> QED
      BY <3>2, <3>3 DEF WriterFree
  <2> QED
    BY <2>1, <2>2 DEF TypeOK, ParentFree
<1> QED
  BY <1>1, Invariance, LiveInvariance, PTL

-----------------------------------------------------------------------------
LEMMA PartTypes ==
  ASSUME TypeOK
  PROVE  /\ WrittenUnits \in Nat /\ PipeUnits \in Nat /\ Phase \in Nat
         /\ Open("child") \in Nat /\ Open("daemon") \in Nat
         /\ ToRead \in Nat /\ ToEnd("child") \in Nat /\ ToEnd("daemon") \in Nat
<1>1. \A b : Count(b) \in {0, 1}
  BY DEF Count
<1>2. WrittenUnits \in Nat /\ PipeUnits \in Nat
  BY CountTypes
<1>3. Phase \in Nat
  BY DEF Phase
<1>4. \A w : Open(w) \in Nat
  BY <1>1 DEF Open
<1>5. \A w : ToEnd(w) \in Nat
  BY <1>1, <1>4 DEF ToEnd
<1>6. ToRead \in Nat
  BY <1>1, <1>2, <1>3 DEF ToRead, HasData, Watched
<1> QED
  BY <1>2, <1>3, <1>4, <1>5, <1>6

(* The weights: a unit read outweighs its arrival in the data, the data and*)
(* a pipe given up outweigh the part of the turn that follows them.        *)
LEMMA TurnWeight ==
  ASSUME NEW p \in Nat, NEW d \in Nat, NEW w \in Nat, NEW f \in Nat,
         NEW p1 \in Nat, NEW d1 \in Nat, NEW w1 \in Nat, NEW f1 \in Nat,
         p1 = p /\ d1 = d /\ w1 = w /\ f1 < f
  PROVE  8 * p1 + 5 * d1 + 8 * w1 + f1 < 8 * p + 5 * d + 8 * w + f
  OBVIOUS

LEMMA ReadWeight ==
  ASSUME NEW p \in Nat, NEW d \in Nat, NEW w \in Nat, NEW f \in Nat,
         NEW p1 \in Nat, NEW d1 \in Nat, NEW w1 \in Nat, NEW f1 \in Nat,
         p1 = p - 1 /\ d1 <= d + 1 /\ w1 = w /\ f1 = f
  PROVE  8 * p1 + 5 * d1 + 8 * w1 + f1 < 8 * p + 5 * d + 8 * w + f
  OBVIOUS

LEMMA EndWeight ==
  ASSUME NEW p \in Nat, NEW d \in Nat, NEW w \in Nat, NEW f \in Nat,
         NEW p1 \in Nat, NEW d1 \in Nat, NEW w1 \in Nat, NEW f1 \in Nat,
         p1 = p /\ d1 = 0 /\ f1 <= f + 2,
         (d = 1 /\ w1 = w) \/ (d = 0 /\ w1 = w - 1)
  PROVE  8 * p1 + 5 * d1 + 8 * w1 + f1 < 8 * p + 5 * d + 8 * w + f
  OBVIOUS

(* Every step of the parent comes nearer to its end.                       *)
LEMMA ParentNearer ==
  ASSUME Inv, Named, Parent
  PROVE  ToRead' < ToRead
<1> USE DEF Inv
<1>1. /\ PipeUnits \in Nat /\ PipeUnits' \in Nat /\ Phase \in Nat /\ Phase' \in Nat
      /\ HasData \in Nat /\ HasData' \in Nat /\ Watched \in Nat /\ Watched' \in Nat
      /\ HasData \in {0, 1} /\ HasData' \in {0, 1}
  <2>1. TypeOK'
    BY QuietStep, ReadStep, ReadEndStep DEF Parent
  <2>2. PipeUnits' \in Nat
    BY <2>1, CountTypesNext
  <2>3. Phase' \in Nat
    BY DEF Phase
  <2> QED
    BY <2>2, <2>3, PartTypes DEF Count, HasData, Watched
<1>3. CASE Select \/ Decode \/ Wait \/ \E s \in Streams : Skip(s)
  <2>1. HasData' = HasData /\ Watched' = Watched /\ PipeUnits' = PipeUnits
    BY <1>3 DEF Select, Decode, Wait, Skip, PipeUnits, Units, HasData, Watched
  <2>2. Phase' < Phase /\ Phase' \in Nat
    <3>1. CASE Select
      BY <3>1 DEF Select, Phase
    <3>2. CASE Decode
      BY <3>2 DEF Decode, Phase
    <3>3. CASE Wait
      BY <3>3 DEF Wait, Phase
    <3>4. CASE Skip("out")
      <4>1. "err" \in ready
        BY <3>4 DEF Skip, Named, TypeOK, Streams
      <4> QED
        BY <3>4, <4>1 DEF Skip, After, Phase
    <3>5. CASE Skip("err")
      BY <3>5 DEF Skip, After, Phase
    <3> QED
      BY <1>3, <3>1, <3>2, <3>3, <3>4, <3>5 DEF Streams
  <2>9. 8 * PipeUnits' + 5 * HasData' + 8 * Watched' + Phase'
          < 8 * PipeUnits + 5 * HasData + 8 * Watched + Phase
    BY <1>1, <2>1, <2>2, TurnWeight
  <2> QED
    BY <2>9 DEF ToRead
<1>4. CASE \E s \in Streams : Read(s)
  <2>1. PipeUnits' = PipeUnits - 1
    BY <1>4, ReadCounts
  <2>2. HasData' <= HasData + 1 /\ Watched' = Watched /\ Phase' = Phase
    BY <1>1, <1>4 DEF Read, Phase, Watched
  <2>9. 8 * PipeUnits' + 5 * HasData' + 8 * Watched' + Phase'
          < 8 * PipeUnits + 5 * HasData + 8 * Watched + Phase
    BY <1>1, <2>1, <2>2, ReadWeight
  <2> QED
    BY <2>9 DEF ToRead
<1>5. ASSUME NEW s \in Streams, ReadEnd(s) PROVE ToRead' < ToRead
  <2>1. PipeUnits' = PipeUnits /\ HasData' = 0
    BY <1>5 DEF ReadEnd, PipeUnits, Units, HasData, Count
  <2>2. Phase' \in Nat /\ Phase' <= Phase + 2
    BY <1>5 DEF ReadEnd, After, Phase, Streams
  <2>3. \/ HasData = 1 /\ Watched' = Watched
        \/ HasData = 0 /\ Watched' = Watched - 1
    <3>1. s \in check
      BY <1>5 DEF ReadEnd, Named, Ahead
    <3>2. CASE data = <<>>
      <4>1. HasData = 0 /\ check' = check \ {s}
        BY <1>5, <3>2 DEF ReadEnd, HasData, Count
      <4>2. CASE s = "out"
        BY <3>1, <4>1, <4>2 DEF Watched, Count
      <4>3. CASE s = "err"
        BY <3>1, <4>1, <4>3 DEF Watched, Count
      <4> QED
        BY <4>1, <4>2, <4>3 DEF Streams
    <3>3. CASE data # <<>>
      BY <1>5, <3>3 DEF ReadEnd, HasData, Watched, Count
    <3> QED
      BY <3>2, <3>3
  <2>9. 8 * PipeUnits' + 5 * HasData' + 8 * Watched' + Phase'
          < 8 * PipeUnits + 5 * HasData + 8 * Watched + Phase
    BY <1>1, <2>1, <2>2, <2>3, EndWeight
  <2> QED
    BY <2>9 DEF ToRead
<1> QED
  BY <1>3, <1>4, <1>5 DEF Parent

(* What the writers' steps change of what is left to end.                  *)
LEMMA ToEndStep ==
  ASSUME TypeOK, NEW w \in Writers,
         \/ End(w) /\ w \in alive
         \/ \E s \in Streams : BeginWrite(w, s) \/ Close(w, s)
  PROVE  ToEnd(w)' < ToEnd(w) /\ \A v \in Writers \ {w} : ToEnd(v)' = ToEnd(v)
<1> USE DEF TypeOK
<1>1. \A v : Open(v) \in Nat
  BY DEF Open, Count
<1>2. CASE End(w) /\ w \in alive
  <2>1. \A s \in Streams : w \notin holds'[s]
    BY <1>2 DEF End
  <2>2. ToEnd(w)' = 0
    BY <1>2, <2>1 DEF End, ToEnd, Open, Count, Streams
  <2>3. ToEnd(w) \in Nat /\ ToEnd(w) > 0
    BY <1>1, <1>2 DEF ToEnd, Count
  <2>4. ASSUME NEW v \in Writers \ {w} PROVE ToEnd(v)' = ToEnd(v)
    <3>1. /\ writes'[v] = writes[v] /\ (v \in alive' <=> v \in alive)
          /\ \A s \in Streams : v \in holds'[s] <=> v \in holds[s]
      BY <1>2 DEF End
    <3> QED
      BY <3>1 DEF ToEnd, Open, Count, Streams
  <2> QED
    BY <2>2, <2>3, <2>4
<1>3. ASSUME NEW s \in Streams, BeginWrite(w, s)
      PROVE  ToEnd(w)' < ToEnd(w) /\ \A v \in Writers \ {w} : ToEnd(v)' = ToEnd(v)
  <2>1. /\ holds' = holds /\ alive' = alive /\ w \in alive
        /\ writes[w] = "none" /\ writes'[w] # "none"
        /\ \A v \in Writers \ {w} : writes'[v] = writes[v]
    BY <1>3 DEF BeginWrite, Streams
  <2>2. \A v \in Writers : Open(v)' = Open(v)
    BY <2>1 DEF Open, Count
  <2> QED
    BY <1>1, <2>1, <2>2 DEF ToEnd, Count
<1>4. ASSUME NEW s \in Streams, Close(w, s)
      PROVE  ToEnd(w)' < ToEnd(w) /\ \A v \in Writers \ {w} : ToEnd(v)' = ToEnd(v)
  <2>1. /\ writes' = writes /\ alive' = alive /\ w \in holds[s] /\ w \notin holds'[s]
        /\ \A t \in Streams \ {s} : holds'[t] = holds[t]
        /\ \A v \in Writers \ {w}, t \in Streams : v \in holds'[t] <=> v \in holds[t]
    BY <1>4 DEF Close
  <2>2. Open(w)' < Open(w) /\ Open(w)' \in Nat /\ Open(w) \in Nat
    BY <2>1 DEF Open, Count, Streams
  <2>3. \A v \in Writers \ {w} : Open(v)' = Open(v)
    BY <2>1 DEF Open, Count, Streams
  <2> QED
    BY <2>1, <2>2, <2>3 DEF ToEnd, Count
<1> QED
  BY <1>2, <1>3, <1>4

(* A write that ends turns one unit to be written into one to be read and  *)
(* lets its writer begin another; all else keeps its weight.               *)
LEMMA EndWriteParts ==
  ASSUME TypeOK, NEW w \in Writers, NEW s \in Streams, EndWrite(w, s)
  PROVE  /\ WrittenUnits' = WrittenUnits + 1 /\ ToRead' = ToRead + 8
         /\ ToEnd(w)' = ToEnd(w) + 1
         /\ \A v \in Writers \ {w} : ToEnd(v)' = ToEnd(v)
<1>1. WrittenUnits' = WrittenUnits + 1 /\ PipeUnits' = PipeUnits + 1
  BY WriteCounts
<1>2. HasData' = HasData /\ Watched' = Watched /\ Phase' = Phase
  BY DEF EndWrite, parent, HasData, Watched, Phase
<1>3. PipeUnits \in Nat /\ HasData \in Nat /\ Watched \in Nat /\ Phase \in Nat
  BY PartTypes DEF HasData, Watched, Count
<1>4. \A p, p1, d, d1, k, k1, f, f1 \in Nat :
        p1 = p + 1 /\ d1 = d /\ k1 = k /\ f1 = f
          => 8 * p1 + 5 * d1 + 8 * k1 + f1 = 8 * p + 5 * d + 8 * k + f + 8
  OBVIOUS
<1>5. PipeUnits' \in Nat /\ HasData' \in Nat /\ Watched' \in Nat /\ Phase' \in Nat
  BY <1>1, <1>2, <1>3
<1>6. 8 * PipeUnits' + 5 * HasData' + 8 * Watched' + Phase'
        = 8 * PipeUnits + 5 * HasData + 8 * Watched + Phase + 8
  BY <1>1, <1>2, <1>3, <1>4, <1>5
<1>7. ToRead' = ToRead + 8
  BY <1>6 DEF ToRead
<1>8. /\ holds' = holds /\ alive' = alive /\ w \in alive
      /\ writes[w] # "none" /\ writes'[w] = "none"
      /\ \A v \in Writers \ {w} : writes'[v] = writes[v]
  BY DEF EndWrite, TypeOK, Streams
<1>9. \A v \in Writers : Open(v) \in Nat /\ Open(v)' = Open(v)
  BY <1>8 DEF Open, Count
<1>10. ToEnd(w)' = ToEnd(w) + 1 /\ \A v \in Writers \ {w} : ToEnd(v)' = ToEnd(v)
  BY <1>8, <1>9 DEF ToEnd, Count
<1> QED
  BY <1>1, <1>7, <1>10

LEMMA Sums ==
  ASSUME NEW u \in Nat, NEW r \in Nat, NEW c \in Nat, NEW e \in Nat,
         NEW u1 \in Nat, NEW r1 \in Nat, NEW c1 \in Nat, NEW e1 \in Nat,
         \/ u1 = u /\ r1 < r /\ c1 = c /\ e1 = e
         \/ u1 = u /\ r1 = r /\ c1 < c /\ e1 = e
         \/ u1 = u /\ r1 = r /\ c1 = c /\ e1 < e
         \/ u1 = u + 1 /\ r1 = r + 8 /\ c1 = c + 1 /\ e1 = e
         \/ u1 = u + 1 /\ r1 = r + 8 /\ c1 = c /\ e1 = e + 1
  PROVE  10 * (MaxUnits + 1 - u1) + r1 + c1 + e1 < 10 * (MaxUnits + 1 - u) + r + c + e
  OBVIOUS

LEMMA PartTypesNext ==
  ASSUME TypeOK'
  PROVE  /\ WrittenUnits' \in Nat /\ ToRead' \in Nat
         /\ ToEnd("child")' \in Nat /\ ToEnd("daemon")' \in Nat
<1>1. pipe' \in [Streams -> Seq(Unit)] /\ written' \in [Streams -> Seq(Unit)]
  BY DEF TypeOK
<1>2. /\ Units(pipe, "out")' \in Nat /\ Units(pipe, "err")' \in Nat
      /\ Units(written, "out")' \in Nat /\ Units(written, "err")' \in Nat
  BY <1>1, UnitsTypes
<1>3. WrittenUnits' \in Nat /\ PipeUnits' \in Nat
  BY <1>2 DEF WrittenUnits, PipeUnits
<1>4. HasData' \in Nat /\ Watched' \in Nat /\ Phase' \in Nat
  BY DEF HasData, Watched, Count, Phase
<1>5. \A p, d, k, f \in Nat : 8 * p + 5 * d + 8 * k + f \in Nat
  OBVIOUS
<1>6. ToRead' \in Nat
  BY <1>3, <1>4, <1>5 DEF ToRead
<1>7. \A v : Open(v)' \in Nat
  BY DEF Open, Count
<1>8. ToEnd("child")' \in Nat /\ ToEnd("daemon")' \in Nat
  BY <1>7 DEF ToEnd, Count
<1> QED
  BY <1>3, <1>6, <1>8

(***************************************************************************)
(* Whatever the parent, the command and what it leaves behind do brings    *)
(* run_command nearer to its end, by a measure that is never below 0: no   *)
(* turn of select and read is in vain, and the loop cannot spin.  Only the *)
(* start of another process adds to what is left.                          *)
(***************************************************************************)
AlwaysNearer == [][Left' < Left \/ Fork]_vars

THEOREM NeverInVain == Spec => []( Left \in Nat ) /\ AlwaysNearer
<1>1. Inv /\ LiveInv => Left \in Nat
  <2> SUFFICES ASSUME Inv, LiveInv PROVE Left \in Nat
    OBVIOUS
  <2>1. /\ WrittenUnits \in Nat /\ ToRead \in Nat
        /\ ToEnd("child") \in Nat /\ ToEnd("daemon") \in Nat
    BY PartTypes DEF Inv
  <2>2. Count(writes["child"] # "none") \in Nat /\ Count(writes["daemon"] # "none") \in Nat
    BY DEF Count
  <2>3. WrittenUnits <= MaxUnits + 1
    BY <2>1, <2>2 DEF LiveInv, Bounded
  <2> QED
    BY <2>1, <2>3 DEF Left
<1>2. Inv /\ LiveInv /\ [Next]_vars /\ Inv' => [Left' < Left \/ Fork]_vars
  <2> SUFFICES ASSUME Inv, LiveInv, Inv', Next, ~Fork PROVE Left' < Left
    BY DEF Next
  <2>1. /\ WrittenUnits \in Nat /\ ToRead \in Nat
        /\ ToEnd("child") \in Nat /\ ToEnd("daemon") \in Nat
    BY PartTypes DEF Inv
  <2>2. /\ WrittenUnits' \in Nat /\ ToRead' \in Nat
        /\ ToEnd("child")' \in Nat /\ ToEnd("daemon")' \in Nat
    BY PartTypesNext DEF Inv
  <2>3. CASE Parent
    <3>1. ToRead' < ToRead
      BY <2>3, ParentNearer DEF LiveInv
    <3>2. UNCHANGED writers
      BY <2>3 DEF Parent, Select, Decode, Wait, Skip, Read, ReadEnd
    <3>3. /\ WrittenUnits' = WrittenUnits
          /\ ToEnd("child")' = ToEnd("child") /\ ToEnd("daemon")' = ToEnd("daemon")
      BY <3>2 DEF writers, WrittenUnits, Units, ToEnd, Open
    <3> QED
      BY <2>1, <2>2, <3>1, <3>3, Sums DEF Left
  <2>4. ASSUME NEW w \in Writers,
               \/ End(w) /\ w \in alive
               \/ \E s \in Streams : BeginWrite(w, s) \/ Close(w, s)
        PROVE  Left' < Left
    <3>1. ToEnd(w)' < ToEnd(w) /\ \A v \in Writers \ {w} : ToEnd(v)' = ToEnd(v)
      BY <2>4, ToEndStep DEF Inv
    <3>2. UNCHANGED <<parent, pipe, written>>
      BY <2>4 DEF End, BeginWrite, Close
    <3>3. WrittenUnits' = WrittenUnits /\ ToRead' = ToRead
      BY <3>2 DEF parent, WrittenUnits, PipeUnits, Units, ToRead, HasData, Watched, Phase
    <3>4. \/ ToEnd("child")' < ToEnd("child") /\ ToEnd("daemon")' = ToEnd("daemon")
          \/ ToEnd("child")' = ToEnd("child") /\ ToEnd("daemon")' < ToEnd("daemon")
      BY <3>1 DEF Writers
    <3> QED
      BY <2>1, <2>2, <3>3, <3>4, Sums DEF Left
  <2>5. ASSUME NEW w \in Writers, NEW s \in Streams, EndWrite(w, s)
        PROVE  Left' < Left
    <3>1. /\ WrittenUnits' = WrittenUnits + 1 /\ ToRead' = ToRead + 8
          /\ ToEnd(w)' = ToEnd(w) + 1
          /\ \A v \in Writers \ {w} : ToEnd(v)' = ToEnd(v)
      BY <2>5, EndWriteParts DEF Inv
    <3>2. \/ ToEnd("child")' = ToEnd("child") + 1 /\ ToEnd("daemon")' = ToEnd("daemon")
          \/ ToEnd("child")' = ToEnd("child") /\ ToEnd("daemon")' = ToEnd("daemon") + 1
      BY <3>1 DEF Writers
    <3> QED
      BY <2>1, <2>2, <3>1, <3>2, Sums DEF Left
  <2> QED
    BY <2>3, <2>4, <2>5 DEF Next, Writer, Exit, Killed
<1> QED
  BY <1>1, <1>2, Invariance, LiveInvariance, PTL DEF Spec, AlwaysNearer
=============================================================================
