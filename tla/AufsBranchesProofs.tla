------------------------- MODULE AufsBranchesProofs -------------------------
(***************************************************************************)
(* Theorems about AufsBranches, for any number of components, versions and *)
(* concurrent commands.                                                    *)
(***************************************************************************)
EXTENDS AufsBranches, SequenceTheorems, TLAPS

(* Where the elements of a sequence are after an insertion or a removal.   *)
LEMMA InsertElements ==
  ASSUME NEW S, NEW s \in Seq(S), NEW e \in S, NEW i \in 1..(Len(s) + 1)
  PROVE  /\ InsertAt(s, i, e) \in Seq(S) /\ Len(InsertAt(s, i, e)) = Len(s) + 1
         /\ \A k \in 1..(Len(s) + 1) :
              InsertAt(s, i, e)[k] = IF k < i THEN s[k] ELSE IF k = i THEN e ELSE s[k - 1]
<1> DEFINE a == SubSeq(s, 1, i - 1)
           z == SubSeq(s, i, Len(s))
           u == <<e>>
           b == a \o u
           r == b \o z
<1>1. /\ a \in Seq(S) /\ Len(a) = i - 1
      /\ \A k \in 1..(i - 1) : a[k] = s[k]
  OBVIOUS
<1>2. /\ z \in Seq(S) /\ Len(z) = Len(s) - i + 1
      /\ \A k \in 1..(Len(s) - i + 1) : z[k] = s[i + k - 1]
  OBVIOUS
<1>3. u \in Seq(S) /\ Len(u) = 1 /\ u[1] = e
  OBVIOUS
<1>4. InsertAt(s, i, e) = r
  BY DEF InsertAt
<1> HIDE DEF a, z, u
<1>5. /\ b \in Seq(S) /\ Len(b) = i
      /\ \A k \in 1..i : b[k] = IF k <= i - 1 THEN a[k] ELSE u[k - (i - 1)]
  <2>1. /\ b \in Seq(S) /\ Len(b) = Len(a) + Len(u)
        /\ \A k \in 1..Len(a) + Len(u) : b[k] = IF k <= Len(a) THEN a[k] ELSE u[k - Len(a)]
    BY <1>1, <1>3, ConcatProperties
  <2> HIDE DEF b
  <2> QED
    BY <2>1, <1>1, <1>3
<1>6. \A k \in 1..i : b[k] = IF k < i THEN s[k] ELSE e
  BY <1>1, <1>3, <1>5
<1> HIDE DEF b
<1>7. /\ r \in Seq(S) /\ Len(r) = Len(s) + 1
      /\ \A k \in 1..(Len(s) + 1) : r[k] = IF k <= i THEN b[k] ELSE z[k - i]
  <2>1. /\ r \in Seq(S) /\ Len(r) = Len(b) + Len(z)
        /\ \A k \in 1..Len(b) + Len(z) : r[k] = IF k <= Len(b) THEN b[k] ELSE z[k - Len(b)]
    BY <1>2, <1>5, ConcatProperties
  <2> HIDE DEF r
  <2>2. Len(b) + Len(z) = Len(s) + 1
    BY <1>2, <1>5
  <2> QED
    BY <2>1, <2>2, <1>5
<1> HIDE DEF r
<1>8. ASSUME NEW k \in 1..(Len(s) + 1)
      PROVE  r[k] = IF k < i THEN s[k] ELSE IF k = i THEN e ELSE s[k - 1]
  <2>1. CASE k <= i
    BY <1>6, <1>7, <2>1
  <2>2. CASE k > i
    <3>1. k - i \in 1..(Len(s) - i + 1) /\ i + (k - i) - 1 = k - 1
      BY <2>2
    <3>2. r[k] = z[k - i]
      BY <1>7, <2>2
    <3>3. z[k - i] = s[k - 1]
      BY <1>2, <3>1
    <3> QED
      BY <2>2, <3>2, <3>3
  <2> QED
    BY <2>1, <2>2
<1> QED
  BY <1>4, <1>7, <1>8

LEMMA RemoveElements ==
  ASSUME NEW S, NEW s \in Seq(S), NEW i \in 1..Len(s)
  PROVE  /\ RemoveAt(s, i) \in Seq(S) /\ Len(RemoveAt(s, i)) = Len(s) - 1
         /\ \A k \in 1..(Len(s) - 1) : RemoveAt(s, i)[k] = IF k < i THEN s[k] ELSE s[k + 1]
<1> DEFINE a == SubSeq(s, 1, i - 1)
           z == SubSeq(s, i + 1, Len(s))
           r == a \o z
<1>1. /\ a \in Seq(S) /\ Len(a) = i - 1
      /\ \A k \in 1..(i - 1) : a[k] = s[k]
  OBVIOUS
<1>2. /\ z \in Seq(S) /\ Len(z) = Len(s) - i
      /\ \A k \in 1..(Len(s) - i) : z[k] = s[i + k]
  OBVIOUS
<1>3. RemoveAt(s, i) = r
  BY DEF RemoveAt
<1> HIDE DEF a, z
<1>4. /\ r \in Seq(S) /\ Len(r) = Len(s) - 1
      /\ \A k \in 1..(Len(s) - 1) : r[k] = IF k <= i - 1 THEN a[k] ELSE z[k - (i - 1)]
  <2>1. /\ r \in Seq(S) /\ Len(r) = Len(a) + Len(z)
        /\ \A k \in 1..Len(a) + Len(z) : r[k] = IF k <= Len(a) THEN a[k] ELSE z[k - Len(a)]
    BY <1>1, <1>2, ConcatProperties
  <2> HIDE DEF r
  <2>2. Len(a) + Len(z) = Len(s) - 1
    BY <1>1, <1>2
  <2> QED
    BY <2>1, <2>2, <1>1
<1> HIDE DEF r
<1>5. ASSUME NEW k \in 1..(Len(s) - 1) PROVE r[k] = IF k < i THEN s[k] ELSE s[k + 1]
  <2>1. CASE k < i
    BY <1>1, <1>4, <2>1
  <2>2. CASE k >= i
    <3>1. k - (i - 1) \in 1..(Len(s) - i) /\ i + (k - (i - 1)) = k + 1
      BY <2>2
    <3>2. r[k] = z[k - (i - 1)]
      BY <1>4, <2>2
    <3>3. z[k - (i - 1)] = s[k + 1]
      BY <1>2, <3>1
    <3> QED
      BY <2>2, <3>2, <3>3
  <2> QED
    BY <2>1, <2>2
<1> QED
  BY <1>3, <1>4, <1>5

(* Components of a stack in their order.                                   *)
Ordered(s) == \A i, j \in DOMAIN s : i < j => s[i].comp <= s[j].comp

(* Inserting keeps every branch; a new one makes no duplicate, and at a    *)
(* branch of its component it keeps the order.                             *)
LEMMA InsertKeeps ==
  ASSUME NEW S, NEW s \in Seq(S), NEW e \in S, NEW i \in 1..(Len(s) + 1)
  PROVE  LET r == InsertAt(s, i, e) IN
         /\ r \in Seq(S)
         /\ \A b : Contains(s, b) => Contains(r, b)
         /\ Contains(r, e)
         /\ \A b : Contains(r, b) => Contains(s, b) \/ b = e
         /\ IsInjective(s) /\ ~Contains(s, e) => IsInjective(r)
<1> DEFINE r == InsertAt(s, i, e)
<1>1. /\ r \in Seq(S) /\ Len(r) = Len(s) + 1
      /\ \A k \in 1..(Len(s) + 1) : r[k] = IF k < i THEN s[k] ELSE IF k = i THEN e ELSE s[k - 1]
  BY InsertElements
<1> HIDE DEF r
<1>2. Len(s) \in Nat /\ i \in Int /\ 1 <= i /\ i <= Len(s) + 1
  OBVIOUS
<1>3. r[i] = e
  BY <1>1, <1>2
<1>4. ASSUME NEW k \in 1..Len(s) PROVE \E l \in 1..Len(r) : r[l] = s[k]
  <2>1. CASE k < i
    <3>1. k \in 1..(Len(s) + 1)
      BY <1>2
    <3>2. r[k] = s[k]
      BY <1>1, <2>1, <3>1
    <3> QED
      BY <1>1, <3>1, <3>2
  <2>2. CASE k >= i
    <3> DEFINE l == k + 1
    <3>1. l \in 1..(Len(s) + 1) /\ ~(l < i) /\ l # i /\ l - 1 = k
      BY <1>2, <2>2
    <3> HIDE DEF l
    <3>2. r[l] = s[k]
      BY <1>1, <3>1
    <3> QED
      BY <1>1, <3>1, <3>2
  <2> QED
    BY <2>1, <2>2
<1>5. ASSUME NEW k \in 1..Len(r), k # i
      PROVE  IF k < i THEN k \in 1..Len(s) /\ r[k] = s[k] ELSE k - 1 \in 1..Len(s) /\ r[k] = s[k - 1]
  BY <1>1, <1>2, <1>5
<1>6. \A b : Contains(s, b) => Contains(r, b)
  BY <1>4 DEF Contains
<1>7. Contains(r, e)
  BY <1>1, <1>2, <1>3 DEF Contains
<1>8. \A b : Contains(r, b) => Contains(s, b) \/ b = e
  BY <1>3, <1>5 DEF Contains
<1>9. ASSUME IsInjective(s), ~Contains(s, e) PROVE IsInjective(r)
  <2> SUFFICES ASSUME NEW k \in 1..Len(r), NEW l \in 1..Len(r), k < l, r[k] = r[l] PROVE FALSE
    BY <1>1 DEF IsInjective
  <2>1. \A m, n \in 1..Len(s) : m # n => s[m] # s[n]
    BY <1>9 DEF IsInjective
  <2>2. \A m \in 1..Len(s) : s[m] # e
    BY <1>9 DEF Contains
  <2>3. CASE k = i \/ l = i
    BY <1>3, <1>5, <2>2, <2>3
  <2>4. CASE l < i
    BY <1>2, <1>5, <2>1, <2>4
  <2>5. CASE k < i /\ i < l
    <3>1. k # i /\ l # i /\ ~(l < i) /\ k # l - 1
      BY <1>2, <2>5
    <3> QED
      BY <1>5, <2>1, <2>5, <3>1
  <2>6. CASE i < k
    <3>1. k # i /\ l # i /\ ~(k < i) /\ ~(l < i) /\ k - 1 # l - 1
      BY <1>2, <2>6
    <3> QED
      BY <1>5, <2>1, <3>1
  <2> QED
    BY <1>2, <2>3, <2>4, <2>5, <2>6
<1> QED
  BY <1>1, <1>6, <1>7, <1>8, <1>9 DEF r

LEMMA InsertOrdered ==
  ASSUME NEW s \in Seq(Branch), NEW e \in Branch, NEW i \in 1..Len(s),
         Ordered(s), s[i].comp = e.comp
  PROVE  Ordered(InsertAt(s, i, e))
<1> DEFINE r == InsertAt(s, i, e)
           place(k) == IF k <= i THEN k ELSE k - 1
<1>1. /\ Len(r) = Len(s) + 1 /\ DOMAIN r = 1..(Len(s) + 1)
      /\ \A k \in 1..(Len(s) + 1) : r[k] = IF k < i THEN s[k] ELSE IF k = i THEN e ELSE s[k - 1]
  <2>1. i \in 1..(Len(s) + 1)
    OBVIOUS
  <2>2. /\ r \in Seq(Branch) /\ Len(r) = Len(s) + 1
        /\ \A k \in 1..(Len(s) + 1) : r[k] = IF k < i THEN s[k] ELSE IF k = i THEN e ELSE s[k - 1]
    BY <2>1, InsertElements
  <2> HIDE DEF r
  <2> QED
    BY <2>2
<1> HIDE DEF r
<1>2. Len(s) \in Nat /\ i \in Int /\ 1 <= i /\ i <= Len(s)
  OBVIOUS
<1>3. ASSUME NEW k \in 1..(Len(s) + 1)
      PROVE  place(k) \in 1..Len(s) /\ r[k].comp = s[place(k)].comp
  <2>1. place(k) \in 1..Len(s)
    BY <1>2
  <2>2. CASE k = i
    BY <1>1, <2>2
  <2>3. CASE k < i
    BY <1>1, <1>2, <2>3
  <2>4. CASE k > i
    BY <1>1, <1>2, <2>4
  <2> QED
    BY <1>2, <2>1, <2>2, <2>3, <2>4
<1>4. ASSUME NEW k \in 1..(Len(s) + 1), NEW l \in 1..(Len(s) + 1), k < l
      PROVE  place(k) = place(l) \/ place(k) < place(l)
  BY <1>2, <1>4
<1>5. \A k \in 1..Len(s) : s[k].comp <= s[k].comp
  <2>1. \A k \in 1..Len(s) : s[k] \in Branch
    OBVIOUS
  <2>2. \A b \in Branch : b.comp \in Int
    BY DEF Branch, Comps
  <2> QED
    BY <2>1, <2>2
<1> HIDE DEF place
<1>6. ASSUME NEW k \in 1..(Len(s) + 1), NEW l \in 1..(Len(s) + 1), k < l
      PROVE  r[k].comp <= r[l].comp
  <2>1. s[place(k)].comp <= s[place(l)].comp
    <3>1. place(k) \in DOMAIN s /\ place(l) \in DOMAIN s
      BY <1>3
    <3>2. CASE place(k) = place(l)
      BY <1>3, <1>5, <3>2
    <3>3. CASE place(k) < place(l)
      BY <3>1, <3>3 DEF Ordered
    <3> QED
      BY <1>4, <1>6, <3>2, <3>3
  <2> QED
    BY <1>3, <2>1
<1> QED
  BY <1>1, <1>6 DEF Ordered, r

(* Deleting keeps every other branch and the order, and it deletes one.    *)
LEMMA RemoveKeeps ==
  ASSUME NEW S, NEW s \in Seq(S), NEW i \in DOMAIN s
  PROVE  LET r == RemoveAt(s, i) IN
         /\ r \in Seq(S)
         /\ \A b : Contains(s, b) /\ b # s[i] => Contains(r, b)
         /\ \A b : Contains(r, b) => Contains(s, b)
         /\ IsInjective(s) => IsInjective(r) /\ ~Contains(r, s[i])
         /\ Ordered(s) => Ordered(r)
<1> DEFINE r == RemoveAt(s, i)
           place(k) == IF k < i THEN k ELSE k + 1
<1>1. Len(s) \in Nat /\ i \in 1..Len(s)
  OBVIOUS
<1>2. /\ r \in Seq(S) /\ Len(r) = Len(s) - 1 /\ DOMAIN r = 1..(Len(s) - 1)
      /\ \A k \in 1..(Len(s) - 1) : r[k] = IF k < i THEN s[k] ELSE s[k + 1]
  <2>1. /\ r \in Seq(S) /\ Len(r) = Len(s) - 1
        /\ \A k \in 1..(Len(s) - 1) : r[k] = IF k < i THEN s[k] ELSE s[k + 1]
    BY <1>1, RemoveElements
  <2> HIDE DEF r
  <2> QED
    BY <2>1
<1> HIDE DEF r
<1>3. ASSUME NEW k \in 1..(Len(s) - 1)
      PROVE  place(k) \in 1..Len(s) /\ place(k) # i /\ r[k] = s[place(k)]
  BY <1>1, <1>2
<1>4. ASSUME NEW k \in 1..(Len(s) - 1), NEW l \in 1..(Len(s) - 1), k < l
      PROVE  place(k) < place(l)
  BY <1>1, <1>4
<1>5. ASSUME NEW k \in 1..Len(s), k # i PROVE \E l \in 1..Len(r) : r[l] = s[k]
  <2>1. CASE k < i
    <3>1. k \in 1..(Len(s) - 1)
      BY <1>1, <2>1
    <3>2. r[k] = s[k]
      BY <1>2, <2>1, <3>1
    <3> QED
      BY <1>2, <3>1, <3>2
  <2>2. CASE k > i
    <3> DEFINE l == k - 1
    <3>1. l \in 1..(Len(s) - 1) /\ ~(l < i) /\ l + 1 = k
      BY <1>1, <2>2
    <3> HIDE DEF l
    <3>2. r[l] = s[k]
      BY <1>2, <3>1
    <3> QED
      BY <1>2, <3>1, <3>2
  <2> QED
    BY <1>1, <1>5, <2>1, <2>2
<1> HIDE DEF place
<1>6. \A b : Contains(s, b) /\ b # s[i] => Contains(r, b)
  BY <1>5 DEF Contains
<1>7. \A b : Contains(r, b) => Contains(s, b)
  BY <1>2, <1>3 DEF Contains
<1>8. ASSUME IsInjective(s) PROVE IsInjective(r) /\ ~Contains(r, s[i])
  <2>1. \A m, n \in 1..Len(s) : s[m] = s[n] => m = n
    BY <1>8 DEF IsInjective
  <2>2. \A k \in 1..(Len(s) - 1) : r[k] # s[i]
    BY <1>1, <1>3, <2>1
  <2>3. ASSUME NEW k \in 1..(Len(s) - 1), NEW l \in 1..(Len(s) - 1), r[k] = r[l] PROVE k = l
    <3>1. place(k) = place(l)
      BY <1>3, <2>1, <2>3
    <3>2. ~(k < l) /\ ~(l < k)
      BY <1>3, <1>4, <3>1
    <3> QED
      BY <3>2
  <2> QED
    BY <1>2, <2>2, <2>3 DEF IsInjective, Contains
<1>9. ASSUME Ordered(s) PROVE Ordered(r)
  <2>1. ASSUME NEW k \in 1..(Len(s) - 1), NEW l \in 1..(Len(s) - 1), k < l
        PROVE  r[k].comp <= r[l].comp
    BY <1>1, <1>3, <1>4, <1>9, <2>1 DEF Ordered
  <2> QED
    BY <1>2, <2>1 DEF Ordered
<1> QED
  BY <1>2, <1>6, <1>7, <1>8, <1>9 DEF r

-----------------------------------------------------------------------------
USE BranchAssumption

(* Every reachable state has its type.                                     *)
LEMMA JobUpdate ==
  ASSUME TypeOK, NEW p \in Procs, NEW j \in Job, job' = [job EXCEPT ![p] = j],
         NEW l, l \in Ended \cup {"list", "look", "mount", "ins", "del", "umount"}, goto(p, l)
  PROVE  /\ pc' \in [Procs -> Ended \cup {"list", "look", "mount", "ins", "del", "umount"}]
         /\ job' \in [Procs -> {NoJob} \cup Job]
         /\ \A q \in Procs : pc'[q] # "idle" => job'[q] \in Job
BY DEF TypeOK, goto

LEMMA JobSame ==
  ASSUME TypeOK, NEW p \in Procs, pc[p] # "idle", job' = job,
         NEW l, l \in Ended \cup {"list", "look", "mount", "ins", "del", "umount"}, goto(p, l)
  PROVE  /\ pc' \in [Procs -> Ended \cup {"list", "look", "mount", "ins", "del", "umount"}]
         /\ job' \in [Procs -> {NoJob} \cup Job]
         /\ \A q \in Procs : pc'[q] # "idle" => job'[q] \in Job
BY DEF TypeOK, goto

(* The index of the branch to replace is one of the list.                  *)
LEMMA IndexType ==
  ASSUME TypeOK, NEW p \in Procs, pc[p] # "idle", Contains(job[p].list, job[p].mnt)
  PROVE  Index(p) \in Nat /\ Index(p) >= 1
<1>1. job[p].list \in Seq(Branch)
  BY DEF TypeOK, Job
<1>2. \E i \in DOMAIN job[p].list : job[p].list[i] = job[p].mnt
  BY <1>1 DEF Contains
<1>3. Index(p) \in DOMAIN job[p].list
  BY <1>2 DEF Index
<1> QED
  BY <1>1, <1>3

(* What a command found in the list is there.                              *)
Listed ==
  \A p \in Procs : pc[p] \in {"look", "mount", "ins"} => Contains(job[p].list, job[p].mnt)
Inv == TypeOK /\ Listed
FwdInv == Inv /\ GapInv

LEMMA InitInv == Init => FwdInv
<1> SUFFICES ASSUME Init PROVE FwdInv
  OBVIOUS
<1>1. stack \in Seq(Branch) /\ Len(stack) = NComps /\ \A c \in Comps : stack[c] = [comp |-> c, ver |-> 0]
  <2>1. \A c \in 1..NComps : [comp |-> c, ver |-> 0] \in Branch
    BY DEF Branch, Comps, Vers
  <2> QED
    BY <2>1 DEF Init, Comps
<1>2. mounted = {stack[i] : i \in Comps}
  BY <1>1 DEF Init, ToSet, Comps
<1>3. TypeOK
  <2>1. mounted \subseteq Branch
    BY <1>1, <1>2 DEF Comps
  <2> QED
    BY <1>1, <2>1 DEF Init, TypeOK, Ended, Vers
<1>4. AllShown
  <2> SUFFICES ASSUME NEW c \in Comps PROVE Shows(c, 0)
    BY DEF AllShown
  <2>1. Contains(stack, [comp |-> c, ver |-> 0])
    BY <1>1 DEF Contains, Comps
  <2> QED
    BY <2>1 DEF Shows
<1>5. \A b \in mounted : b.ver <= cur[b.comp]
  BY <1>1, <1>2 DEF Init
<1> QED
  BY <1>3, <1>4, <1>5 DEF FwdInv, Inv, Listed, GapInv, JobInv, Init

(* The image the current name has now, and the two steps that look for it. *)
LEMMA CurrentType ==
  ASSUME TypeOK, NEW p \in Procs, pc[p] # "idle"
  PROVE  /\ job[p] \in Job /\ job[p].mnt \in Branch
         /\ Current(p) \in Branch /\ Current(p).comp = job[p].mnt.comp
         /\ Current(p).ver = cur[job[p].mnt.comp]
BY DEF Current, TypeOK, Job, Branch

LEMMA Taken ==
  ASSUME TypeOK, NEW p \in Procs, Look(p) \/ Mount(p)
  PROVE  /\ pc[p] \in {"look", "mount"} /\ UNCHANGED <<cur, stack>>
         /\ \/ pc[p] = "look" /\ goto(p, "mount") /\ UNCHANGED <<job, mounted>>
            \/ /\ mounted' = mounted \cup {Current(p)}
               /\ job[p] \in Job /\ job'[p] = [job[p] EXCEPT !.new = Current(p)]
               /\ job' = [job EXCEPT ![p] = job'[p]]
               /\ job'[p] \in Job
               /\ job'[p].new = Current(p)
               /\ job'[p].mnt = job[p].mnt /\ job'[p].list = job[p].list
               /\ goto(p, IF Contains(job[p].list, Current(p)) THEN "del" ELSE "ins")
<1>1. pc[p] \in {"look", "mount"} /\ UNCHANGED <<cur, stack>>
  BY DEF Look, Mount
<1>2. \/ pc[p] = "look" /\ goto(p, "mount") /\ UNCHANGED <<job, mounted>>
      \/ Take(p, Current(p)) /\ mounted' = mounted \cup {Current(p)}
  BY DEF Look, Mount
<1>3. ASSUME Take(p, Current(p)), mounted' = mounted \cup {Current(p)}
      PROVE  /\ job[p] \in Job /\ job'[p] = [job[p] EXCEPT !.new = Current(p)]
             /\ job' = [job EXCEPT ![p] = job'[p]]
             /\ job'[p] \in Job
             /\ job'[p].new = Current(p)
             /\ job'[p].mnt = job[p].mnt /\ job'[p].list = job[p].list
  <2>1. job[p] \in Job /\ Current(p) \in Branch
    BY <1>1, CurrentType
  <2>2. job' = [job EXCEPT ![p] = [job[p] EXCEPT !.new = Current(p)]]
    BY <1>3 DEF Take
  <2>3. job'[p] = [job[p] EXCEPT !.new = Current(p)]
    BY <2>2 DEF TypeOK
  <2> QED
    BY <2>1, <2>2, <2>3 DEF Job
<1> QED
  BY <1>1, <1>2, <1>3 DEF Take

(* Every step keeps the types.                                             *)
LEMMA TypeStep == Inv /\ [Next]_vars => TypeOK'
<1> SUFFICES ASSUME Inv, [Next]_vars PROVE TypeOK'
  OBVIOUS
<1>0. mode' = mode
  BY DEF Next, vars
<1> USE <1>0 DEF Inv
<1>1. ASSUME NEW c \in Comps, Release(c) PROVE TypeOK'
  BY <1>1 DEF Release, TypeOK
<1>2. ASSUME NEW p \in Procs, NEW b \in Branch, Begin(p, b) PROVE TypeOK'
  <2> DEFINE j == [mnt |-> b, new |-> b, list |-> <<>>]
  <2>1. j \in Job
    BY DEF Job
  <2>2. job' = [job EXCEPT ![p] = j] /\ goto(p, IF cur[b.comp] = b.ver THEN "done" ELSE "list")
    BY <1>2 DEF Begin
  <2> HIDE DEF j
  <2> QED
    BY <1>2, <2>1, <2>2, JobUpdate DEF Begin, TypeOK, Ended
<1>3. ASSUME NEW p \in Procs, List(p) PROVE TypeOK'
  <2> DEFINE j == [job[p] EXCEPT !.list = stack]
  <2>1. j \in Job /\ job' = [job EXCEPT ![p] = j]
    BY <1>3 DEF List, TypeOK, Job
  <2> HIDE DEF j
  <2> QED
    BY <1>3, <2>1, JobUpdate DEF List, TypeOK, Ended
<1>4. ASSUME NEW p \in Procs, Look(p) \/ Mount(p) PROVE TypeOK'
  <2>1. pc[p] \in {"look", "mount"} /\ UNCHANGED <<cur, stack>> /\ Current(p) \in Branch
    BY <1>4, Taken, CurrentType
  <2>2. CASE goto(p, "mount") /\ UNCHANGED <<job, mounted>>
    BY <2>1, <2>2, JobSame DEF TypeOK, Ended
  <2>3. CASE /\ mounted' = mounted \cup {Current(p)}
             /\ job'[p] \in Job /\ job' = [job EXCEPT ![p] = job'[p]]
             /\ goto(p, IF Contains(job[p].list, Current(p)) THEN "del" ELSE "ins")
    <3> DEFINE j == job'[p]
               l == IF Contains(job[p].list, Current(p)) THEN "del" ELSE "ins"
    <3>1. j \in Job /\ job' = [job EXCEPT ![p] = j] /\ goto(p, l)
      BY <2>3
    <3>2. l \in Ended \cup {"list", "look", "mount", "ins", "del", "umount"}
      OBVIOUS
    <3> HIDE DEF j, l
    <3> QED
      BY <2>1, <2>3, <3>1, <3>2, JobUpdate DEF TypeOK
  <2> QED
    BY <1>4, <2>2, <2>3, Taken
<1>5. ASSUME NEW p \in Procs, Ins(p) PROVE TypeOK'
  <2>1. job[p] \in Job /\ job[p].new \in Branch
    BY <1>5 DEF Ins, TypeOK, Job
  <2>2. stack' \in Seq(Branch)
    <3>1. CASE UNCHANGED stack
      BY <3>1 DEF TypeOK
    <3>2. CASE Index(p) <= Len(stack) + 1 /\ stack' = InsertAt(stack, Index(p), job[p].new)
      <4>1. Index(p) \in Nat /\ Index(p) >= 1
        BY <1>5, IndexType DEF Ins, Listed
      <4>2. stack \in Seq(Branch) /\ Index(p) \in 1..(Len(stack) + 1)
        BY <3>2, <4>1 DEF TypeOK
      <4> QED
        BY <2>1, <3>2, <4>2, InsertKeeps
    <3> QED
      BY <1>5, <3>1, <3>2 DEF Ins
  <2> QED
    BY <1>5, <2>2, JobSame DEF Ins, TypeOK, Ended
<1>6. ASSUME NEW p \in Procs, Del(p) PROVE TypeOK'
  <2>1. stack' \in Seq(Branch)
    <3>1. CASE UNCHANGED stack
      BY <3>1 DEF TypeOK
    <3>2. ASSUME NEW i \in DOMAIN stack, stack' = RemoveAt(stack, i) PROVE stack' \in Seq(Branch)
      BY <3>2, RemoveKeeps DEF TypeOK
    <3> QED
      BY <1>6, <3>1, <3>2 DEF Del
  <2> QED
    BY <1>6, <2>1, JobSame DEF Del, TypeOK, Ended
<1>7. ASSUME NEW p \in Procs, Umount(p) PROVE TypeOK'
  BY <1>7, JobSame DEF Umount, TypeOK, Ended
<1>8. ASSUME NEW p \in Procs, Kill(p) PROVE TypeOK'
  BY <1>8, JobSame DEF Kill, TypeOK, Ended
<1>9. ASSUME UNCHANGED vars PROVE TypeOK'
  BY <1>9 DEF vars, TypeOK
<1> QED
  BY <1>1, <1>2, <1>3, <1>4, <1>5, <1>6, <1>7, <1>8, <1>9 DEF Next, Command

LEMMA ListedStep == Inv /\ [Next]_vars => Listed'
<1> SUFFICES ASSUME Inv, [Next]_vars,
                    NEW p \in Procs, pc'[p] \in {"look", "mount", "ins"}
             PROVE  Contains(job'[p].list, job'[p].mnt)
  BY DEF Listed
<1> USE DEF Inv
<1>1. CASE pc'[p] = pc[p] /\ job'[p] = job[p]
  BY <1>1 DEF Listed
<1>2. ASSUME NEW b \in Branch, Begin(p, b) PROVE FALSE
  BY <1>2 DEF Begin, goto, TypeOK
<1>3. CASE List(p)
  <2>1. /\ job[p] \in Job /\ job'[p] = [job[p] EXCEPT !.list = stack]
        /\ Contains(stack, job[p].mnt)
    BY <1>3 DEF List, goto, TypeOK
  <2> QED
    BY <2>1 DEF Job
<1>4. CASE Look(p) \/ Mount(p)
  BY <1>4, Taken DEF Listed
<1>5. CASE Ins(p) \/ Del(p) \/ Umount(p) \/ Kill(p)
  BY <1>5 DEF Ins, Del, Umount, Kill, goto, TypeOK
<1> QED
  BY <1>1, <1>2, <1>3, <1>4, <1>5
  DEF Next, Command, vars, Release, Begin, List, Look, Mount, Take, Ins, Del, Umount, Kill, goto, TypeOK, Ended

(* No step makes the newest image of a component that is shown older.      *)
LEMMA ShowsStep ==
  ASSUME FwdInv, [Next]_vars, NEW c \in Comps, NEW v \in Vers, Shows(c, v)
  PROVE  Shows(c, v)'
<1> USE DEF FwdInv, Inv
<1>1. PICK w \in v..MaxVer : Contains(stack, [comp |-> c, ver |-> w])
  BY DEF Shows
<1>2. ASSUME \A b : Contains(stack, b) => Contains(stack, b)' PROVE Shows(c, v)'
  BY <1>1, <1>2 DEF Shows
<1>3. ASSUME NEW p \in Procs, Ins(p) PROVE Shows(c, v)'
  <2>1. CASE UNCHANGED stack
    BY <1>1, <2>1 DEF Shows
  <2>2. CASE Index(p) <= Len(stack) + 1 /\ stack' = InsertAt(stack, Index(p), job[p].new)
    <3>1. Index(p) \in Nat /\ Index(p) >= 1
      BY <1>3, IndexType DEF Ins, Listed
    <3>2. stack \in Seq(Branch) /\ Index(p) \in 1..(Len(stack) + 1) /\ job[p].new \in Branch
      BY <1>3, <2>2, <3>1 DEF Ins, TypeOK, Job
    <3>3. \A b : Contains(stack, b) => Contains(stack', b)
      BY <2>2, <3>2, InsertKeeps
    <3> QED
      BY <1>1, <3>3 DEF Shows
  <2> QED
    BY <1>3, <2>1, <2>2 DEF Ins
<1>4. ASSUME NEW p \in Procs, Del(p) PROVE Shows(c, v)'
  <2>1. CASE UNCHANGED stack
    BY <1>1, <2>1 DEF Shows
  <2>2. ASSUME NEW i \in DOMAIN stack, stack[i] = job[p].mnt, stack' = RemoveAt(stack, i)
        PROVE  Shows(c, v)'
    <3> DEFINE new == job[p].new
               mnt == job[p].mnt
    <3>1. /\ new \in Branch /\ mnt \in Branch
          /\ new.comp = mnt.comp /\ new.ver > mnt.ver
          /\ Shows(new.comp, new.ver)
      BY <1>4 DEF Del, TypeOK, Job, GapInv, JobInv
    <3>2. \A b : Contains(stack, b) /\ b # mnt => Contains(stack', b)
      BY <2>2, RemoveKeeps DEF TypeOK
    <3> HIDE DEF new, mnt
    <3>3. CASE mnt # [comp |-> c, ver |-> w]
      BY <1>1, <3>2, <3>3 DEF Shows
    <3>4. CASE mnt = [comp |-> c, ver |-> w]
      <4>1. PICK u \in new.ver..MaxVer : Contains(stack, [comp |-> c, ver |-> u])
        BY <3>1, <3>4 DEF Shows
      <4>2. u \in v..MaxVer /\ [comp |-> c, ver |-> u] # mnt
        BY <1>1, <3>1, <3>4, <4>1 DEF Branch, Vers
      <4> QED
        BY <3>2, <4>1, <4>2 DEF Shows
    <3> QED
      BY <3>3, <3>4
  <2> QED
    BY <1>4, <2>1, <2>2 DEF Del
<1>5. CASE UNCHANGED stack
  BY <1>1, <1>5 DEF Shows
<1> QED
  BY <1>3, <1>4, <1>5 DEF Next, Command, vars, Release, Begin, List, Look, Mount, Umount, Kill

(* Where the current names only move forward, every step keeps the         *)
(* inductive invariant.                                                    *)
LEMMA CurForward ==
  ASSUME ~mode.rollback, FwdInv, [Next]_vars
  PROVE  \A c \in Comps : cur[c] \in Nat /\ cur'[c] \in Nat /\ cur[c] <= cur'[c]
<1> USE DEF FwdInv, Inv
<1>1. ASSUME NEW c \in Comps, Release(c) PROVE \A d \in Comps : cur[d] <= cur'[d]
  BY <1>1 DEF Release, TypeOK, Vers
<1>2. CASE UNCHANGED cur
  BY <1>2 DEF TypeOK, Vers
<1>3. TypeOK'
  BY TypeStep
<1> QED
  BY <1>1, <1>2, <1>3 DEF Next, Command, vars, Begin, List, Look, Mount, Ins, Del, Umount, Kill, TypeOK, Vers

(* A command that does not move keeps its part of the invariant.           *)
LEMMA OthersStep ==
  ASSUME ~mode.rollback, FwdInv, [Next]_vars, NEW q \in Procs, pc'[q] = pc[q], job'[q] = job[q]
  PROVE  JobInv(q)'
<1> USE DEF FwdInv, Inv
<1>1. CASE pc[q] \notin {"list", "look", "mount", "ins", "del"}
  BY <1>1 DEF JobInv
<1>2. CASE pc[q] \in {"list", "look", "mount", "ins", "del"}
  <2>1. /\ job[q].new \in Branch /\ job[q].new.comp \in Comps /\ job[q].new.ver \in Vers
        /\ job[q].mnt.comp \in Comps /\ job[q].mnt.ver \in Nat
    BY <1>2 DEF TypeOK, Job, Branch, Vers
  <2>2. JobInv(q)
    BY DEF GapInv
  <2>3. cur[job[q].mnt.comp] <= cur'[job[q].mnt.comp]
    BY <2>1, CurForward
  <2>4. pc[q] \in {"list", "look", "mount"} => job[q].mnt.ver < cur'[job[q].mnt.comp]
    BY <1>2, <2>1, <2>2, <2>3, CurForward DEF JobInv
  <2>5. \A b \in Branch : Shows(b.comp, b.ver) => Shows(b.comp, b.ver)'
    BY ShowsStep DEF Branch
  <2>6. Shows(job[q].new.comp, job[q].new.ver) => Shows(job[q].new.comp, job[q].new.ver)'
    BY <2>1, <2>5
  <2>7. ASSUME pc[q] \in {"look", "mount", "ins", "del"}, NEW b \in Branch, Contains(job[q].list, b)
        PROVE Shows(b.comp, b.ver)'
    BY <2>2, <2>5, <2>7 DEF JobInv
  <2> QED
    BY <2>2, <2>4, <2>6, <2>7 DEF JobInv
<1> QED
  BY <1>1, <1>2

LEMMA GapStep ==
  ASSUME ~mode.rollback, FwdInv, [Next]_vars
  PROVE  GapInv'
<1> USE DEF FwdInv, Inv
<1>1. TypeOK'
  BY TypeStep
<1>2. AllShown'
  <2>1. \A c \in Comps : Shows(c, 0)'
    BY ShowsStep DEF GapInv, AllShown, Vers
  <2> QED
    BY <2>1 DEF AllShown
<1>3. ASSUME NEW b \in mounted' PROVE b.ver <= cur'[b.comp]
  <2>1. b \in Branch /\ b.comp \in Comps /\ b.ver \in Nat
    BY <1>1, <1>3 DEF TypeOK, Branch, Vers
  <2>2. CASE b \in mounted
    <3>1. b.ver <= cur[b.comp]
      BY <2>2 DEF GapInv
    <3> QED
      BY <2>1, <3>1, CurForward
  <2>3. CASE b \notin mounted
    <3>1. PICK p \in Procs : Look(p) \/ Mount(p)
      <4>1. ASSUME NEW p \in Procs, Command(p) \/ Kill(p), ~(Look(p) \/ Mount(p))
            PROVE  mounted' \subseteq mounted
        BY <4>1 DEF Command, Begin, List, Ins, Del, Umount, Kill
      <4>2. ASSUME NEW c \in Comps, Release(c) PROVE mounted' = mounted
        BY <4>2 DEF Release
      <4>3. UNCHANGED vars => mounted' = mounted
        BY DEF vars
      <4>4. CASE \E p \in Procs : Command(p) \/ Kill(p)
        BY <1>3, <2>3, <4>1, <4>4
      <4>5. CASE (\E c \in Comps : Release(c)) \/ UNCHANGED vars
        BY <1>3, <2>3, <4>2, <4>3, <4>5
      <4> QED
        BY <4>4, <4>5 DEF Next
    <3>2. b = Current(p) /\ pc[p] # "idle"
      <4>1. pc[p] # "idle"
        BY <3>1, Taken
      <4>2. mounted' = mounted \/ mounted' = mounted \cup {Current(p)}
        BY <3>1, Taken
      <4> QED
        BY <1>3, <2>3, <4>1, <4>2
    <3>3. b.ver = cur[b.comp]
      BY <3>2, CurrentType
    <3> QED
      BY <2>1, <3>3, CurForward
  <2> QED
    BY <2>2, <2>3
<1>4. ASSUME NEW q \in Procs PROVE JobInv(q)'
  <2>1. CASE pc'[q] = pc[q] /\ job'[q] = job[q]
    BY <2>1, OthersStep
  <2>2. CASE pc'[q] \notin {"list", "look", "mount", "ins", "del"}
    BY <2>2 DEF JobInv
  <2>3. ASSUME NEW b \in Branch, Begin(q, b) PROVE JobInv(q)'
    <3>1. /\ job'[q] = [mnt |-> b, new |-> b, list |-> <<>>]
          /\ pc'[q] \in {"done", "list"} /\ (pc'[q] = "list" => cur[b.comp] # b.ver)
          /\ cur' = cur /\ b.ver <= cur[b.comp]
      BY <2>3 DEF Begin, goto, TypeOK, GapInv
    <3>2. b.comp \in Comps /\ b.ver \in Nat
      BY DEF Branch, Vers
    <3>3. cur[b.comp] \in Nat
      BY <3>2 DEF TypeOK, Vers
    <3>4. pc'[q] = "list" => b.ver < cur[b.comp]
      BY <3>1, <3>2, <3>3
    <3> QED
      BY <3>1, <3>4 DEF JobInv
  <2>4. CASE List(q)
    <3>1. /\ pc[q] = "list" /\ job'[q] = [job[q] EXCEPT !.list = stack]
          /\ cur' = cur /\ stack' = stack
          /\ pc'[q] \in {"look", "done"}
          /\ pc'[q] = "look" => Contains(stack, job[q].mnt)
      BY <2>4 DEF List, goto, TypeOK
    <3>2. job[q] \in Job
      BY <3>1 DEF TypeOK
    <3>3. job'[q].mnt = job[q].mnt /\ job'[q].new = job[q].new /\ job'[q].list = stack
      BY <3>1, <3>2 DEF Job
    <3>4. \A b \in Branch : Contains(stack, b) => Shows(b.comp, b.ver)'
      <4>1. ASSUME NEW b \in Branch, Contains(stack, b) PROVE Shows(b.comp, b.ver)
        <5>1. b.ver \in b.ver..MaxVer /\ b = [comp |-> b.comp, ver |-> b.ver]
          BY DEF Branch, Vers
        <5> QED
          BY <4>1, <5>1 DEF Shows
      <4> QED
        BY <4>1, ShowsStep DEF Branch
    <3> QED
      BY <3>1, <3>3, <3>4 DEF JobInv, GapInv
  <2>5. CASE Look(q) \/ Mount(q)
    <3>1. pc[q] \in {"look", "mount"} /\ cur' = cur /\ stack' = stack
      BY <2>5, Taken
    <3>2. JobInv(q)
      BY DEF GapInv
    <3>3. CASE goto(q, "mount") /\ job' = job
      BY <3>1, <3>2, <3>3 DEF JobInv, Shows, goto, TypeOK
    <3>4. CASE /\ job'[q].new = Current(q)
               /\ job'[q].mnt = job[q].mnt /\ job'[q].list = job[q].list
               /\ goto(q, IF Contains(job[q].list, Current(q)) THEN "del" ELSE "ins")
      <4>1. /\ Current(q) \in Branch /\ Current(q).comp = job[q].mnt.comp
            /\ Current(q).ver = cur[job[q].mnt.comp]
        BY <3>1, CurrentType
      <4>2. /\ pc'[q] \in {"del", "ins"}
            /\ pc'[q] = "del" => Contains(job[q].list, Current(q))
        BY <3>4 DEF goto, TypeOK
      <4>3. job[q].mnt.ver < Current(q).ver
        BY <3>1, <3>2, <4>1 DEF JobInv
      <4>4. \A b \in Branch : Contains(job[q].list, b) => Shows(b.comp, b.ver)'
        BY <3>1, <3>2 DEF JobInv, Shows
      <4>5. ASSUME pc'[q] = "del" PROVE Shows(job[q].new.comp, job[q].new.ver)'
        <5>1. Shows(Current(q).comp, Current(q).ver)
          BY <3>1, <3>2, <4>1, <4>2, <4>5 DEF JobInv
        <5>2. /\ stack' = stack /\ job'[q].new.comp = Current(q).comp
              /\ job'[q].new.ver = Current(q).ver
          BY <3>1, <3>4
        <5> QED
          BY <5>1, <5>2 DEF Shows
      <4>6. Contains(job'[q].list, job'[q].mnt)
        BY <3>1, <3>2, <3>4 DEF JobInv
      <4> QED
        BY <3>4, <4>1, <4>2, <4>3, <4>4, <4>5, <4>6 DEF JobInv, Shows
    <3> QED
      BY <2>5, <3>3, <3>4, Taken
  <2>6. CASE Ins(q)
    <3>1. /\ pc[q] = "ins" /\ job'[q] = job[q] /\ cur' = cur
          /\ pc'[q] \in {"del", "failed"}
      BY <2>6 DEF Ins, goto, TypeOK
    <3>2. job[q].new \in Branch /\ job[q].new.comp \in Comps /\ job[q].new.ver \in Vers
      BY <3>1 DEF TypeOK, Job, Branch
    <3>3. JobInv(q)
      BY DEF GapInv
    <3>4. \A b \in Branch : Shows(b.comp, b.ver) => Shows(b.comp, b.ver)'
      BY ShowsStep DEF Branch
    <3>5. ASSUME pc'[q] = "del" PROVE Shows(job[q].new.comp, job[q].new.ver)'
      <4>1. /\ Index(q) <= Len(stack) + 1
            /\ stack' = InsertAt(stack, Index(q), job[q].new)
        BY <2>6, <3>5 DEF Ins, goto, TypeOK
      <4>2. Index(q) \in Nat /\ Index(q) >= 1
        BY <3>1, <3>3, IndexType DEF JobInv
      <4>3. stack \in Seq(Branch) /\ Index(q) \in 1..(Len(stack) + 1)
        BY <4>1, <4>2 DEF TypeOK
      <4>4. Contains(stack', job[q].new)
        BY <3>2, <4>1, <4>3, InsertKeeps
      <4>5. /\ job[q].new.ver \in job[q].new.ver..MaxVer
            /\ job[q].new = [comp |-> job[q].new.comp, ver |-> job[q].new.ver]
        BY <3>2 DEF Branch, Vers
      <4> QED
        BY <3>1, <4>4, <4>5 DEF Shows
    <3> QED
      BY <3>1, <3>3, <3>4, <3>5 DEF JobInv
  <2> QED
    BY <2>1, <2>2, <2>3, <2>4, <2>5, <2>6
    DEF Next, Command, vars, Release, Begin, List, Look, Mount, Take, Ins, Del, Umount, Kill, goto, TypeOK, Ended
<1> QED
  BY <1>2, <1>3, <1>4 DEF GapInv

-----------------------------------------------------------------------------
(* The inductive invariants hold of every reachable state.                 *)
LEMMA Invariance == Spec => [](Inv /\ (~mode.rollback => GapInv))
<1>1. Init => Inv /\ (~mode.rollback => GapInv)
  BY InitInv DEF FwdInv
<1>2. Inv /\ (~mode.rollback => GapInv) /\ [Next]_vars => (Inv /\ (~mode.rollback => GapInv))'
  <2>1. [Next]_vars => mode' = mode
    BY DEF Next, vars
  <2> QED
    BY <2>1, TypeStep, ListedStep, GapStep DEF Inv, FwdInv
<1> QED
  BY <1>1, <1>2, PTL DEF Spec

(* Every variable keeps its type.                                          *)
THEOREM TypeCorrect == Spec => []TypeOK
<1>1. Inv => TypeOK
  BY DEF Inv
<1> QED
  BY <1>1, Invariance, PTL

(* However many commands update branches, wherever they fail or die, every *)
(* component stays in the running root file system, as long as current     *)
(* names only move forward: what a command is about to delete is older     *)
(* than the image it has found or inserted, whenever it read the name.     *)
THEOREM NeverGap == Spec => []NoGap
<1>1. Inv /\ (~mode.rollback => GapInv) => NoGap
  BY DEF GapInv, NoGap
<1> QED
  BY <1>1, Invariance, PTL

(* The newest image the file system shows of a component never gets older, *)
(* whatever commands run, fail or die, while current names only move       *)
(* forward.                                                                *)
THEOREM OnlyForward == Spec => NeverOlder
<1>1. Inv /\ (~mode.rollback => GapInv) /\ [Next]_vars
        => [~mode.rollback => \A c \in Comps, v \in Vers : Shows(c, v) => Shows(c, v)']_vars
  BY ShowsStep DEF FwdInv
<1> QED
  BY <1>1, Invariance, PTL DEF Spec, NeverOlder

-----------------------------------------------------------------------------
(* One command at a time.  What it does is based on the branches as they   *)
(* are; no image is a branch twice, every branch is mounted, and the       *)
(* components are in their order.                                          *)
AloneJob(p) ==
  pc[p] \notin Ended =>
    /\ job[p].new.comp = job[p].mnt.comp
    /\ pc[p] \in {"look", "mount", "ins"} => job[p].list = stack
    /\ pc[p] = "ins" => job[p].new \in mounted
    /\ pc[p] = "del" => Contains(stack, job[p].new)
    /\ pc[p] = "umount" => ~Contains(stack, job[p].mnt)
AloneInv ==
  /\ \A p, q \in Procs : pc[p] \notin Ended /\ pc[q] \notin Ended => p = q
  /\ IsInjective(stack) /\ Ordered(stack)
  /\ \A b : Contains(stack, b) => b \in mounted
  /\ \A p \in Procs : AloneJob(p)

LEMMA AloneInit == Init => AloneInv
<1> SUFFICES ASSUME Init PROVE AloneInv
  OBVIOUS
<1>1. DOMAIN stack = Comps /\ \A c \in Comps : stack[c] = [comp |-> c, ver |-> 0]
  BY DEF Init
<1>3. IsInjective(stack) /\ Ordered(stack)
  <2>1. \A c \in Comps : stack[c].comp = c
    BY <1>1
  <2> QED
    BY <1>1, <2>1 DEF IsInjective, Ordered, Comps
<1>4. \A b : Contains(stack, b) => b \in mounted
  <2>1. stack \in Seq(Branch)
    BY InitInv DEF FwdInv, Inv, TypeOK
  <2> QED
    BY <2>1 DEF Init, Contains, ToSet
<1>5. \A p \in Procs : pc[p] \in Ended
  BY DEF Init, Ended
<1> QED
  BY <1>3, <1>4, <1>5 DEF AloneInv, AloneJob

(* A step that leaves the branches alone.                                  *)
LEMMA AloneQuiet ==
  ASSUME Inv, AloneInv, UNCHANGED stack, NEW p \in Procs,
         \A q \in Procs \ {p} : pc'[q] = pc[q] /\ job'[q] = job[q] /\ pc[q] \in Ended,
         AloneJob(p)', mounted \subseteq mounted'
  PROVE  AloneInv'
<1>1. \A q \in Procs : AloneJob(q)'
  BY DEF AloneJob
<1>2. \A b : Contains(stack', b) => b \in mounted'
  BY DEF AloneInv
<1>3. IsInjective(stack') /\ Ordered(stack')
  BY DEF AloneInv
<1>4. \A q, r \in Procs : pc'[q] \notin Ended /\ pc'[r] \notin Ended => q = r
  OBVIOUS
<1> QED
  BY <1>1, <1>2, <1>3, <1>4 DEF AloneInv

(* A command inserts where the branch it found is, above a branch of the   *)
(* same component.                                                         *)
LEMMA AloneInsert ==
  ASSUME Inv, AloneInv, NEW p \in Procs, Ins(p), pc'[p] # "failed",
         \A q \in Procs \ {p} : pc'[q] = pc[q] /\ job'[q] = job[q] /\ pc[q] \in Ended
  PROVE  AloneInv'
<1> USE DEF Inv
<1> DEFINE new == job[p].new
           i == Index(p)
<1>1. /\ pc[p] = "ins" /\ ~Contains(stack, new) /\ stack' = InsertAt(stack, i, new)
      /\ pc'[p] = "del" /\ job' = job /\ mounted' = mounted
  BY DEF Ins, goto, TypeOK
<1>2. /\ new \in Branch /\ stack \in Seq(Branch)
      /\ job[p].list = stack /\ new.comp = job[p].mnt.comp /\ new \in mounted
  BY <1>1 DEF TypeOK, Job, AloneInv, AloneJob, Ended
<1>3. i \in DOMAIN stack /\ stack[i] = job[p].mnt
  <2>1. Contains(stack, job[p].mnt)
    BY <1>1, <1>2 DEF Listed
  <2>2. \E k \in DOMAIN stack : stack[k] = job[p].mnt
    BY <1>2, <2>1 DEF Contains
  <2> QED
    BY <1>2, <2>2 DEF Index
<1>4. i \in 1..Len(stack) /\ i \in 1..(Len(stack) + 1)
  BY <1>2, <1>3
<1> HIDE DEF new, i
<1>5. /\ \A b : Contains(stack, b) => Contains(stack', b)
      /\ Contains(stack', new)
      /\ \A b : Contains(stack', b) => Contains(stack, b) \/ b = new
      /\ IsInjective(stack')
  BY <1>1, <1>2, <1>4, InsertKeeps DEF AloneInv
<1>6. Ordered(stack')
  BY <1>1, <1>2, <1>3, <1>4, InsertOrdered DEF AloneInv
<1>8. \A b : Contains(stack', b) => b \in mounted'
  BY <1>1, <1>2, <1>5 DEF AloneInv
<1>9. \A q \in Procs : AloneJob(q)'
  <2>1. AloneJob(p)'
    BY <1>1, <1>2, <1>5 DEF AloneJob, new
  <2> QED
    BY <2>1 DEF AloneJob
<1>10. \A q, r \in Procs : pc'[q] \notin Ended /\ pc'[r] \notin Ended => q = r
  OBVIOUS
<1> QED
  BY <1>5, <1>6, <1>8, <1>9, <1>10 DEF AloneInv

(* It deletes the only branch of the old image.                            *)
LEMMA AloneDelete ==
  ASSUME Inv, AloneInv, NEW p \in Procs, Del(p), NEW i \in DOMAIN stack,
         stack[i] = job[p].mnt, stack' = RemoveAt(stack, i), goto(p, "umount"),
         \A q \in Procs \ {p} : pc'[q] = pc[q] /\ job'[q] = job[q] /\ pc[q] \in Ended
  PROVE  AloneInv'
<1> USE DEF Inv
<1> DEFINE new == job[p].new
           mnt == job[p].mnt
<1>1. pc[p] = "del" /\ pc'[p] = "umount" /\ job' = job /\ mounted' = mounted
  BY DEF Del, goto, TypeOK
<1>2. /\ new \in Branch /\ mnt \in Branch /\ stack \in Seq(Branch)
      /\ new.comp = mnt.comp /\ Contains(stack, new)
  BY <1>1 DEF TypeOK, Job, AloneInv, AloneJob, Ended
<1> HIDE DEF new, mnt
<1>3. /\ \A b : Contains(stack, b) /\ b # mnt => Contains(stack', b)
      /\ \A b : Contains(stack', b) => Contains(stack, b)
      /\ IsInjective(stack') /\ ~Contains(stack', mnt)
      /\ Ordered(stack')
  <2>1. mnt = stack[i]
    BY DEF mnt
  <2> QED
    BY <1>2, <2>1, RemoveKeeps DEF AloneInv
<1>5. \A b : Contains(stack', b) => b \in mounted'
  BY <1>1, <1>3 DEF AloneInv
<1>6. \A q \in Procs : AloneJob(q)'
  <2>1. AloneJob(p)'
    BY <1>1, <1>2, <1>3 DEF AloneJob, new, mnt
  <2> QED
    BY <2>1 DEF AloneJob
<1>7. \A q, r \in Procs : pc'[q] \notin Ended /\ pc'[r] \notin Ended => q = r
  OBVIOUS
<1> QED
  BY <1>3, <1>5, <1>6, <1>7 DEF AloneInv

LEMMA AloneStep ==
  ASSUME Inv, AloneInv, mode.serial, [Next]_vars
  PROVE  AloneInv'
<1> USE DEF Inv
<1>1. CASE UNCHANGED <<stack, mounted, pc, job>>
  BY <1>1 DEF AloneInv, AloneJob
<1>2. ASSUME NEW p \in Procs, Command(p) \/ Kill(p) PROVE AloneInv'
  <2>1. \A q \in Procs \ {p} : pc[q] \in Ended
    <3>1. ASSUME NEW b \in Branch, Begin(p, b) PROVE \A q \in Procs : pc[q] \in Ended
      BY <3>1 DEF Begin
    <3>2. ASSUME List(p) \/ Look(p) \/ Mount(p) \/ Ins(p) \/ Del(p) \/ Umount(p) \/ Kill(p)
          PROVE  pc[p] \notin Ended
      BY <3>2 DEF List, Look, Mount, Ins, Del, Umount, Kill, Ended
    <3>3. pc[p] \notin Ended => \A q \in Procs \ {p} : pc[q] \in Ended
      BY DEF AloneInv
    <3> QED
      BY <1>2, <3>1, <3>2, <3>3 DEF Command
  <2>2. \A q \in Procs \ {p} : pc'[q] = pc[q] /\ job'[q] = job[q] /\ pc[q] \in Ended
    BY <1>2, <2>1 DEF Command, Begin, List, Look, Mount, Take, Ins, Del, Umount, Kill, goto, TypeOK
  <2>3. ASSUME NEW b \in Branch, Begin(p, b) PROVE AloneInv'
    <3>1. /\ job'[p] = [mnt |-> b, new |-> b, list |-> <<>>]
          /\ pc'[p] \in {"done", "list"} /\ UNCHANGED <<stack, mounted>>
      BY <2>3 DEF Begin, goto, TypeOK
    <3>3. AloneJob(p)'
      BY <3>1 DEF AloneJob, Ended
    <3> QED
      BY <2>2, <3>1, <3>3, AloneQuiet
  <2>4. CASE List(p)
    <3>1. /\ pc[p] = "list" /\ job[p] \in Job /\ job'[p] = [job[p] EXCEPT !.list = stack]
          /\ pc'[p] \in {"look", "done"} /\ UNCHANGED <<stack, mounted>>
      BY <2>4 DEF List, goto, TypeOK
    <3>2. job'[p].mnt = job[p].mnt /\ job'[p].new = job[p].new /\ job'[p].list = stack
      BY <3>1 DEF Job
    <3>3. job[p].new.comp = job[p].mnt.comp
      BY <3>1 DEF AloneInv, AloneJob, Ended
    <3>4. AloneJob(p)'
      BY <3>1, <3>2, <3>3 DEF AloneJob, Ended
    <3> QED
      BY <2>2, <3>1, <3>4, AloneQuiet
  <2>5. CASE Look(p) \/ Mount(p)
    <3>1. pc[p] \in {"look", "mount"} /\ UNCHANGED stack
      BY <2>5, Taken
    <3>2. job[p].new.comp = job[p].mnt.comp /\ job[p].list = stack
      BY <3>1 DEF AloneInv, AloneJob, Ended
    <3>3. CASE goto(p, "mount") /\ UNCHANGED <<job, mounted>>
      <4>1. AloneJob(p)'
        BY <3>1, <3>2, <3>3 DEF AloneJob, goto, TypeOK
      <4> QED
        BY <2>2, <3>1, <3>3, <4>1, AloneQuiet
    <3>4. CASE /\ mounted' = mounted \cup {Current(p)}
               /\ job'[p].new = Current(p)
               /\ job'[p].mnt = job[p].mnt /\ job'[p].list = job[p].list
               /\ goto(p, IF Contains(job[p].list, Current(p)) THEN "del" ELSE "ins")
      <4>1. Current(p).comp = job[p].mnt.comp
        BY <3>1, CurrentType
      <4>2. pc'[p] \in {"del", "ins"} /\ (pc'[p] = "del" => Contains(stack, Current(p)))
        BY <3>2, <3>4 DEF goto, TypeOK
      <4>3. AloneJob(p)'
        BY <3>1, <3>2, <3>4, <4>1, <4>2 DEF AloneJob
      <4> QED
        BY <2>2, <3>1, <3>4, <4>3, AloneQuiet
    <3> QED
      BY <2>5, <3>3, <3>4, Taken
  <2>6. CASE (Ins(p) \/ Del(p) \/ Kill(p)) /\ UNCHANGED <<stack, mounted>> /\ pc'[p] = "failed"
    <3>1. AloneJob(p)'
      BY <2>6 DEF AloneJob, Ended
    <3> QED
      BY <2>2, <2>6, <3>1, AloneQuiet
  <2>7. CASE Ins(p) /\ pc'[p] # "failed"
    BY <2>2, <2>7, AloneInsert
  <2>8. CASE Umount(p)
    <3>1. /\ pc[p] = "umount" /\ job' = job /\ UNCHANGED stack
          /\ mounted' = mounted \ {job[p].mnt} /\ pc'[p] = "done"
      BY <2>8 DEF Umount, goto, TypeOK
    <3>2. \A q \in Procs : pc'[q] \in Ended
      BY <2>2, <3>1 DEF Ended
    <3>3. ~Contains(stack, job[p].mnt)
      BY <3>1 DEF AloneInv, AloneJob, Ended
    <3>4. \A b : Contains(stack', b) => b \in mounted'
      BY <3>1, <3>3 DEF AloneInv
    <3> QED
      BY <3>1, <3>2, <3>4 DEF AloneInv, AloneJob
  <2>9. CASE Del(p) /\ pc'[p] # "failed"
    <3>1. PICK i \in DOMAIN stack : stack[i] = job[p].mnt /\ stack' = RemoveAt(stack, i) /\ goto(p, "umount")
      BY <2>9 DEF Del, goto, TypeOK
    <3> QED
      BY <2>2, <2>9, <3>1, AloneDelete
  <2>10. Ins(p) \/ Del(p) \/ Kill(p) =>
           (UNCHANGED <<stack, mounted>> /\ pc'[p] = "failed") \/ (pc'[p] # "failed" /\ ~Kill(p))
    BY DEF Ins, Del, Kill, goto, TypeOK
  <2> QED
    BY <1>2, <2>3, <2>4, <2>5, <2>6, <2>7, <2>8, <2>9, <2>10 DEF Command
<1> QED
  BY <1>1, <1>2 DEF Next, vars, Release

LEMMA AloneInvariance == Spec => [](Inv /\ (mode.serial => AloneInv))
<1>1. Init => Inv /\ (mode.serial => AloneInv)
  BY InitInv, AloneInit DEF FwdInv
<1>2. Inv /\ (mode.serial => AloneInv) /\ [Next]_vars => (Inv /\ (mode.serial => AloneInv))'
  <2>1. [Next]_vars => mode' = mode
    BY DEF Next, vars
  <2> QED
    BY <2>1, TypeStep, ListedStep, AloneStep DEF Inv
<1> QED
  BY <1>1, <1>2, PTL DEF Spec

(* One command at a time never moves a branch across one of another        *)
(* component, whatever earlier commands left behind.                       *)
THEOREM OrderKept == Spec => []LayersKept
<1>1. Inv /\ (mode.serial => AloneInv) => LayersKept
  BY DEF AloneInv, Ordered, LayersKept
<1> QED
  BY <1>1, AloneInvariance, PTL

(* ... and never unmounts an image that is still a branch.                 *)
THEOREM AllMounted == Spec => []StackMounted
<1>1. Inv /\ (mode.serial => AloneInv) => StackMounted
  BY DEF Inv, TypeOK, AloneInv, Contains, ToSet, StackMounted
<1> QED
  BY <1>1, AloneInvariance, PTL
=============================================================================
