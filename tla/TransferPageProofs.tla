-------------------------- MODULE TransferPageProofs --------------------------
(***************************************************************************)
(* Proofs about TransferPage, for any files and sizes, under the           *)
(* assumption that no two uploads share a key (KeysDiffer).                *)
(*                                                                         *)
(* First what the operators on lists of jobs do: patch() changes the job   *)
(* of one upload, upload() stacks new jobs on the list, remove() drops     *)
(* one.  The last two are folds and need an induction.  Then the inductive *)
(* invariant: a job beside its request, a row of the page beside its job,  *)
(* the list on the page or under way beside the jobs done.                 *)
(***************************************************************************)
EXTENDS TransferPage, SequenceTheorems, FiniteSetTheorems, WellFoundedInduction, TLAPS

(***************************************************************************)
(* Folds, by an induction of their own.                                    *)
(***************************************************************************)

LEMMA LeastElement ==
  ASSUME NEW S, S \subseteq Nat, S # {}
  PROVE  \E m \in S : \A k \in S : m <= k
  <1> DEFINE R == OpToRel(<, Nat)
  <1>1. PICK m \in S : \A k \in S : <<k, m>> \notin R
    <2> HIDE DEF R
    <2> QED BY WFMin, NatLessThanWellFounded DEF R
  <1>2. \A k \in S : ~ k < m
    BY <1>1 DEF OpToRel
  <1> HIDE DEF R
  <1>3. m \in Nat /\ \A k \in S : k \in Nat
    OBVIOUS
  <1> QED BY <1>2, <1>3

\* Induction over the natural numbers, for a set instead of a predicate.
LEMMA Induction ==
  ASSUME NEW S, 0 \in S, \A n \in Nat : n \in S => n + 1 \in S
  PROVE  \A n \in Nat : n \in S
  <1> SUFFICES ASSUME Nat \ S # {} PROVE FALSE
    OBVIOUS
  <1>1. PICK m \in Nat \ S : \A k \in Nat \ S : m <= k
    BY LeastElement
  <1>2. m # 0 /\ m - 1 \in Nat
    BY <1>1
  <1>3. m - 1 \in S
    BY <1>1, <1>2
  <1> QED BY <1>1, <1>2, <1>3

\* h folds s with op over every subset of 1 .. n, its largest index last.
Folds(h, op, base, s, n) ==
  \A S \in SUBSET (1 .. n) :
    h[S] = IF S = {} THEN base ELSE op[h[S \ {Max(S)}]][s[Max(S)]]

CanFold(op, base, s, D, n) ==
  \E h \in [SUBSET (1 .. n) -> D] : Folds(h, op, base, s, n)

\* The largest element of 1 .. n and of the sets with it.
LEMMA MaxOfLast ==
  ASSUME NEW n \in Nat \ {0}, NEW S \in SUBSET (1 .. n), n \in S
  PROVE  Max(S) = n
  <1>1. \A y \in S : n >= y
    OBVIOUS
  <1>2. \A x \in S : (\A y \in S : x >= y) => x = n
    OBVIOUS
  <1> QED BY <1>1, <1>2 DEF Max

LEMMA MaxIsIn ==
  ASSUME NEW n \in Nat, NEW S \in SUBSET (1 .. n), S # {}
  PROVE  Max(S) \in S
  <1> DEFINE T == {i \in Nat : n - i \in S}
  <1>0. \A x \in S : x \in Nat /\ n - x \in Nat /\ n - (n - x) = x
    OBVIOUS
  <1>1. T \subseteq Nat /\ \A x \in S : n - x \in T
    BY <1>0
  <1>2. PICK m \in T : \A k \in T : m <= k
    <2>1. T # {}
      BY <1>1
    <2> QED BY <1>1, <2>1, LeastElement
  <1>3. PICK x \in S : x = n - m
    BY <1>2
  <1>4. \A y \in S : x >= y
    <2> SUFFICES ASSUME NEW y \in S PROVE x >= y
      OBVIOUS
    <2>1. m <= n - y /\ m \in Nat
      BY <1>1, <1>2
    <2> QED BY <2>1, <1>0, <1>3
  <1> QED BY <1>4 DEF Max

LEMMA FoldExists ==
  ASSUME NEW D, NEW E, NEW op \in [D -> [E -> D]], NEW base \in D, NEW s,
         NEW len \in Nat, s \in [1 .. len -> E]
  PROVE  CanFold(op, base, s, D, len)
  <1> DEFINE T == {n \in Nat : n <= len => CanFold(op, base, s, D, n)}
  <1>1. 0 \in T
    <2> DEFINE h == [S \in SUBSET (1 .. 0) |-> base]
    <2>1. \A S \in SUBSET (1 .. 0) : S = {}
      OBVIOUS
    <2>2. h \in [SUBSET (1 .. 0) -> D] /\ Folds(h, op, base, s, 0)
      BY <2>1 DEF Folds
    <2> QED BY <2>2 DEF CanFold
  <1>2. ASSUME NEW n \in Nat, n \in T PROVE n + 1 \in T
    <2> SUFFICES ASSUME n + 1 <= len
                 PROVE  CanFold(op, base, s, D, n + 1)
      OBVIOUS
    <2>1. PICK g \in [SUBSET (1 .. n) -> D] : Folds(g, op, base, s, n)
      <3>1. CanFold(op, base, s, D, n)
        BY <1>2
      <3> QED BY <3>1 DEF CanFold
    <2> DEFINE h == [S \in SUBSET (1 .. n + 1) |->
                       IF n + 1 \in S THEN op[g[S \ {n + 1}]][s[n + 1]] ELSE g[S]]
    <2>2. \A S \in SUBSET (1 .. n + 1) : S \ {n + 1} \in SUBSET (1 .. n)
      OBVIOUS
    <2>3. s[n + 1] \in E
      OBVIOUS
    <2>4. \A S \in SUBSET (1 .. n + 1) : n + 1 \notin S => S \in SUBSET (1 .. n)
      OBVIOUS
    <2>5. ASSUME NEW S \in SUBSET (1 .. n + 1)
          PROVE  h[S] \in D
      <3>1. CASE n + 1 \in S
        <4>1. g[S \ {n + 1}] \in D
          BY <2>2
        <4> QED BY <4>1, <2>3, <3>1
      <3>2. CASE n + 1 \notin S
        BY <2>4, <3>2
      <3> QED BY <3>1, <3>2
    <2>6. h \in [SUBSET (1 .. n + 1) -> D]
      BY <2>5
    <2>7. ASSUME NEW S \in SUBSET (1 .. n + 1)
          PROVE  h[S] = IF S = {} THEN base ELSE op[h[S \ {Max(S)}]][s[Max(S)]]
      <3>1. CASE n + 1 \in S
        <4>1. Max(S) = n + 1
          BY MaxOfLast, <3>1
        <4>2. S \ {n + 1} \in SUBSET (1 .. n + 1) /\ n + 1 \notin S \ {n + 1}
          OBVIOUS
        <4>3. h[S \ {n + 1}] = g[S \ {n + 1}]
          BY <4>2
        <4> QED BY <3>1, <4>1, <4>3
      <3>2. CASE n + 1 \notin S
        <4>1. S \in SUBSET (1 .. n) /\ h[S] = g[S]
          BY <3>2, <2>4
        <4>2. g[S] = IF S = {} THEN base ELSE op[g[S \ {Max(S)}]][s[Max(S)]]
          BY <4>1, <2>1 DEF Folds
        <4>3. S \ {Max(S)} \in SUBSET (1 .. n + 1) /\ n + 1 \notin S \ {Max(S)}
          BY <3>2
        <4>4. h[S \ {Max(S)}] = g[S \ {Max(S)}]
          BY <4>3
        <4> QED BY <4>1, <4>2, <4>4
      <3> QED BY <3>1, <3>2
    <2>8. Folds(h, op, base, s, n + 1)
      BY <2>7 DEF Folds
    <2> QED BY <2>6, <2>8 DEF CanFold
  <1> HIDE DEF T
  <1>3. \A n \in Nat : n \in T
    BY <1>1, <1>2, Induction
  <1> QED BY <1>3 DEF T

\* Such an h runs over s in its order.
LEMMA FoldRuns ==
  ASSUME NEW h, NEW op, NEW base, NEW s, NEW n \in Nat, Folds(h, op, base, s, n)
  PROVE  /\ h[1 .. 0] = base
         /\ \A k \in 1 .. n : h[1 .. k] = op[h[1 .. k - 1]][s[k]]
  <1>1. h[1 .. 0] = base
    <2>1. 1 .. 0 = {}
      OBVIOUS
    <2> QED BY <2>1 DEF Folds
  <1>2. ASSUME NEW k \in 1 .. n PROVE h[1 .. k] = op[h[1 .. k - 1]][s[k]]
    <2>1. 1 .. k \in SUBSET (1 .. n) /\ k \in 1 .. k /\ 1 .. k # {}
      OBVIOUS
    <2>2. Max(1 .. k) = k
      BY MaxOfLast
    <2>3. (1 .. k) \ {k} = 1 .. k - 1
      OBVIOUS
    <2> QED BY <2>1, <2>2, <2>3 DEF Folds
  <1> QED BY <1>1, <1>2

(***************************************************************************)
(* Jobs and lists of jobs.                                                 *)
(***************************************************************************)

\* No two uploads have one key: the clock has moved on between two files of one name.
KeysDiffer == \A u, v \in Uploads : KeyOf[u] = KeyOf[v] => u = v

Progress(loaded) == [done |-> loaded, speed |-> TRUE]

LEMMA JobDomain ==
  ASSUME NEW j \in Job
  PROVE  DOMAIN j = {"key", "of", "xhr", "status", "done", "speed", "error"}
  BY DEF Job

\* What patch() makes of one job: Became(r, j, ..) says the fields of the new one.
Became(r, key, of, xhr, status, done, speed, error) ==
  /\ r \in Job
  /\ r.key = key /\ r.of = of /\ r.xhr = xhr
  /\ r.status = status /\ r.done = done
  /\ (r.speed <=> speed) /\ (r.error <=> error)

LEMMA UpdatedJob ==
  ASSUME NEW j \in Job, NEW u \in Uploads, NEW loaded \in Nat
  PROVE  /\ Became(Updated(j, Paused), j.key, j.of, j.xhr, "paused", j.done, FALSE, j.error)
         /\ Became(Updated(j, Failed), j.key, j.of, j.xhr, "error", j.done, j.speed, TRUE)
         /\ Became(Updated(j, Done(u)), j.key, j.of, j.xhr, "done", Size[u], FALSE, j.error)
         /\ Became(Updated(j, Progress(loaded)), j.key, j.of, j.xhr, j.status, loaded, TRUE, j.error)
         /\ Became(Updated(j, [xhr |-> u]), j.key, j.of, u, j.status, j.done, j.speed, j.error)
  <1>1. DOMAIN j = {"key", "of", "xhr", "status", "done", "speed", "error"}
    BY JobDomain
  <1>2. Became(Updated(j, Paused), j.key, j.of, j.xhr, "paused", j.done, FALSE, j.error)
    <2>1. DOMAIN Paused = {"status", "speed"} /\ Paused.status = "paused" /\ Paused.speed = FALSE
      BY DEF Paused
    <2> QED BY <1>1, <2>1, SizeAssumption DEF Updated, Job, Became
  <1>3. Became(Updated(j, Failed), j.key, j.of, j.xhr, "error", j.done, j.speed, TRUE)
    <2>1. DOMAIN Failed = {"status", "error"} /\ Failed.status = "error" /\ Failed.error = TRUE
      BY DEF Failed
    <2> QED BY <1>1, <2>1, SizeAssumption DEF Updated, Job, Became
  <1>4. Became(Updated(j, Done(u)), j.key, j.of, j.xhr, "done", Size[u], FALSE, j.error)
    <2>1. DOMAIN Done(u) = {"status", "done", "speed"} /\ Done(u).status = "done" /\ Done(u).done = Size[u] /\ Done(u).speed = FALSE
      BY DEF Done
    <2> QED BY <1>1, <2>1, SizeAssumption DEF Updated, Job, Became
  <1>5. Became(Updated(j, Progress(loaded)), j.key, j.of, j.xhr, j.status, loaded, TRUE, j.error)
    <2>1. DOMAIN Progress(loaded) = {"done", "speed"} /\ Progress(loaded).done = loaded /\ Progress(loaded).speed = TRUE
      BY DEF Progress
    <2> QED BY <1>1, <2>1, SizeAssumption DEF Updated, Job, Became
  <1>6. Became(Updated(j, [xhr |-> u]), j.key, j.of, u, j.status, j.done, j.speed, j.error)
    <2>1. DOMAIN [xhr |-> u] = {"xhr"} /\ [xhr |-> u].xhr = u
      OBVIOUS
    <2> QED BY <1>1, <2>1, SizeAssumption DEF Updated, Job, Became
  <1> QED BY <1>2, <1>3, <1>4, <1>5, <1>6

\* patch() changes rows, and neither their number nor their order.
LEMMA PatchedRows ==
  ASSUME NEW js \in Seq(Job), NEW key, NEW fields
  PROVE  /\ DOMAIN Patched(js, key, fields) = DOMAIN js
         /\ \A i \in DOMAIN js :
              Patched(js, key, fields)[i] = IF js[i].key = key THEN Updated(js[i], fields) ELSE js[i]
  BY DEF Patched

LEMMA PatchedType ==
  ASSUME NEW js \in Seq(Job), NEW key, NEW fields, \A j \in Job : Updated(j, fields) \in Job
  PROVE  Patched(js, key, fields) \in Seq(Job) /\ Len(Patched(js, key, fields)) = Len(js)
  <1>1. DOMAIN js = 1 .. Len(js) /\ \A i \in DOMAIN js : js[i] \in Job
    OBVIOUS
  <1>2. Patched(js, key, fields) \in [1 .. Len(js) -> Job]
    BY <1>1 DEF Patched
  <1> QED BY <1>2

\* Every job has the key and the request of its own upload, and no upload has two jobs.
Sound(js) ==
  /\ js \in Seq(Job)
  /\ \A i \in DOMAIN js : js[i].key = KeyOf[js[i].of] /\ js[i].xhr = js[i].of
  /\ \A i, k \in DOMAIN js : js[i].of = js[k].of => i = k

\* Fields that patch() may set without a job becoming that of another upload.
Mild(fields) ==
  \A j \in Job :
    LET r == Updated(j, fields) IN r \in Job /\ r.key = j.key /\ r.of = j.of /\ r.xhr = j.xhr

LEMMA MildFields ==
  ASSUME NEW u \in Uploads, NEW loaded \in Nat
  PROVE  Mild(Paused) /\ Mild(Failed) /\ Mild(Done(u)) /\ Mild(Progress(loaded))
  <1> DEFINE Same(j, r) == r \in Job /\ r.key = j.key /\ r.of = j.of /\ r.xhr = j.xhr
  <1>1. ASSUME NEW j \in Job
        PROVE  /\ Same(j, Updated(j, Paused)) /\ Same(j, Updated(j, Failed))
               /\ Same(j, Updated(j, Done(u))) /\ Same(j, Updated(j, Progress(loaded)))
    <2>1. Same(j, Updated(j, Paused))
      BY UpdatedJob DEF Became
    <2>2. Same(j, Updated(j, Failed))
      BY UpdatedJob DEF Became
    <2>3. Same(j, Updated(j, Done(u)))
      BY UpdatedJob DEF Became
    <2>4. Same(j, Updated(j, Progress(loaded)))
      <3>1. Became(Updated(j, Progress(loaded)), j.key, j.of, j.xhr, j.status, loaded, TRUE, j.error)
        BY UpdatedJob
      <3> QED BY <3>1 DEF Became
    <2> QED BY <2>1, <2>2, <2>3, <2>4
  <1> QED BY <1>1 DEF Mild

LEMMA JobFields ==
  ASSUME NEW j \in Job
  PROVE  /\ j.key \in Keys /\ j.of \in Uploads /\ j.xhr \in Uploads /\ j.done \in Nat
         /\ j.status \in {"active", "paused", "done", "error"}
  BY DEF Job

LEMMA SoundRows ==
  ASSUME NEW js, Sound(js)
  PROVE  /\ js \in Seq(Job) /\ DOMAIN js = 1 .. Len(js) /\ Len(js) \in Nat
         /\ \A i \in DOMAIN js : js[i] \in Job /\ js[i].of \in Uploads /\ js[i].done \in Nat
  <1>1. js \in Seq(Job)
    BY DEF Sound
  <1>2. DOMAIN js = 1 .. Len(js) /\ Len(js) \in Nat /\ \A i \in DOMAIN js : js[i] \in Job
    BY <1>1
  <1> QED BY <1>1, <1>2, JobFields

\* With keys that differ, patch() changes the job of one upload.
LEMMA OnePatched ==
  ASSUME KeysDiffer, NEW js, Sound(js), NEW u \in Uploads, NEW fields, Mild(fields)
  PROVE  LET ps == Patched(js, KeyOf[u], fields)
         IN  /\ Sound(ps) /\ Len(ps) = Len(js) /\ DOMAIN ps = DOMAIN js
             /\ \A i \in DOMAIN js : ps[i] = IF js[i].of = u THEN Updated(js[i], fields) ELSE js[i]
             /\ \A i \in DOMAIN js : ps[i].of = js[i].of
  <1> DEFINE ps == Patched(js, KeyOf[u], fields)
  <1>1. js \in Seq(Job) /\ \A i \in DOMAIN js : js[i] \in Job /\ js[i].of \in Uploads
    BY SoundRows
  <1>2. ps \in Seq(Job) /\ Len(ps) = Len(js)
    BY <1>1, PatchedType DEF Mild
  <1>3. DOMAIN ps = DOMAIN js
    BY <1>1, PatchedRows
  <1>4. \A i \in DOMAIN js : js[i].key = KeyOf[u] <=> js[i].of = u
    BY <1>1 DEF Sound, KeysDiffer
  <1>5. \A i \in DOMAIN js : ps[i] = IF js[i].of = u THEN Updated(js[i], fields) ELSE js[i]
    BY <1>1, <1>4, PatchedRows
  <1> HIDE DEF ps
  <1>6. \A i \in DOMAIN js : ps[i].of = js[i].of /\ ps[i].key = js[i].key /\ ps[i].xhr = js[i].xhr
    BY <1>1, <1>5 DEF Mild
  <1>7. Sound(ps)
    BY <1>2, <1>3, <1>6 DEF Sound
  <1> QED BY <1>2, <1>3, <1>5, <1>6, <1>7 DEF ps

LEMMA NewJobType ==
  ASSUME NEW u \in Uploads
  PROVE  /\ NewJob(u) \in Job
         /\ NewJob(u).key = KeyOf[u] /\ NewJob(u).of = u /\ NewJob(u).xhr = u
         /\ NewJob(u).status = "active" /\ NewJob(u).done = 0 /\ ~ NewJob(u).error
  BY KeyAssumption DEF NewJob, Job

LEMMA WithJobType ==
  ASSUME NEW js \in Seq(Job), NEW u \in Uploads
  PROVE  WithJob(js, u) \in Seq(Job)
  <1>1. \A j \in Job : Updated(j, [xhr |-> u]) \in Job
    BY UpdatedJob DEF Became
  <1>2. Patched(js, KeyOf[u], [xhr |-> u]) \in Seq(Job)
    BY <1>1, PatchedType
  <1>3. <<NewJob(u)>> \in Seq(Job)
    BY NewJobType
  <1> QED BY <1>2, <1>3, ConcatProperties DEF WithJob

\* A file without a job gets one in front of the others.
LEMMA WithNewJob ==
  ASSUME KeysDiffer, NEW js, Sound(js), NEW u \in Uploads, \A i \in DOMAIN js : js[i].of # u
  PROVE  WithJob(js, u) = <<NewJob(u)>> \o js
  <1>1. \A i \in DOMAIN js : js[i].key # KeyOf[u]
    BY SoundRows DEF Sound, KeysDiffer
  <1>2. Patched(js, KeyOf[u], [xhr |-> u]) = [i \in DOMAIN js |-> js[i]]
    BY <1>1 DEF Patched
  <1>3. [i \in DOMAIN js |-> js[i]] = js
    BY DEF Sound
  <1> QED BY <1>2, <1>3 DEF WithJob

\* The jobs of the first k files of a list in front of js, the last of them first.
Stacked(js, list, k) ==
  [i \in 1 .. k + Len(js) |-> IF i <= k THEN NewJob(list[k + 1 - i]) ELSE js[i - k]]

LEMMA StackedType ==
  ASSUME NEW js \in Seq(Job), NEW list \in Seq(Uploads), NEW k \in 0 .. Len(list)
  PROVE  /\ Stacked(js, list, k) \in Seq(Job) /\ Len(Stacked(js, list, k)) = k + Len(js)
         /\ DOMAIN Stacked(js, list, k) = 1 .. k + Len(js)
         /\ \A i \in 1 .. k + Len(js) :
              Stacked(js, list, k)[i] = IF i <= k THEN NewJob(list[k + 1 - i]) ELSE js[i - k]
  <1>1. ASSUME NEW i \in 1 .. k + Len(js)
        PROVE  (IF i <= k THEN NewJob(list[k + 1 - i]) ELSE js[i - k]) \in Job
    <2>1. CASE i <= k
      <3>1. k + 1 - i \in 1 .. Len(list)
        BY <2>1
      <3>2. list[k + 1 - i] \in Uploads
        BY <3>1
      <3> QED BY <2>1, <3>2, NewJobType
    <2>2. CASE ~ i <= k
      <3>1. i - k \in 1 .. Len(js)
        BY <2>2
      <3>2. js[i - k] \in Job
        BY <3>1
      <3> QED BY <2>2, <3>2
    <2> QED BY <2>1, <2>2
  <1>2. Stacked(js, list, k) \in [1 .. k + Len(js) -> Job]
    BY <1>1 DEF Stacked
  <1>3. k + Len(js) \in Nat
    OBVIOUS
  <1> QED BY <1>2, <1>3 DEF Stacked

\* Files that are different and have no job yet.
Fresh(js, list) ==
  /\ list \in Seq(Uploads)
  /\ \A i, m \in DOMAIN list : i # m => list[i] # list[m]
  /\ \A i \in DOMAIN list, m \in DOMAIN js : js[m].of # list[i]

LEMMA StackedSound ==
  ASSUME NEW js, Sound(js), NEW list, Fresh(js, list), NEW k \in 0 .. Len(list)
  PROVE  /\ Sound(Stacked(js, list, k))
         /\ \A i \in DOMAIN Stacked(js, list, k), m \in k + 1 .. Len(list) :
              Stacked(js, list, k)[i].of # list[m]
  <1> DEFINE st == Stacked(js, list, k)
  <1>1. js \in Seq(Job) /\ list \in Seq(Uploads) /\ DOMAIN js = 1 .. Len(js) /\ DOMAIN list = 1 .. Len(list)
    BY SoundRows DEF Fresh
  <1>2. /\ st \in Seq(Job) /\ DOMAIN st = 1 .. k + Len(js)
        /\ \A i \in DOMAIN st : st[i] = IF i <= k THEN NewJob(list[k + 1 - i]) ELSE js[i - k]
    BY <1>1, StackedType
  <1> HIDE DEF st
  <1>3. ASSUME NEW i \in DOMAIN st
        PROVE  /\ i <= k => /\ k + 1 - i \in DOMAIN list
                            /\ st[i].of = list[k + 1 - i]
                            /\ st[i].key = KeyOf[st[i].of] /\ st[i].xhr = st[i].of
               /\ ~ i <= k => /\ i - k \in DOMAIN js /\ st[i] = js[i - k]
    <2>1. CASE i <= k
      <3>1. k + 1 - i \in DOMAIN list
        BY <1>1, <1>2, <2>1
      <3>2. list[k + 1 - i] \in Uploads /\ st[i] = NewJob(list[k + 1 - i])
        BY <1>1, <1>2, <2>1, <3>1
      <3> QED BY <2>1, <3>1, <3>2, NewJobType
    <2>2. CASE ~ i <= k
      BY <1>1, <1>2, <2>2
    <2> QED BY <2>1, <2>2
  <1>4. \A i \in DOMAIN st : st[i].key = KeyOf[st[i].of] /\ st[i].xhr = st[i].of
    BY <1>3 DEF Sound
  <1>5. ASSUME NEW i \in DOMAIN st, NEW m \in DOMAIN st, st[i].of = st[m].of
        PROVE  i = m
    <2>1. CASE i <= k /\ m <= k
      <3>1. k + 1 - i = k + 1 - m
        BY <1>3, <1>5, <2>1 DEF Fresh
      <3> QED BY <3>1, <1>2
    <2>2. CASE ~ i <= k /\ ~ m <= k
      <3>1. i - k = m - k
        BY <1>3, <1>5, <2>2 DEF Sound
      <3> QED BY <3>1, <1>2
    <2>3. CASE (i <= k) # (m <= k)
      BY <1>3, <1>5, <2>3 DEF Fresh
    <2> QED BY <2>1, <2>2, <2>3
  <1>6. ASSUME NEW i \in DOMAIN st, NEW m \in k + 1 .. Len(list)
        PROVE  st[i].of # list[m]
    <2>0. m \in DOMAIN list
      BY <1>1
    <2>1. CASE i <= k
      <3>1. k + 1 - i # m
        BY <1>2, <2>1
      <3> QED BY <1>3, <2>0, <2>1, <3>1 DEF Fresh
    <2>2. CASE ~ i <= k
      BY <1>3, <2>0, <2>2 DEF Fresh
    <2> QED BY <2>1, <2>2
  <1> QED BY <1>2, <1>4, <1>5, <1>6 DEF st, Sound

\* One file more.
LEMMA StackedNext ==
  ASSUME KeysDiffer, NEW js, Sound(js), NEW list, Fresh(js, list), NEW k \in 0 .. Len(list) - 1
  PROVE  WithJob(Stacked(js, list, k), list[k + 1]) = Stacked(js, list, k + 1)
  <1> DEFINE st == Stacked(js, list, k)
             nx == Stacked(js, list, k + 1)
             u == list[k + 1]
  <1>1. js \in Seq(Job) /\ list \in Seq(Uploads) /\ Len(list) \in Nat /\ Len(js) \in Nat
    BY SoundRows DEF Fresh
  <1>2. k \in 0 .. Len(list) /\ k + 1 \in 0 .. Len(list) /\ k + 1 \in 1 .. Len(list)
    BY <1>1
  <1>3. u \in Uploads
    BY <1>1, <1>2
  <1>4. Sound(st) /\ \A i \in DOMAIN st : st[i].of # u
    BY <1>1, <1>2, StackedSound
  <1>5. WithJob(st, u) = <<NewJob(u)>> \o st
    BY <1>3, <1>4, WithNewJob
  <1>6. /\ st \in Seq(Job) /\ Len(st) = k + Len(js)
        /\ \A i \in 1 .. k + Len(js) : st[i] = IF i <= k THEN NewJob(list[k + 1 - i]) ELSE js[i - k]
    BY <1>1, <1>2, StackedType
  <1>7. /\ nx \in Seq(Job) /\ Len(nx) = k + 1 + Len(js)
        /\ \A i \in 1 .. k + 1 + Len(js) :
             nx[i] = IF i <= k + 1 THEN NewJob(list[k + 1 + 1 - i]) ELSE js[i - (k + 1)]
    BY <1>1, <1>2, StackedType
  <1> HIDE DEF st, nx
  <1> DEFINE wj == <<NewJob(u)>> \o st
  <1>8. /\ wj \in Seq(Job) /\ Len(wj) = 1 + Len(st)
        /\ wj[1] = NewJob(u)
        /\ \A i \in 2 .. 1 + Len(st) : wj[i] = st[i - 1]
    <2>1. <<NewJob(u)>> \in Seq(Job) /\ Len(<<NewJob(u)>>) = 1 /\ <<NewJob(u)>>[1] = NewJob(u)
      BY <1>3, NewJobType
    <2> DEFINE one == <<NewJob(u)>>
    <2> HIDE DEF one
    <2>2. /\ one \o st \in Seq(Job) /\ Len(one \o st) = Len(one) + Len(st)
          /\ \A i \in 1 .. Len(one) + Len(st) :
               (one \o st)[i] = IF i <= Len(one) THEN one[i] ELSE st[i - Len(one)]
      BY <2>1, <1>6, ConcatProperties DEF one
    <2> QED BY <2>1, <2>2, <1>6 DEF one
  <1> HIDE DEF wj
  <1>9. ASSUME NEW i \in 1 .. 1 + Len(st)
        PROVE  wj[i] = nx[i]
    <2>1. CASE i = 1
      <3>1. nx[1] = NewJob(list[k + 1])
        BY <1>1, <1>6, <1>7, <1>2
      <3> QED BY <2>1, <3>1, <1>8
    <2>2. CASE i # 1
      <3>1. wj[i] = st[i - 1] /\ i - 1 \in 1 .. k + Len(js)
        BY <2>2, <1>8, <1>6, <1>1
      <3>2. st[i - 1] = IF i - 1 <= k THEN NewJob(list[k + 1 - (i - 1)]) ELSE js[i - 1 - k]
        BY <3>1, <1>6
      <3>3. k + 1 - (i - 1) = k + 1 + 1 - i /\ i - 1 - k = i - (k + 1) /\ (i - 1 <= k <=> i <= k + 1)
        BY <1>1
      <3>4. nx[i] = IF i <= k + 1 THEN NewJob(list[k + 1 + 1 - i]) ELSE js[i - (k + 1)]
        BY <1>1, <1>6, <1>7
      <3> QED BY <3>1, <3>2, <3>3, <3>4
    <2> QED BY <2>1, <2>2
  <1>10. wj = nx
    BY <1>1, <1>6, <1>7, <1>8, <1>9, SeqEqual
  <1> QED BY <1>5, <1>10 DEF wj, st, nx

LEMMA StackedNone ==
  ASSUME NEW js \in Seq(Job), NEW list \in Seq(Uploads)
  PROVE  Stacked(js, list, 0) = js
  <1>1. /\ Stacked(js, list, 0) \in Seq(Job) /\ Len(Stacked(js, list, 0)) = 0 + Len(js)
        /\ \A i \in 1 .. 0 + Len(js) :
             Stacked(js, list, 0)[i] = IF i <= 0 THEN NewJob(list[0 + 1 - i]) ELSE js[i - 0]
    BY StackedType
  <1>2. \A i \in 1 .. Len(js) : Stacked(js, list, 0)[i] = js[i]
    BY <1>1
  <1>3. Len(Stacked(js, list, 0)) = Len(js)
    BY <1>1
  <1> HIDE DEF Stacked
  <1> QED BY <1>1, <1>2, <1>3, SeqEqual

\* upload() of a list of fresh files stacks their jobs on the list.
LEMMA PickedJobs ==
  ASSUME KeysDiffer, NEW js, Sound(js), NEW list, Fresh(js, list)
  PROVE  FoldLeft(WithJob, js, list) = Stacked(js, list, Len(list))
  <1> DEFINE n  == Len(list)
             op == [d \in Seq(Job) |-> [u \in Uploads |-> WithJob(d, u)]]
  <1>1. js \in Seq(Job) /\ list \in Seq(Uploads) /\ n \in Nat /\ DOMAIN list = 1 .. n /\ list \in [1 .. n -> Uploads]
    BY SoundRows DEF Fresh
  <1>2. op \in [Seq(Job) -> [Uploads -> Seq(Job)]]
    BY WithJobType
  <1>3. PICK h \in [SUBSET (1 .. n) -> Seq(Job)] : Folds(h, op, js, list, n)
    <2> HIDE DEF n, op
    <2>1. CanFold(op, js, list, Seq(Job), n)
      BY <1>1, <1>2, FoldExists
    <2> QED BY <2>1 DEF CanFold
  <1>4. h = [S \in SUBSET (1 .. n) |->
               IF S = {} THEN js ELSE WithJob(h[S \ {Max(S)}], list[Max(S)])]
    <2>1. ASSUME NEW S \in SUBSET (1 .. n)
          PROVE  h[S] = IF S = {} THEN js ELSE WithJob(h[S \ {Max(S)}], list[Max(S)])
      <3>1. CASE S = {}
        BY <3>1, <1>3 DEF Folds
      <3>2. CASE S # {}
        <4>1. Max(S) \in S
          BY <3>2, <1>1, MaxIsIn
        <4>2. list[Max(S)] \in Uploads
          BY <4>1, <1>1
        <4>3. h[S \ {Max(S)}] \in Seq(Job)
          BY <1>3
        <4>4. h[S] = op[h[S \ {Max(S)}]][list[Max(S)]]
          BY <1>3, <3>2 DEF Folds
        <4> QED BY <3>2, <4>2, <4>3, <4>4
      <3> QED BY <3>1, <3>2
    <2> QED BY <2>1
  <1> HIDE DEF op
  <1>5. PICK it : /\ it = [S \in SUBSET (DOMAIN list) |->
                            IF S = {} THEN js ELSE WithJob(it[S \ {Max(S)}], list[Max(S)])]
                  /\ FoldLeft(WithJob, js, list) = it[DOMAIN list]
    BY <1>1, <1>4 DEF FoldLeft, MapThenFoldSet
  <1> DEFINE K == {k \in Nat : k <= n => it[1 .. k] = Stacked(js, list, k)}
  <1>6. 0 \in K
    <2>1. 1 .. 0 = {} /\ {} \in SUBSET (DOMAIN list)
      OBVIOUS
    <2>2. it[1 .. 0] = js
      BY <1>5, <2>1
    <2> QED BY <2>2, <1>1, StackedNone
  <1>7. ASSUME NEW k \in Nat, k \in K PROVE k + 1 \in K
    <2> SUFFICES ASSUME k + 1 <= n PROVE it[1 .. k + 1] = Stacked(js, list, k + 1)
      OBVIOUS
    <2>1. it[1 .. k] = Stacked(js, list, k)
      BY <1>1, <1>7
    <2>2. 1 .. k + 1 \in SUBSET (DOMAIN list) /\ k + 1 \in 1 .. k + 1 /\ 1 .. k + 1 # {}
      <3>1. \A x \in 1 .. k + 1 : x \in 1 .. n
        BY <1>1
      <3>2. k + 1 \in 1 .. k + 1
        OBVIOUS
      <3> HIDE DEF n
      <3> QED BY <1>1, <3>1, <3>2
    <2>3. Max(1 .. k + 1) = k + 1
      BY MaxOfLast
    <2>4. (1 .. k + 1) \ {k + 1} = 1 .. k
      OBVIOUS
    <2>5. it[1 .. k + 1] = WithJob(it[1 .. k], list[k + 1])
      BY <1>5, <2>2, <2>3, <2>4
    <2>6. k \in 0 .. Len(list) - 1
      BY <1>1
    <2> QED BY <2>1, <2>5, <2>6, StackedNext
  <1> HIDE DEF K
  <1>8. n \in K
    BY <1>1, <1>6, <1>7, Induction
  <1>9. it[1 .. n] = Stacked(js, list, n)
    BY <1>1, <1>8 DEF K
  <1> QED BY <1>1, <1>5, <1>9

\* The first k jobs of js, without the one at p.
Dropped(js, p, k) ==
  [i \in 1 .. (IF k < p THEN k ELSE k - 1) |-> IF i < p THEN js[i] ELSE js[i + 1]]

LEMMA DroppedType ==
  ASSUME NEW js \in Seq(Job), NEW p \in 1 .. Len(js), NEW k \in 0 .. Len(js)
  PROVE  LET n == IF k < p THEN k ELSE k - 1
         IN  /\ n \in Nat
             /\ Dropped(js, p, k) \in Seq(Job) /\ Len(Dropped(js, p, k)) = n
             /\ DOMAIN Dropped(js, p, k) = 1 .. n
             /\ \A i \in 1 .. n : Dropped(js, p, k)[i] = IF i < p THEN js[i] ELSE js[i + 1]
  <1> DEFINE n == IF k < p THEN k ELSE k - 1
  <1>1. n \in Nat /\ \A i \in 1 .. n : i \in 1 .. Len(js) /\ (i < p \/ i + 1 \in 1 .. Len(js))
    OBVIOUS
  <1>2. ASSUME NEW i \in 1 .. n
        PROVE  (IF i < p THEN js[i] ELSE js[i + 1]) \in Job
    <2>1. CASE i < p
      <3>1. i \in 1 .. Len(js)
        BY <1>1
      <3>2. js[i] \in Job
        BY <3>1
      <3> QED BY <2>1, <3>2
    <2>2. CASE ~ i < p
      <3>1. i + 1 \in 1 .. Len(js)
        BY <1>1, <2>2
      <3>2. js[i + 1] \in Job
        BY <3>1
      <3> QED BY <2>2, <3>2
    <2> QED BY <2>1, <2>2
  <1>3. Dropped(js, p, k) = [i \in 1 .. n |-> IF i < p THEN js[i] ELSE js[i + 1]]
    BY DEF Dropped
  <1> HIDE DEF n
  <1>4. Dropped(js, p, k) \in [1 .. n -> Job]
    BY <1>2, <1>3
  <1> QED BY <1>1, <1>3, <1>4 DEF n

\* The list without the job at p is as sound as it was.
LEMMA DroppedSound ==
  ASSUME NEW js, Sound(js), NEW p \in DOMAIN js
  PROVE  LET d == Dropped(js, p, Len(js))
         IN  /\ Sound(d) /\ DOMAIN d = 1 .. Len(js) - 1
             /\ \A i \in DOMAIN d : \E m \in DOMAIN js : m # p /\ d[i] = js[m]
             /\ \A m \in DOMAIN js : m # p => \E i \in DOMAIN d : d[i] = js[m]
  <1> DEFINE d == Dropped(js, p, Len(js))
             at(i) == IF i < p THEN i ELSE i + 1
  <1>1. js \in Seq(Job) /\ DOMAIN js = 1 .. Len(js) /\ Len(js) \in Nat
    BY SoundRows
  <1>2. d \in Seq(Job) /\ DOMAIN d = 1 .. Len(js) - 1 /\ \A i \in DOMAIN d : d[i] = js[at(i)]
    <2>1. p \in 1 .. Len(js) /\ Len(js) \in 0 .. Len(js) /\ ~ Len(js) < p
      BY <1>1
    <2>2. /\ d \in Seq(Job) /\ DOMAIN d = 1 .. Len(js) - 1
          /\ \A i \in 1 .. Len(js) - 1 : d[i] = IF i < p THEN js[i] ELSE js[i + 1]
      BY <1>1, <2>1, DroppedType
    <2> QED BY <2>2
  <1> HIDE DEF d
  <1>3. \A i \in DOMAIN d : at(i) \in DOMAIN js /\ at(i) # p
    BY <1>1, <1>2
  <1>4. \A i, m \in DOMAIN d : at(i) = at(m) => i = m
    BY <1>1, <1>2
  <1>5. ASSUME NEW m \in DOMAIN js, m # p
        PROVE  \E i \in DOMAIN d : at(i) = m
    <2>1. CASE m < p
      <3>1. m \in DOMAIN d /\ at(m) = m
        BY <1>1, <1>2, <2>1
      <3> QED BY <3>1
    <2>2. CASE ~ m < p
      <3>1. m - 1 \in DOMAIN d /\ at(m - 1) = m
        BY <1>1, <1>2, <1>5, <2>2
      <3> QED BY <3>1
    <2> QED BY <2>1, <2>2
  <1> HIDE DEF at
  <1>6. \A i \in DOMAIN d : d[i].key = KeyOf[d[i].of] /\ d[i].xhr = d[i].of
    BY <1>2, <1>3 DEF Sound
  <1>7. \A i, m \in DOMAIN d : d[i].of = d[m].of => i = m
    BY <1>2, <1>3, <1>4 DEF Sound
  <1>8. Sound(d)
    BY <1>2, <1>6, <1>7 DEF Sound
  <1> QED BY <1>2, <1>3, <1>5, <1>8 DEF d

LEMMA DroppedNext ==
  ASSUME NEW js \in Seq(Job), NEW p \in 1 .. Len(js), NEW k \in 0 .. Len(js) - 1
  PROVE  Dropped(js, p, k + 1) =
           IF k + 1 = p THEN Dropped(js, p, k) ELSE Append(Dropped(js, p, k), js[k + 1])
  <1> DEFINE n  == IF k < p THEN k ELSE k - 1
             n1 == IF k + 1 < p THEN k + 1 ELSE k + 1 - 1
             d  == Dropped(js, p, k)
             d1 == Dropped(js, p, k + 1)
  <1>1. k \in 0 .. Len(js) /\ k + 1 \in 0 .. Len(js) /\ Len(js) \in Nat
    OBVIOUS
  <1>2. n \in Nat /\ d \in Seq(Job) /\ Len(d) = n /\ \A i \in 1 .. n : d[i] = IF i < p THEN js[i] ELSE js[i + 1]
    BY <1>1, DroppedType
  <1>3. n1 \in Nat /\ d1 \in Seq(Job) /\ Len(d1) = n1 /\ \A i \in 1 .. n1 : d1[i] = IF i < p THEN js[i] ELSE js[i + 1]
    BY <1>1, DroppedType
  <1> HIDE DEF d, d1
  <1>4. CASE k + 1 = p
    <2>1. n = n1
      BY <1>4
    <2>2. d1 = d
      <3> HIDE DEF n, n1
      <3> QED BY <1>2, <1>3, <2>1, SeqEqual
    <2> QED BY <1>4, <2>2 DEF d, d1
  <1>5. CASE k + 1 # p
    <2>1. n1 = n + 1
      BY <1>5
    <2>2. js[k + 1] \in Job
      BY <1>1
    <2>3. js[k + 1] = IF n + 1 < p THEN js[n + 1] ELSE js[n + 1 + 1]
      BY <1>5
    <2> HIDE DEF n, n1
    <2>4. /\ Append(d, js[k + 1]) \in Seq(Job) /\ Len(Append(d, js[k + 1])) = n + 1
          /\ \A i \in 1 .. n : Append(d, js[k + 1])[i] = d[i]
          /\ Append(d, js[k + 1])[n + 1] = js[k + 1]
      BY <1>2, <2>2, AppendProperties
    <2>5. ASSUME NEW i \in 1 .. n + 1 PROVE d1[i] = Append(d, js[k + 1])[i]
      <3>1. CASE i \in 1 .. n
        BY <1>2, <1>3, <2>1, <2>4, <3>1
      <3>2. CASE i = n + 1
        BY <1>2, <1>3, <2>1, <2>3, <2>4, <3>2
      <3> QED BY <1>2, <3>1, <3>2
    <2>6. d1 = Append(d, js[k + 1])
      <3> DEFINE ap == Append(d, js[k + 1])
      <3>1. ap \in Seq(Job) /\ Len(ap) = Len(d1) /\ \A i \in 1 .. Len(d1) : d1[i] = ap[i]
        BY <1>3, <2>1, <2>4, <2>5
      <3> HIDE DEF ap
      <3>2. d1 = ap
        BY <1>3, <3>1, SeqEqual
      <3> QED BY <3>2 DEF ap
    <2> QED BY <1>5, <2>6 DEF d, d1
  <1> QED BY <1>4, <1>5

\* Of a list in which one job has the key, Without drops that job.
LEMMA WithoutDrops ==
  ASSUME NEW js \in Seq(Job), NEW p \in 1 .. Len(js), NEW key,
         \A i \in 1 .. Len(js) : js[i].key = key <=> i = p
  PROVE  Without(js, key) = Dropped(js, p, Len(js))
  <1> DEFINE n == Len(js)
             next(kept, j) == IF j.key = key THEN kept ELSE Append(kept, j)
             op == [d \in Seq(Job) |-> [j \in Job |-> next(d, j)]]
  <1>1. n \in Nat /\ DOMAIN js = 1 .. n /\ js \in [1 .. n -> Job] /\ <<>> \in Seq(Job)
    OBVIOUS
  <1>2. op \in [Seq(Job) -> [Job -> Seq(Job)]]
    <2>1. ASSUME NEW d \in Seq(Job), NEW j \in Job PROVE next(d, j) \in Seq(Job)
      BY AppendProperties
    <2> HIDE DEF next
    <2> QED BY <2>1
  <1> HIDE DEF next
  <1>3. PICK h \in [SUBSET (1 .. n) -> Seq(Job)] : Folds(h, op, <<>>, js, n)
    <2> HIDE DEF n, op
    <2>1. CanFold(op, <<>>, js, Seq(Job), n)
      BY <1>1, <1>2, FoldExists
    <2> QED BY <2>1 DEF CanFold
  <1>4. h = [S \in SUBSET (1 .. n) |-> IF S = {} THEN <<>> ELSE next(h[S \ {Max(S)}], js[Max(S)])]
    <2>1. ASSUME NEW S \in SUBSET (1 .. n)
          PROVE  h[S] = IF S = {} THEN <<>> ELSE next(h[S \ {Max(S)}], js[Max(S)])
      <3>1. CASE S = {}
        BY <3>1, <1>3 DEF Folds
      <3>2. CASE S # {}
        <4>1. Max(S) \in S
          BY <3>2, <1>1, MaxIsIn
        <4>2. js[Max(S)] \in Job
          BY <4>1, <1>1
        <4>3. h[S \ {Max(S)}] \in Seq(Job)
          BY <1>3
        <4>4. h[S] = op[h[S \ {Max(S)}]][js[Max(S)]]
          BY <1>3, <3>2 DEF Folds
        <4> QED BY <3>2, <4>2, <4>3, <4>4
      <3> QED BY <3>1, <3>2
    <2> QED BY <2>1
  <1> HIDE DEF op
  <1>5. PICK it : /\ it = [S \in SUBSET (DOMAIN js) |->
                            IF S = {} THEN <<>> ELSE next(it[S \ {Max(S)}], js[Max(S)])]
                  /\ Without(js, key) = it[DOMAIN js]
    BY <1>1, <1>4 DEF Without, FoldLeft, MapThenFoldSet, next
  <1> DEFINE K == {k \in Nat : k <= n => it[1 .. k] = Dropped(js, p, k)}
  <1>6. 0 \in K
    <2>1. 1 .. 0 = {} /\ {} \in SUBSET (DOMAIN js)
      OBVIOUS
    <2>2. it[1 .. 0] = <<>>
      BY <1>5, <2>1
    <2>3. Dropped(js, p, 0) \in Seq(Job) /\ Len(Dropped(js, p, 0)) = 0
      <3>1. 0 \in 0 .. Len(js) /\ 0 < p
        BY <1>1
      <3> QED BY <3>1, DroppedType
    <2>4. Dropped(js, p, 0) = <<>>
      <3> HIDE DEF Dropped
      <3> QED BY <2>3
    <2> QED BY <2>2, <2>4
  <1>7. ASSUME NEW k \in Nat, k \in K PROVE k + 1 \in K
    <2> SUFFICES ASSUME k + 1 <= n PROVE it[1 .. k + 1] = Dropped(js, p, k + 1)
      OBVIOUS
    <2>1. it[1 .. k] = Dropped(js, p, k)
      BY <1>1, <1>7
    <2>2. 1 .. k + 1 \in SUBSET (DOMAIN js) /\ k + 1 \in 1 .. k + 1 /\ 1 .. k + 1 # {}
      <3>1. \A x \in 1 .. k + 1 : x \in 1 .. n
        BY <1>1
      <3>2. k + 1 \in 1 .. k + 1
        OBVIOUS
      <3> HIDE DEF n
      <3> QED BY <1>1, <3>1, <3>2
    <2>3. Max(1 .. k + 1) = k + 1
      BY MaxOfLast
    <2>4. (1 .. k + 1) \ {k + 1} = 1 .. k
      OBVIOUS
    <2>5. it[1 .. k + 1] = next(it[1 .. k], js[k + 1])
      BY <1>5, <2>2, <2>3, <2>4
    <2>6. k \in 0 .. Len(js) - 1 /\ k + 1 \in 1 .. Len(js)
      BY <1>1
    <2>7. Dropped(js, p, k + 1) = next(Dropped(js, p, k), js[k + 1])
      BY <2>6, DroppedNext DEF next
    <2> QED BY <2>1, <2>5, <2>7
  <1> HIDE DEF K
  <1>8. n \in K
    BY <1>1, <1>6, <1>7, Induction
  <1>9. it[1 .. n] = Dropped(js, p, n)
    BY <1>1, <1>8 DEF K
  <1> QED BY <1>1, <1>5, <1>9

(***************************************************************************)
(* The calls of api.files() under way.                                     *)
(***************************************************************************)

LEMMA RemovedLoad ==
  ASSUME NEW ls \in Seq(Load), NEW i \in DOMAIN ls
  PROVE  /\ RemoveAt(ls, i) \in Seq(Load) /\ Len(RemoveAt(ls, i)) = Len(ls) - 1
         /\ i # Len(ls) => /\ Len(RemoveAt(ls, i)) > 0
                           /\ RemoveAt(ls, i)[Len(RemoveAt(ls, i))] = ls[Len(ls)]
  <1> DEFINE l == SubSeq(ls, 1, i - 1)
             r == SubSeq(ls, i + 1, Len(ls))
  <1>1. i \in 1 .. Len(ls) /\ Len(ls) \in Nat
    OBVIOUS
  <1>2. l \in Seq(Load) /\ Len(l) = i - 1
    BY <1>1, SubSeqProperties
  <1>3. r \in Seq(Load) /\ Len(r) = Len(ls) - i /\ \A m \in 1 .. Len(ls) - i : r[m] = ls[i + m]
    <2>1. i + 1 \in 1 .. Len(ls) + 1 /\ Len(ls) \in i + 1 - 1 .. Len(ls)
      BY <1>1
    <2>2. /\ r \in Seq(Load)
          /\ Len(r) = IF i + 1 <= Len(ls) THEN Len(ls) - (i + 1) + 1 ELSE 0
          /\ \A m \in 1 .. Len(ls) - (i + 1) + 1 : r[m] = ls[i + 1 + m - 1]
      BY <1>1, <2>1, SubSeqProperties
    <2> QED BY <2>2, <1>1
  <1> HIDE DEF l, r
  <1>4. /\ l \o r \in Seq(Load) /\ Len(l \o r) = Len(l) + Len(r)
        /\ \A m \in 1 .. Len(l) + Len(r) : (l \o r)[m] = IF m <= Len(l) THEN l[m] ELSE r[m - Len(l)]
    BY <1>2, <1>3, ConcatProperties
  <1>5. ASSUME i # Len(ls) PROVE Len(l \o r) > 0 /\ (l \o r)[Len(l \o r)] = ls[Len(ls)]
    <2>1. Len(l \o r) = Len(ls) - 1 /\ Len(ls) - 1 > 0 /\ ~ Len(ls) - 1 <= Len(l)
      BY <1>1, <1>2, <1>3, <1>4, <1>5
    <2>2. (l \o r)[Len(ls) - 1] = r[Len(ls) - i]
      <3>1. Len(ls) - 1 - Len(l) = Len(ls) - i /\ Len(ls) - 1 \in 1 .. Len(l) + Len(r)
        BY <1>1, <1>2, <1>3, <2>1
      <3> QED BY <1>4, <2>1, <3>1
    <2>3. r[Len(ls) - i] = ls[Len(ls)]
      <3>1. Len(ls) - i \in 1 .. Len(ls) - i /\ i + (Len(ls) - i) = Len(ls)
        BY <1>1, <1>5
      <3> QED BY <1>3, <3>1
    <2> QED BY <2>1, <2>2, <2>3
  <1>6. RemoveAt(ls, i) = l \o r
    BY DEF RemoveAt, l, r
  <1>7. Len(l \o r) = Len(ls) - 1
    BY <1>1, <1>2, <1>3, <1>4
  <1> QED BY <1>4, <1>5, <1>6, <1>7

(***************************************************************************)
(* The bar.                                                                *)
(***************************************************************************)

LEMMA AtMost100 ==
  ASSUME NEW x \in Nat
  PROVE  Min({100, x}) = IF x <= 100 THEN x ELSE 100
  <1> DEFINE m == IF x <= 100 THEN x ELSE 100
  <1>1. m \in {100, x} /\ \A y \in {100, x} : m <= y
    OBVIOUS
  <1>2. \A z \in {100, x} : (\A y \in {100, x} : z <= y) => z = m
    OBVIOUS
  <1> HIDE DEF m
  <1>3. Min({100, x}) = m
    BY <1>1, <1>2 DEF Min
  <1> QED BY <1>3 DEF m

LEMMA QuotientGrows ==
  ASSUME NEW b \in Nat \ {0}, NEW m \in Nat, NEW n \in Nat, m <= n
  PROVE  m \div b \in Nat /\ m \div b <= n \div b
  OBVIOUS

LEMMA QuotientOfMultiple ==
  ASSUME NEW b \in Nat \ {0}
  PROVE  (b * 100) \div b = 100
  OBVIOUS

LEMMA BarIs ==
  ASSUME NEW j \in Job
  PROVE  /\ Bar(j) \in 0 .. 100
         /\ Size[j.of] = 0 => Bar(j) = 0
         /\ Size[j.of] # 0 =>
              LET x == (j.done * 100) \div Size[j.of] IN Bar(j) = IF x <= 100 THEN x ELSE 100
  <1>1. Size[j.of] \in Nat /\ j.done \in Nat
    BY JobFields, SizeAssumption
  <1>2. CASE Size[j.of] = 0
    BY <1>2 DEF Bar
  <1>3. CASE Size[j.of] # 0
    <2> DEFINE x == (j.done * 100) \div Size[j.of]
    <2>1. x \in Nat
      BY <1>1, <1>3
    <2>2. Bar(j) = Min({100, x})
      BY <1>3 DEF Bar
    <2> HIDE DEF x
    <2>3. Bar(j) = IF x <= 100 THEN x ELSE 100
      BY <2>1, <2>2, AtMost100
    <2>4. Bar(j) \in 0 .. 100
      BY <2>1, <2>3
    <2> QED BY <1>3, <2>3, <2>4 DEF x
  <1> QED BY <1>2, <1>3

\* More bytes do not lower the bar, and all the bytes of the file are the most it shows.
LEMMA BarGrows ==
  ASSUME NEW j \in Job, NEW r \in Job, r.of = j.of, j.done <= r.done \/ r.done = Size[r.of]
  PROVE  Bar(j) <= Bar(r)
  <1>1. Size[j.of] \in Nat /\ j.done \in Nat /\ r.done \in Nat
    BY JobFields, SizeAssumption
  <1>2. Bar(j) \in 0 .. 100 /\ Bar(r) \in 0 .. 100
    BY BarIs
  <1>3. CASE Size[j.of] = 0
    BY <1>3, BarIs
  <1>4. CASE Size[j.of] # 0 /\ r.done = Size[r.of]
    <2>1. (r.done * 100) \div Size[r.of] = 100
      BY <1>1, <1>4, QuotientOfMultiple
    <2>2. Bar(r) = 100
      BY <1>4, <2>1, BarIs
    <2> QED BY <1>2, <2>2
  <1>5. CASE Size[j.of] # 0 /\ j.done <= r.done
    <2> DEFINE x == (j.done * 100) \div Size[j.of]
               y == (r.done * 100) \div Size[j.of]
    <2>1. x \in Nat /\ y \in Nat /\ x <= y
      <3>1. j.done * 100 \in Nat /\ r.done * 100 \in Nat /\ j.done * 100 <= r.done * 100
        BY <1>1, <1>5
      <3> QED BY <1>1, <1>5, <3>1, QuotientGrows
    <2>2. Bar(j) = IF x <= 100 THEN x ELSE 100
      BY <1>5, BarIs
    <2>3. Bar(r) = IF y <= 100 THEN y ELSE 100
      BY <1>5, BarIs
    <2> HIDE DEF x, y
    <2> QED BY <2>1, <2>2, <2>3
  <1> QED BY <1>3, <1>4, <1>5

(***************************************************************************)
(* The inductive invariant.                                                *)
(***************************************************************************)

Requests == {"unsent", "sending", "created", "refused", "abandoned", "over"}

TypeInv ==
  /\ shown \in Seq(Job)
  /\ request \in [Uploads -> Requests]
  /\ sent \in [Uploads -> Nat]
  /\ server \subseteq Uploads
  /\ loads \in Seq(Load)
  /\ newest \in {"awaited", "shown", "lost"}

\* An error is only reported by a job that has failed, or was paused when it had.
ErrorFits(j) == j.error => j.status \in {"error", "paused"}

\* A job beside its request, the bytes reported for it and the stored files.
Fits(j, r, bytes, stored) ==
  /\ r # "unsent"
  /\ j.status = "active" <=> r \in InFlight
  /\ j.status = "active" => j.done = bytes
  /\ j.status = "done" => j.of \in stored
  /\ ErrorFits(j)

JobsFit ==
  /\ Sound(jobs)
  /\ \A i \in DOMAIN jobs : Fits(jobs[i], request[jobs[i].of], sent[jobs[i].of], server)

\* No request goes on without a job, nothing is reported of one that has not begun,
\* and what the server has created it has stored.
RequestsFit ==
  \A u \in Uploads :
    /\ request[u] \in InFlight => \E i \in DOMAIN jobs : jobs[i].of = u
    /\ request[u] = "unsent" => sent[u] = 0
    /\ request[u] = "created" => u \in server

\* A row s of the page beside its job j: only an active one may be out of date.
Lags(s, j) ==
  /\ s.key = j.key /\ s.of = j.of /\ s.xhr = j.xhr
  /\ s.status # "active" => s = j
  /\ Bar(s) <= Bar(j)
  /\ ErrorFits(s)

RowsLag == Len(shown) = Len(jobs) /\ \A i \in DOMAIN jobs : Lags(shown[i], jobs[i])

\* The list that is on the page, or the one under way, has every file of a job done.
Has(list, js) == \A i \in DOMAIN js : js[i].status = "done" => js[i].of \in list

ListsFit ==
  /\ newest = "shown" => Has(files, jobs)
  /\ newest = "awaited" =>
       /\ loads # <<>>
       /\ loads[Len(loads)].served => Has(loads[Len(loads)].list, jobs)

IInv == TypeInv /\ JobsFit /\ RequestsFit /\ RowsLag /\ ListsFit

\* What a step may do to the rows.
Onwards ==
  \A i \in DOMAIN shown, k \in DOMAIN shown' :
    shown'[k].of = shown[i].of =>
      /\ Bar(shown'[k]) >= Bar(shown[i])
      /\ shown[i].status = "done" => shown'[k].status = "done"

\* Rows and jobs in the terms the steps need.
LEMMA RowFacts ==
  ASSUME IInv
  PROVE  /\ DOMAIN shown = DOMAIN jobs /\ DOMAIN jobs = 1 .. Len(jobs) /\ Len(jobs) \in Nat
         /\ jobs \in Seq(Job) /\ shown \in Seq(Job)
         /\ \A i \in DOMAIN jobs : /\ jobs[i] \in Job /\ jobs[i].of \in Uploads
                                   /\ shown[i] \in Job /\ shown[i].of = jobs[i].of
                                   /\ Lags(shown[i], jobs[i])
                                   /\ Fits(jobs[i], request[jobs[i].of], sent[jobs[i].of], server)
         /\ \A i, k \in DOMAIN jobs : jobs[i].of = jobs[k].of => i = k
  <1>1. /\ jobs \in Seq(Job) /\ DOMAIN jobs = 1 .. Len(jobs) /\ Len(jobs) \in Nat
        /\ \A i \in DOMAIN jobs : jobs[i] \in Job /\ jobs[i].of \in Uploads
    BY SoundRows DEF IInv, JobsFit
  <1>2. shown \in Seq(Job) /\ DOMAIN shown = 1 .. Len(jobs)
    <2>1. shown \in Seq(Job) /\ Len(shown) = Len(jobs)
      BY DEF IInv, TypeInv, RowsLag
    <2> QED BY <2>1
  <1>3. \A i \in DOMAIN jobs : shown[i] \in Job
    BY <1>1, <1>2
  <1>4. \A i \in DOMAIN jobs : /\ Lags(shown[i], jobs[i]) /\ shown[i].of = jobs[i].of
                              /\ Fits(jobs[i], request[jobs[i].of], sent[jobs[i].of], server)
    BY DEF IInv, RowsLag, JobsFit, Lags
  <1>5. \A i, k \in DOMAIN jobs : jobs[i].of = jobs[k].of => i = k
    BY DEF IInv, JobsFit, Sound
  <1> QED BY <1>1, <1>2, <1>3, <1>4, <1>5

\* Jobs that are sound and fit are rows that lag behind nothing.
LEMMA RenderedLag ==
  ASSUME NEW js, Sound(js), \A i \in DOMAIN js : ErrorFits(js[i])
  PROVE  \A i \in DOMAIN js : Lags(js[i], js[i])
  <1> SUFFICES ASSUME NEW i \in DOMAIN js PROVE Lags(js[i], js[i])
    OBVIOUS
  <1>1. Bar(js[i]) \in 0 .. 100
    <2>1. js[i] \in Job
      BY SoundRows
    <2> QED BY <2>1, BarIs
  <1>2. Bar(js[i]) <= Bar(js[i])
    BY <1>1
  <1> QED BY <1>2 DEF Lags

\* The step in which one upload's job is patched and nothing else of the jobs changes,
\* on the page at once or, while the request goes on, later.
LEMMA PatchStep ==
  ASSUME KeysDiffer, IInv, NEW u \in Uploads, NEW fields, Mild(fields),
         jobs' = Patched(jobs, KeyOf[u], fields), server' = server,
         request' \in [Uploads -> Requests], sent' \in [Uploads -> Nat],
         \A v \in Uploads : v # u => request'[v] = request[v] /\ sent'[v] = sent[v],
         request'[u] \in InFlight => request[u] \in InFlight,
         request'[u] = "created" => request[u] = "created",
         request'[u] # "unsent",
         \A i \in DOMAIN jobs :
           jobs[i].of = u => /\ Fits(Updated(jobs[i], fields), request'[u], sent'[u], server)
                            /\ Bar(jobs[i]) <= Bar(Updated(jobs[i], fields)),
         \/ shown' = jobs' /\ \A i \in DOMAIN shown : shown[i].of = u => shown[i].status # "done"
         \/ shown' = shown /\ request[u] \in InFlight
  PROVE  JobsFit' /\ RequestsFit' /\ RowsLag' /\ shown' \in Seq(Job) /\ Onwards
  <1> DEFINE r(i) == Updated(jobs[i], fields)
  <1>1. /\ DOMAIN shown = DOMAIN jobs /\ DOMAIN jobs = 1 .. Len(jobs) /\ Len(jobs) \in Nat
        /\ jobs \in Seq(Job) /\ shown \in Seq(Job)
        /\ \A i \in DOMAIN jobs : /\ jobs[i] \in Job /\ jobs[i].of \in Uploads
                                  /\ shown[i] \in Job /\ shown[i].of = jobs[i].of
                                  /\ Lags(shown[i], jobs[i])
                                  /\ Fits(jobs[i], request[jobs[i].of], sent[jobs[i].of], server)
        /\ \A i, k \in DOMAIN jobs : jobs[i].of = jobs[k].of => i = k
    BY RowFacts
  <1>2. /\ Sound(jobs') /\ Len(jobs') = Len(jobs) /\ DOMAIN jobs' = DOMAIN jobs
        /\ \A i \in DOMAIN jobs : jobs'[i] = IF jobs[i].of = u THEN r(i) ELSE jobs[i]
        /\ \A i \in DOMAIN jobs : jobs'[i].of = jobs[i].of
    <2>1. Sound(jobs)
      BY DEF IInv, JobsFit
    <2> QED BY <2>1, OnePatched
  <1>3. jobs' \in Seq(Job) /\ \A i \in DOMAIN jobs : jobs'[i] \in Job
    BY <1>2, SoundRows
  <1>4. \A i \in DOMAIN jobs : Fits(jobs'[i], request'[jobs[i].of], sent'[jobs[i].of], server)
    <2> SUFFICES ASSUME NEW i \in DOMAIN jobs
                 PROVE  Fits(jobs'[i], request'[jobs[i].of], sent'[jobs[i].of], server)
      OBVIOUS
    <2>1. CASE jobs[i].of = u
      BY <1>2, <2>1
    <2>2. CASE jobs[i].of # u
      BY <1>1, <1>2, <2>2
    <2> QED BY <2>1, <2>2
  <1>5. JobsFit'
    BY <1>2, <1>4 DEF JobsFit
  <1>6. RequestsFit'
    <2> SUFFICES ASSUME NEW v \in Uploads
                 PROVE  /\ request'[v] \in InFlight => \E i \in DOMAIN jobs' : jobs'[i].of = v
                        /\ request'[v] = "unsent" => sent'[v] = 0
                        /\ request'[v] = "created" => v \in server'
      BY DEF RequestsFit
    <2>1. /\ request[v] \in InFlight => \E i \in DOMAIN jobs : jobs[i].of = v
          /\ request[v] = "unsent" => sent[v] = 0
          /\ request[v] = "created" => v \in server
      BY DEF IInv, RequestsFit
    <2>2. CASE v = u
      BY <1>2, <2>1, <2>2
    <2>3. CASE v # u
      BY <1>2, <2>1, <2>3
    <2> QED BY <2>2, <2>3
  <1>7. \A i \in DOMAIN jobs : jobs'[i].key = jobs[i].key /\ jobs'[i].xhr = jobs[i].xhr
    BY <1>1, <1>2 DEF Mild
  <1>8. \A i \in DOMAIN jobs : Bar(shown[i]) <= Bar(jobs'[i])
    <2> SUFFICES ASSUME NEW i \in DOMAIN jobs PROVE Bar(shown[i]) <= Bar(jobs'[i])
      OBVIOUS
    <2>1. Bar(shown[i]) <= Bar(jobs[i])
      BY <1>1 DEF Lags
    <2>2. Bar(jobs[i]) <= Bar(jobs'[i])
      <3>1. Bar(jobs[i]) \in 0 .. 100
        BY <1>1, BarIs
      <3>2. CASE jobs[i].of = u
        BY <1>2, <3>2
      <3>3. CASE jobs[i].of # u
        <4>1. jobs'[i] = jobs[i]
          BY <1>2, <3>3
        <4>2. Bar(jobs'[i]) = Bar(jobs[i])
          BY <4>1
        <4> QED BY <3>1, <4>2
      <3> QED BY <3>2, <3>3
    <2>3. Bar(shown[i]) \in 0 .. 100 /\ Bar(jobs[i]) \in 0 .. 100 /\ Bar(jobs'[i]) \in 0 .. 100
      BY <1>1, <1>3, BarIs
    <2> QED BY <2>1, <2>2, <2>3
  <1>9. CASE /\ shown' = jobs'
             /\ \A i \in DOMAIN shown : shown[i].of = u => shown[i].status # "done"
    <2>1. \A i \in DOMAIN jobs' : Lags(jobs'[i], jobs'[i])
      <3>1. \A i \in DOMAIN jobs' : ErrorFits(jobs'[i])
        BY <1>2, <1>4 DEF Fits
      <3> QED BY <1>2, <3>1, RenderedLag
    <2>2. RowsLag'
      BY <1>9, <2>1 DEF RowsLag
    <2>3. Onwards
      <3> SUFFICES ASSUME NEW i \in DOMAIN shown, NEW k \in DOMAIN shown', shown'[k].of = shown[i].of
                   PROVE  /\ Bar(shown'[k]) >= Bar(shown[i])
                          /\ shown[i].status = "done" => shown'[k].status = "done"
        BY DEF Onwards
      <3>1. k = i
        BY <1>1, <1>2, <1>9
      <3>2. Bar(shown'[i]) >= Bar(shown[i])
        <4>1. Bar(shown[i]) \in 0 .. 100 /\ Bar(jobs'[i]) \in 0 .. 100 /\ Bar(shown[i]) <= Bar(jobs'[i])
          BY <1>1, <1>3, <1>8, BarIs
        <4> QED BY <4>1, <1>9
      <3>3. ASSUME shown[i].status = "done" PROVE shown'[i].status = "done"
        <4>1. shown[i] = jobs[i] /\ jobs[i].of # u
          BY <1>1, <1>9, <3>3 DEF Lags
        <4> QED BY <1>1, <1>2, <1>9, <3>3, <4>1
      <3> QED BY <3>1, <3>2, <3>3
    <2> QED BY <1>3, <1>5, <1>6, <1>9, <2>2, <2>3
  <1>10. CASE shown' = shown /\ request[u] \in InFlight
    <2>1. RowsLag'
      <3> SUFFICES ASSUME NEW i \in DOMAIN jobs PROVE Lags(shown[i], jobs'[i])
        BY <1>1, <1>2, <1>10 DEF RowsLag, IInv
      <3>1. CASE jobs[i].of = u
        <4>1. jobs[i].status = "active"
          BY <1>1, <1>10, <3>1 DEF Fits
        <4>2. shown[i].status = "active"
          BY <1>1, <4>1 DEF Lags
        <4> QED BY <1>1, <1>2, <1>7, <1>8, <4>2 DEF Lags
      <3>2. CASE jobs[i].of # u
        BY <1>1, <1>2, <3>2
      <3> QED BY <3>1, <3>2
    <2>2. Onwards
      <3> SUFFICES ASSUME NEW i \in DOMAIN shown, NEW k \in DOMAIN shown, shown[k].of = shown[i].of
                   PROVE  /\ Bar(shown[k]) >= Bar(shown[i])
                          /\ shown[i].status = "done" => shown[k].status = "done"
        BY <1>10 DEF Onwards
      <3>1. k = i /\ Bar(shown[i]) \in 0 .. 100
        BY <1>1, BarIs
      <3> QED BY <3>1
    <2> QED BY <1>1, <1>5, <1>6, <1>10, <2>1, <2>2
  <1> QED BY <1>9, <1>10

\* A step without new jobs done, and without an effect on the lists, keeps them right.
LEMMA ListsKept ==
  ASSUME IInv, UNCHANGED lists,
         \A i \in DOMAIN jobs' : jobs'[i].status = "done" =>
           \E k \in DOMAIN jobs : jobs[k].of = jobs'[i].of /\ jobs[k].status = "done"
  PROVE  ListsFit' /\ loads' \in Seq(Load) /\ newest' \in {"awaited", "shown", "lost"}
  <1>1. \A list : Has(list, jobs) => Has(list, jobs')
    BY DEF Has
  <1> QED BY <1>1 DEF IInv, ListsFit, TypeInv, lists

\* Only onload makes a job one that is done.
LEMMA PatchedDone ==
  ASSUME KeysDiffer, IInv, NEW u \in Uploads, NEW fields, Mild(fields),
         jobs' = Patched(jobs, KeyOf[u], fields),
         \A j \in Job : Updated(j, fields).status = "done" => j.status = "done"
  PROVE  \A m \in DOMAIN jobs' : jobs'[m].status = "done" =>
           \E k \in DOMAIN jobs : jobs[k].of = jobs'[m].of /\ jobs[k].status = "done"
  <1>1. /\ DOMAIN jobs' = DOMAIN jobs
        /\ \A i \in DOMAIN jobs : jobs'[i] = IF jobs[i].of = u THEN Updated(jobs[i], fields) ELSE jobs[i]
        /\ \A i \in DOMAIN jobs : jobs'[i].of = jobs[i].of
    <2>1. Sound(jobs)
      BY DEF IInv, JobsFit
    <2> QED BY <2>1, OnePatched
  <1>2. \A i \in DOMAIN jobs : jobs[i] \in Job
    BY RowFacts
  <1>3. \A m \in DOMAIN jobs' : jobs'[m].status = "done" => jobs[m].status = "done"
    BY <1>1, <1>2
  <1> QED BY <1>1, <1>3

LEMMA NotDoneBy ==
  ASSUME NEW loaded \in Nat
  PROVE  /\ \A j \in Job : Updated(j, Paused).status # "done"
         /\ \A j \in Job : Updated(j, Failed).status # "done"
         /\ \A j \in Job : Updated(j, Progress(loaded)).status = "done" => j.status = "done"
  <1> SUFFICES ASSUME NEW j \in Job
               PROVE  /\ Updated(j, Paused).status # "done"
                      /\ Updated(j, Failed).status # "done"
                      /\ Updated(j, Progress(loaded)).status = "done" => j.status = "done"
    OBVIOUS
  <1>1. PICK u : u \in Uploads
    BY JobFields
  <1>2. /\ Became(Updated(j, Paused), j.key, j.of, j.xhr, "paused", j.done, FALSE, j.error)
        /\ Became(Updated(j, Failed), j.key, j.of, j.xhr, "error", j.done, j.speed, TRUE)
        /\ Became(Updated(j, Progress(loaded)), j.key, j.of, j.xhr, j.status, loaded, TRUE, j.error)
    BY <1>1, UpdatedJob
  <1>3. Updated(j, Paused).status = "paused"
    BY <1>2 DEF Became
  <1>4. Updated(j, Failed).status = "error"
    BY <1>2 DEF Became
  <1>5. Updated(j, Progress(loaded)).status = j.status
    BY <1>2 DEF Became
  <1> QED BY <1>3, <1>4, <1>5

LEMMA PausedFits ==
  ASSUME NEW j \in Job, NEW r, r # "unsent", r \notin InFlight, NEW bytes, NEW stored
  PROVE  Fits(Updated(j, Paused), r, bytes, stored) /\ Bar(j) <= Bar(Updated(j, Paused))
  <1> DEFINE p == Updated(j, Paused)
  <1>1. Became(p, j.key, j.of, j.xhr, "paused", j.done, FALSE, j.error)
    <2>1. PICK u : u \in Uploads
      BY JobFields
    <2> QED BY <2>1, UpdatedJob
  <1> HIDE DEF p
  <1>2. p \in Job /\ p.of = j.of /\ p.status = "paused" /\ p.done = j.done
    BY <1>1 DEF Became
  <1>3. Bar(j) <= Bar(p)
    <2>1. j.done <= p.done
      BY <1>2, JobFields
    <2> QED BY <1>2, <2>1, BarGrows
  <1> QED BY <1>2, <1>3 DEF Fits, ErrorFits, p

LEMMA FailedFits ==
  ASSUME NEW j \in Job, NEW r, r # "unsent", r \notin InFlight, NEW bytes, NEW stored
  PROVE  Fits(Updated(j, Failed), r, bytes, stored) /\ Bar(j) <= Bar(Updated(j, Failed))
  <1> DEFINE p == Updated(j, Failed)
  <1>1. Became(p, j.key, j.of, j.xhr, "error", j.done, j.speed, TRUE)
    <2>1. PICK u : u \in Uploads
      BY JobFields
    <2> QED BY <2>1, UpdatedJob
  <1> HIDE DEF p
  <1>2. p \in Job /\ p.of = j.of /\ p.status = "error" /\ p.done = j.done
    BY <1>1 DEF Became
  <1>3. Bar(j) <= Bar(p)
    <2>1. j.done <= p.done
      BY <1>2, JobFields
    <2> QED BY <1>2, <2>1, BarGrows
  <1> QED BY <1>2, <1>3 DEF Fits, ErrorFits, p

LEMMA DoneFits ==
  ASSUME NEW j \in Job, ~ j.error, NEW r, r # "unsent", r \notin InFlight, NEW bytes,
         NEW stored, j.of \in stored
  PROVE  Fits(Updated(j, Done(j.of)), r, bytes, stored) /\ Bar(j) <= Bar(Updated(j, Done(j.of)))
  <1> DEFINE p == Updated(j, Done(j.of))
  <1>1. Became(p, j.key, j.of, j.xhr, "done", Size[j.of], FALSE, j.error)
    BY JobFields, UpdatedJob
  <1> HIDE DEF p
  <1>2. p \in Job /\ p.of = j.of /\ p.status = "done" /\ p.done = Size[j.of] /\ ~ p.error
    BY <1>1 DEF Became
  <1>3. Bar(j) <= Bar(p)
    BY <1>2, BarGrows
  <1> QED BY <1>2, <1>3 DEF Fits, ErrorFits, p

LEMMA ProgressFits ==
  ASSUME NEW j \in Job, j.status = "active", ~ j.error, NEW r \in InFlight,
         NEW loaded \in Nat, j.done <= loaded, NEW stored
  PROVE  /\ Fits(Updated(j, Progress(loaded)), r, loaded, stored)
         /\ Bar(j) <= Bar(Updated(j, Progress(loaded)))
  <1> DEFINE p == Updated(j, Progress(loaded))
  <1>1. Became(p, j.key, j.of, j.xhr, j.status, loaded, TRUE, j.error)
    BY JobFields, UpdatedJob
  <1> HIDE DEF p
  <1>2. p \in Job /\ p.of = j.of /\ p.status = "active" /\ p.done = loaded /\ ~ p.error
    BY <1>1 DEF Became
  <1>3. Bar(j) <= Bar(p)
    BY <1>2, BarGrows
  <1>4. r # "unsent"
    BY DEF InFlight
  <1> QED BY <1>2, <1>3, <1>4 DEF Fits, ErrorFits, p

LEMMA UnheardFacts ==
  ASSUME NEW r \in Requests
  PROVE  /\ Unheard(r) \in Requests /\ Unheard(r) \notin InFlight /\ Unheard(r) # "created"
         /\ Unheard(r) = "unsent" <=> r = "unsent"
  BY DEF Requests, Unheard, InFlight

LEMMA AbortFacts ==
  ASSUME IInv, NEW u \in Uploads, Abort(u)
  PROVE  /\ request' \in [Uploads -> Requests] /\ sent' \in [Uploads -> Nat]
         /\ \A v \in Uploads : v # u => request'[v] = request[v] /\ sent'[v] = sent[v]
         /\ request'[u] \notin InFlight /\ request'[u] # "created"
         /\ request'[u] = "unsent" <=> request[u] = "unsent"
         /\ sent'[u] = 0
  <1>1. request \in [Uploads -> Requests] /\ sent \in [Uploads -> Nat]
    BY DEF IInv, TypeInv
  <1>2. request' = [request EXCEPT ![u] = Unheard(request[u])] /\ sent' = [sent EXCEPT ![u] = 0]
    BY DEF Abort
  <1>3. /\ Unheard(request[u]) \in Requests /\ Unheard(request[u]) \notin InFlight
        /\ Unheard(request[u]) # "created"
        /\ Unheard(request[u]) = "unsent" <=> request[u] = "unsent"
    BY <1>1, UnheardFacts
  <1> QED BY <1>1, <1>2, <1>3

\* The key and the request of a row are those of its upload, which has been sent.
LEMMA RowOwn ==
  ASSUME IInv, NEW i \in DOMAIN shown
  PROVE  /\ shown[i].of \in Uploads /\ shown[i].key = KeyOf[shown[i].of] /\ shown[i].xhr = shown[i].of
         /\ request[shown[i].of] # "unsent"
         /\ i \in DOMAIN jobs /\ jobs[i].of = shown[i].of
         /\ \A m \in DOMAIN jobs : jobs[m].of = shown[i].of => m = i
         /\ \A m \in DOMAIN shown : shown[m].of = shown[i].of => m = i
  <1>1. i \in DOMAIN jobs /\ jobs[i].of \in Uploads /\ shown[i].of = jobs[i].of /\ Lags(shown[i], jobs[i])
    BY RowFacts
  <1>2. jobs[i].key = KeyOf[jobs[i].of] /\ jobs[i].xhr = jobs[i].of
    BY <1>1 DEF IInv, JobsFit, Sound
  <1>3. request[jobs[i].of] # "unsent"
    BY <1>1, RowFacts DEF Fits
  <1>4. \A m \in DOMAIN jobs : jobs[m].of = jobs[i].of => m = i
    BY <1>1, RowFacts
  <1>5. \A m \in DOMAIN shown : m \in DOMAIN jobs /\ shown[m].of = jobs[m].of
    BY RowFacts
  <1> QED BY <1>1, <1>2, <1>3, <1>4, <1>5 DEF Lags

LEMMA StepClickPause ==
  ASSUME KeysDiffer, IInv, NEW i \in DOMAIN shown, ClickPause(i)
  PROVE  IInv' /\ Onwards
  <1> DEFINE u == shown[i].of
  <1>1. /\ u \in Uploads /\ shown[i].key = KeyOf[u] /\ shown[i].xhr = u /\ request[u] # "unsent"
        /\ \A m \in DOMAIN shown : shown[m].of = u => m = i
    BY RowOwn
  <1>2. Abort(u) /\ jobs' = Patched(jobs, KeyOf[u], Paused) /\ shown' = jobs' /\ server' = server
        /\ UNCHANGED lists
    BY <1>1 DEF ClickPause, Render
  <1>3. /\ request' \in [Uploads -> Requests] /\ sent' \in [Uploads -> Nat]
        /\ \A v \in Uploads : v # u => request'[v] = request[v] /\ sent'[v] = sent[v]
        /\ request'[u] \notin InFlight /\ request'[u] # "created" /\ request'[u] # "unsent"
    BY <1>1, <1>2, AbortFacts
  <1>4. \A m \in DOMAIN jobs :
          /\ Fits(Updated(jobs[m], Paused), request'[u], sent'[u], server)
          /\ Bar(jobs[m]) <= Bar(Updated(jobs[m], Paused))
    BY <1>3, RowFacts, PausedFits
  <1>5. \A m \in DOMAIN shown : shown[m].of = u => shown[m].status # "done"
    BY <1>1 DEF ClickPause
  <1> HIDE DEF u
  <1>6. Mild(Paused)
    BY <1>1, MildFields
  <1>7. JobsFit' /\ RequestsFit' /\ RowsLag' /\ shown' \in Seq(Job) /\ Onwards
    BY <1>1, <1>2, <1>3, <1>4, <1>5, <1>6, PatchStep
  <1>8. \A m \in DOMAIN jobs' : jobs'[m].status = "done" =>
          \E k \in DOMAIN jobs : jobs[k].of = jobs'[m].of /\ jobs[k].status = "done"
    BY <1>1, <1>2, <1>6, NotDoneBy, PatchedDone
  <1>9. ListsFit' /\ loads' \in Seq(Load) /\ newest' \in {"awaited", "shown", "lost"}
    BY <1>2, <1>8, ListsKept
  <1> QED BY <1>2, <1>3, <1>7, <1>9 DEF IInv, TypeInv

LEMMA StepClickResume ==
  ASSUME KeysDiffer, IInv, NEW i \in DOMAIN shown, ClickResume(i)
  PROVE  IInv' /\ Onwards
  <1> DEFINE u == shown[i].of
  <1>1. /\ u \in Uploads /\ shown[i].key = KeyOf[u] /\ request[u] # "unsent"
        /\ i \in DOMAIN jobs /\ jobs[i].of = u
        /\ \A m \in DOMAIN jobs : jobs[m].of = u => m = i
        /\ \A m \in DOMAIN shown : shown[m].of = u => m = i
    BY RowOwn
  <1>2. jobs' = Patched(jobs, KeyOf[u], Failed) /\ shown' = jobs' /\ server' = server
        /\ request' = request /\ sent' = sent /\ UNCHANGED lists
    BY <1>1 DEF ClickResume, Render
  <1>3. request \in [Uploads -> Requests] /\ sent \in [Uploads -> Nat]
    BY DEF IInv, TypeInv
  <1>4. request[u] \notin InFlight
    <2>1. jobs[i].status \in {"paused", "error"}
      <3>1. Lags(shown[i], jobs[i])
        BY <1>1, RowFacts
      <3> QED BY <3>1 DEF Lags, ClickResume
    <2>2. Fits(jobs[i], request[u], sent[u], server)
      BY <1>1, RowFacts
    <2> QED BY <2>1, <2>2 DEF Fits
  <1>5. \A m \in DOMAIN jobs :
          /\ Fits(Updated(jobs[m], Failed), request'[u], sent'[u], server)
          /\ Bar(jobs[m]) <= Bar(Updated(jobs[m], Failed))
    BY <1>1, <1>2, <1>4, RowFacts, FailedFits
  <1>6. \A m \in DOMAIN shown : shown[m].of = u => shown[m].status # "done"
    BY <1>1 DEF ClickResume
  <1> HIDE DEF u
  <1>7. Mild(Failed)
    BY <1>1, MildFields
  <1>8. JobsFit' /\ RequestsFit' /\ RowsLag' /\ shown' \in Seq(Job) /\ Onwards
    BY <1>1, <1>2, <1>3, <1>4, <1>5, <1>6, <1>7, PatchStep
  <1>9. \A m \in DOMAIN jobs' : jobs'[m].status = "done" =>
          \E k \in DOMAIN jobs : jobs[k].of = jobs'[m].of /\ jobs[k].status = "done"
    BY <1>1, <1>2, <1>7, NotDoneBy, PatchedDone
  <1>10. ListsFit' /\ loads' \in Seq(Load) /\ newest' \in {"awaited", "shown", "lost"}
    BY <1>2, <1>9, ListsKept
  <1> QED BY <1>2, <1>3, <1>8, <1>10 DEF IInv, TypeInv

\* The job of a request under way is active and reports no error.
LEMMA InFlightJob ==
  ASSUME IInv, NEW u \in Uploads, request[u] \in InFlight
  PROVE  \A i \in DOMAIN jobs : jobs[i].of = u =>
           jobs[i] \in Job /\ jobs[i].status = "active" /\ jobs[i].done = sent[u] /\ ~ jobs[i].error
  BY RowFacts DEF Fits, ErrorFits

\* A callback that ends the upload with an error.
LEMMA StepFails ==
  ASSUME KeysDiffer, IInv, NEW u \in Uploads, request[u] \in InFlight,
         request' \in [Uploads -> Requests], sent' \in [Uploads -> Nat],
         \A v \in Uploads : v # u => request'[v] = request[v] /\ sent'[v] = sent[v],
         request'[u] \notin InFlight, request'[u] # "created", request'[u] # "unsent",
         jobs' = Patched(jobs, KeyOf[u], Failed), shown' = shown, server' = server,
         UNCHANGED lists
  PROVE  IInv' /\ Onwards
  <1>1. \A m \in DOMAIN jobs :
          /\ Fits(Updated(jobs[m], Failed), request'[u], sent'[u], server)
          /\ Bar(jobs[m]) <= Bar(Updated(jobs[m], Failed))
    BY RowFacts, FailedFits
  <1>2. Mild(Failed)
    BY MildFields
  <1>3. JobsFit' /\ RequestsFit' /\ RowsLag' /\ shown' \in Seq(Job) /\ Onwards
    BY <1>1, <1>2, PatchStep
  <1>4. \A m \in DOMAIN jobs' : jobs'[m].status = "done" =>
          \E k \in DOMAIN jobs : jobs[k].of = jobs'[m].of /\ jobs[k].status = "done"
    BY <1>2, NotDoneBy, PatchedDone
  <1>5. ListsFit' /\ loads' \in Seq(Load) /\ newest' \in {"awaited", "shown", "lost"}
    BY <1>4, ListsKept
  <1> QED BY <1>3, <1>5 DEF IInv, TypeInv

LEMMA StepOnError ==
  ASSUME KeysDiffer, IInv, NEW u \in Uploads, OnError(u)
  PROVE  IInv' /\ Onwards
  <1>1. request[u] \in InFlight /\ Abort(u) /\ jobs' = Patched(jobs, KeyOf[u], Failed)
        /\ shown' = shown /\ server' = server /\ UNCHANGED lists
    BY DEF OnError, Queue
  <1>2. /\ request' \in [Uploads -> Requests] /\ sent' \in [Uploads -> Nat]
        /\ \A v \in Uploads : v # u => request'[v] = request[v] /\ sent'[v] = sent[v]
        /\ request'[u] \notin InFlight /\ request'[u] # "created"
        /\ request'[u] = "unsent" <=> request[u] = "unsent"
    BY <1>1, AbortFacts
  <1>3. request[u] # "unsent"
    BY <1>1 DEF InFlight
  <1> QED BY <1>1, <1>2, <1>3, StepFails

\* What the end of an upload does to its request.
LEMMA EndFacts ==
  ASSUME IInv, NEW u \in Uploads, NEW fields, End(u, fields)
  PROVE  /\ request' \in [Uploads -> Requests] /\ sent' \in [Uploads -> Nat]
         /\ \A v \in Uploads : v # u => request'[v] = request[v] /\ sent'[v] = sent[v]
         /\ request'[u] \notin InFlight /\ request'[u] # "created" /\ request'[u] # "unsent"
         /\ jobs' = Patched(jobs, KeyOf[u], fields) /\ shown' = shown /\ server' = server
  <1>1. request \in [Uploads -> Requests] /\ sent \in [Uploads -> Nat]
    BY DEF IInv, TypeInv
  <1>2. request' = [request EXCEPT ![u] = "over"] /\ sent' = [sent EXCEPT ![u] = 0]
    BY DEF End
  <1>3. "over" \in Requests /\ "over" \notin InFlight
    BY DEF Requests, InFlight
  <1> QED BY <1>1, <1>2, <1>3 DEF End, Queue

LEMMA StepOnLoadNot201 ==
  ASSUME KeysDiffer, IInv, NEW u \in Uploads, OnLoadNot201(u)
  PROVE  IInv' /\ Onwards
  <1>1. End(u, Failed) /\ request[u] \in InFlight /\ UNCHANGED lists
    BY DEF OnLoadNot201, InFlight
  <1> QED BY <1>1, EndFacts, StepFails

LEMMA StepOnProgress ==
  ASSUME KeysDiffer, IInv, NEW u \in Uploads, OnProgress(u)
  PROVE  IInv' /\ Onwards
  <1>1. request \in [Uploads -> Requests] /\ sent \in [Uploads -> Nat] /\ Size[u] + Envelope \in Nat
    BY SizeAssumption DEF IInv, TypeInv
  <1>2. PICK loaded \in sent[u] + 1 .. Size[u] + Envelope :
          /\ sent' = [sent EXCEPT ![u] = loaded]
          /\ jobs' = Patched(jobs, KeyOf[u], Progress(loaded)) /\ shown' = shown
    BY DEF OnProgress, Queue, Progress
  <1>3. request[u] \in InFlight /\ request' = request /\ server' = server /\ UNCHANGED lists
    BY DEF OnProgress
  <1>4. loaded \in Nat /\ sent[u] <= loaded /\ sent' \in [Uploads -> Nat] /\ sent'[u] = loaded
        /\ \A v \in Uploads : v # u => sent'[v] = sent[v]
    BY <1>1, <1>2
  <1>5. \A m \in DOMAIN jobs : jobs[m].of = u =>
          /\ Fits(Updated(jobs[m], Progress(loaded)), request'[u], sent'[u], server)
          /\ Bar(jobs[m]) <= Bar(Updated(jobs[m], Progress(loaded)))
    <2> SUFFICES ASSUME NEW m \in DOMAIN jobs, jobs[m].of = u
                 PROVE  /\ Fits(Updated(jobs[m], Progress(loaded)), request[u], loaded, server)
                        /\ Bar(jobs[m]) <= Bar(Updated(jobs[m], Progress(loaded)))
      BY <1>3, <1>4
    <2>1. jobs[m] \in Job /\ jobs[m].status = "active" /\ jobs[m].done <= loaded /\ ~ jobs[m].error
      BY <1>3, <1>4, InFlightJob
    <2> QED BY <1>3, <1>4, <2>1, ProgressFits
  <1>6. Mild(Progress(loaded))
    BY <1>4, MildFields
  <1>7. request[u] # "unsent"
    BY <1>3 DEF InFlight
  <1>8. JobsFit' /\ RequestsFit' /\ RowsLag' /\ shown' \in Seq(Job) /\ Onwards
    BY <1>1, <1>2, <1>3, <1>4, <1>5, <1>6, <1>7, PatchStep
  <1>9. \A m \in DOMAIN jobs' : jobs'[m].status = "done" =>
          \E k \in DOMAIN jobs : jobs[k].of = jobs'[m].of /\ jobs[k].status = "done"
    <2>1. \A j \in Job : Updated(j, Progress(loaded)).status = "done" => j.status = "done"
      BY <1>4, NotDoneBy
    <2> QED BY <1>2, <1>6, <2>1, PatchedDone
  <1>10. ListsFit' /\ loads' \in Seq(Load) /\ newest' \in {"awaited", "shown", "lost"}
    BY <1>3, <1>9, ListsKept
  <1> QED BY <1>1, <1>3, <1>4, <1>8, <1>10 DEF IInv, TypeInv

LEMMA StepOnLoad ==
  ASSUME KeysDiffer, IInv, NEW u \in Uploads, OnLoad(u)
  PROVE  IInv' /\ Onwards
  <1>1. request[u] = "created" /\ End(u, Done(u)) /\ loads' = Append(loads, Unserved)
        /\ newest' = "awaited" /\ files' = files
    BY DEF OnLoad
  <1>2. /\ request' \in [Uploads -> Requests] /\ sent' \in [Uploads -> Nat]
        /\ \A v \in Uploads : v # u => request'[v] = request[v] /\ sent'[v] = sent[v]
        /\ request'[u] \notin InFlight /\ request'[u] # "created" /\ request'[u] # "unsent"
        /\ jobs' = Patched(jobs, KeyOf[u], Done(u)) /\ shown' = shown /\ server' = server
    BY <1>1, EndFacts
  <1>3. request[u] \in InFlight
    BY <1>1 DEF InFlight
  <1>4. u \in server
    BY <1>1 DEF IInv, RequestsFit
  <1>5. \A m \in DOMAIN jobs : jobs[m].of = u =>
          /\ Fits(Updated(jobs[m], Done(u)), request'[u], sent'[u], server)
          /\ Bar(jobs[m]) <= Bar(Updated(jobs[m], Done(u)))
    <2> SUFFICES ASSUME NEW m \in DOMAIN jobs, jobs[m].of = u
                 PROVE  /\ Fits(Updated(jobs[m], Done(u)), request'[u], sent'[u], server)
                        /\ Bar(jobs[m]) <= Bar(Updated(jobs[m], Done(u)))
      OBVIOUS
    <2>1. jobs[m] \in Job /\ ~ jobs[m].error
      BY <1>3, InFlightJob
    <2> QED BY <1>2, <1>4, <2>1, DoneFits
  <1>6. Mild(Done(u))
    BY MildFields
  <1>7. JobsFit' /\ RequestsFit' /\ RowsLag' /\ shown' \in Seq(Job) /\ Onwards
    BY <1>2, <1>3, <1>5, <1>6, PatchStep
  <1>8. Unserved \in Load /\ ~ Unserved.served
    BY DEF Unserved, Load
  <1>9. loads' \in Seq(Load) /\ loads' # <<>> /\ loads'[Len(loads')] = Unserved
    <2>1. loads \in Seq(Load)
      BY DEF IInv, TypeInv
    <2> QED BY <1>1, <1>8, <2>1, AppendProperties
  <1>10. ListsFit'
    BY <1>1, <1>8, <1>9 DEF ListsFit
  <1>11. TypeInv'
    BY <1>1, <1>2, <1>7, <1>9 DEF TypeInv, IInv
  <1> QED BY <1>7, <1>10, <1>11 DEF IInv

\* A row that stays as it is, or goes, keeps what it says.
LEMMA StillOnwards ==
  ASSUME IInv, \A k \in DOMAIN shown' : \A i \in DOMAIN shown :
                 shown'[k].of = shown[i].of => shown'[k] \in {shown[i], jobs[i]}
  PROVE  Onwards
  <1> SUFFICES ASSUME NEW i \in DOMAIN shown, NEW k \in DOMAIN shown', shown'[k].of = shown[i].of
               PROVE  /\ Bar(shown'[k]) >= Bar(shown[i])
                      /\ shown[i].status = "done" => shown'[k].status = "done"
    BY DEF Onwards
  <1>1. i \in DOMAIN jobs /\ shown[i] \in Job /\ jobs[i] \in Job /\ Lags(shown[i], jobs[i])
    BY RowFacts
  <1>2. Bar(shown[i]) \in 0 .. 100 /\ Bar(jobs[i]) \in 0 .. 100
    BY <1>1, BarIs
  <1>3. CASE shown'[k] = shown[i]
    BY <1>2, <1>3
  <1>4. CASE shown'[k] = jobs[i]
    <2>1. Bar(shown'[k]) = Bar(jobs[i])
      BY <1>4
    <2>2. Bar(jobs[i]) >= Bar(shown[i])
      BY <1>1, <1>2 DEF Lags
    <2>3. shown[i].status = "done" => shown'[k].status = "done"
      BY <1>1, <1>4 DEF Lags
    <2> QED BY <2>1, <2>2, <2>3
  <1> QED BY <1>3, <1>4

LEMMA StepRenderQueued ==
  ASSUME IInv, RenderQueued
  PROVE  IInv' /\ Onwards
  <1>1. jobs' = jobs /\ shown' = jobs /\ request' = request /\ sent' = sent /\ server' = server
        /\ loads' = loads /\ files' = files /\ newest' = newest
    BY DEF RenderQueued, Render, lists
  <1>2. \A i \in DOMAIN jobs : Lags(jobs[i], jobs[i])
    <2>1. Sound(jobs) /\ \A i \in DOMAIN jobs : ErrorFits(jobs[i])
      BY DEF IInv, JobsFit, Fits
    <2> QED BY <2>1, RenderedLag
  <1>3. RowsLag'
    BY <1>1, <1>2 DEF RowsLag
  <1>4. jobs \in Seq(Job)
    BY RowFacts
  <1>5. TypeInv' /\ JobsFit' /\ RequestsFit' /\ ListsFit'
    BY <1>1, <1>4 DEF IInv, TypeInv, JobsFit, RequestsFit, ListsFit
  <1>6. Onwards
    <2>1. \A k \in DOMAIN shown' : \A i \in DOMAIN shown :
            shown'[k].of = shown[i].of => shown'[k] = jobs[i]
      BY <1>1, RowFacts
    <2> QED BY <2>1, StillOnwards
  <1> QED BY <1>3, <1>5, <1>6 DEF IInv

LEMMA StepLeavePage ==
  ASSUME IInv, LeavePage
  PROVE  IInv' /\ Onwards
  <1>1. jobs' = <<>> /\ shown' = <<>> /\ server' = server /\ loads' = <<Unserved>> /\ newest' = "awaited"
        /\ request' = [u \in Uploads |-> Unheard(request[u])] /\ sent' = [u \in Uploads |-> 0]
    BY DEF LeavePage, Render
  <1>2. request \in [Uploads -> Requests]
    BY DEF IInv, TypeInv
  <1>3. request' \in [Uploads -> Requests]
        /\ \A u \in Uploads : request'[u] \notin InFlight /\ request'[u] # "created"
    BY <1>1, <1>2, UnheardFacts
  <1>4. Unserved \in Load /\ ~ Unserved.served
    BY DEF Unserved, Load
  <1>5. TypeInv'
    BY <1>1, <1>3, <1>4 DEF IInv, TypeInv
  <1>6. JobsFit' /\ RowsLag' /\ Onwards
    BY <1>1 DEF JobsFit, Sound, RowsLag, Onwards
  <1>7. RequestsFit'
    BY <1>1, <1>3 DEF RequestsFit
  <1>8. ListsFit'
    BY <1>1, <1>4 DEF ListsFit
  <1> QED BY <1>5, <1>6, <1>7, <1>8 DEF IInv

LEMMA StepClickDismiss ==
  ASSUME KeysDiffer, IInv, NEW i \in DOMAIN shown, ClickDismiss(i)
  PROVE  IInv' /\ Onwards
  <1> DEFINE u == shown[i].of
             d == Dropped(jobs, i, Len(jobs))
  <1>1. /\ u \in Uploads /\ shown[i].key = KeyOf[u] /\ shown[i].xhr = u
        /\ i \in DOMAIN jobs /\ jobs[i].of = u
    BY RowOwn
  <1>2. /\ DOMAIN shown = DOMAIN jobs /\ DOMAIN jobs = 1 .. Len(jobs) /\ jobs \in Seq(Job)
        /\ \A m \in DOMAIN jobs : jobs[m].of \in Uploads /\ shown[m].of = jobs[m].of
        /\ \A m, k \in DOMAIN jobs : jobs[m].of = jobs[k].of => m = k
    BY RowFacts
  <1>3. \A m \in DOMAIN jobs : jobs[m].key = KeyOf[jobs[m].of] /\ shown[m].key = KeyOf[shown[m].of]
    BY <1>2, RowOwn DEF IInv, JobsFit, Sound
  <1>4. \A m \in DOMAIN jobs : (jobs[m].key = shown[i].key <=> m = i) /\ (shown[m].key = shown[i].key <=> m = i)
    BY <1>1, <1>2, <1>3 DEF KeysDiffer
  <1>5. Min({j \in DOMAIN shown : shown[j].key = shown[i].key}) = i
    <2>1. {j \in DOMAIN shown : shown[j].key = shown[i].key} = {i}
      BY <1>1, <1>2, <1>4
    <2>2. i \in Nat
      BY <1>1, <1>2
    <2>3. Min({i}) = i
      BY <2>2 DEF Min
    <2> QED BY <2>1, <2>3
  <1>6. Abort(u) /\ jobs' = d /\ shown' = d /\ server' = server /\ UNCHANGED lists
    <2>1. Without(jobs, shown[i].key) = d
      <3>1. i \in 1 .. Len(jobs) /\ \A m \in 1 .. Len(jobs) : jobs[m].key = shown[i].key <=> m = i
        BY <1>1, <1>2, <1>4
      <3> QED BY <1>2, <3>1, WithoutDrops
    <2>2. Abort(shown[Min({j \in DOMAIN shown : shown[j].key = shown[i].key})].xhr)
          /\ Render(Without(jobs, shown[i].key)) /\ server' = server /\ UNCHANGED lists
      BY DEF ClickDismiss
    <2>3. Abort(u)
      BY <1>1, <1>5, <2>2
    <2> QED BY <2>1, <2>2, <2>3 DEF Render
  <1>7. /\ request' \in [Uploads -> Requests] /\ sent' \in [Uploads -> Nat]
        /\ \A v \in Uploads : v # u => request'[v] = request[v] /\ sent'[v] = sent[v]
        /\ request'[u] \notin InFlight /\ request'[u] # "created" /\ sent'[u] = 0
    BY <1>1, <1>6, AbortFacts
  <1>8. /\ Sound(d)
        /\ \A k \in DOMAIN d : \E m \in DOMAIN jobs : m # i /\ d[k] = jobs[m]
        /\ \A m \in DOMAIN jobs : m # i => \E k \in DOMAIN d : d[k] = jobs[m]
    <2>1. Sound(jobs)
      BY DEF IInv, JobsFit
    <2> QED BY <1>1, <2>1, DroppedSound
  <1> HIDE DEF d, u
  <1>9. JobsFit'
    <2> SUFFICES ASSUME NEW k \in DOMAIN d
                 PROVE  Fits(d[k], request'[d[k].of], sent'[d[k].of], server)
      BY <1>6, <1>8 DEF JobsFit
    <2>1. PICK m \in DOMAIN jobs : m # i /\ d[k] = jobs[m]
      BY <1>8
    <2>2. jobs[m].of # u /\ jobs[m].of \in Uploads
      BY <1>1, <1>2, <2>1
    <2>3. Fits(jobs[m], request[jobs[m].of], sent[jobs[m].of], server)
      BY RowFacts
    <2> QED BY <1>7, <2>1, <2>2, <2>3
  <1>10. RequestsFit'
    <2> SUFFICES ASSUME NEW v \in Uploads
                 PROVE  /\ request'[v] \in InFlight => \E k \in DOMAIN d : d[k].of = v
                        /\ request'[v] = "unsent" => sent'[v] = 0
                        /\ request'[v] = "created" => v \in server
      BY <1>6 DEF RequestsFit
    <2>1. /\ request[v] \in InFlight => \E m \in DOMAIN jobs : jobs[m].of = v
          /\ request[v] = "unsent" => sent[v] = 0
          /\ request[v] = "created" => v \in server
      BY DEF IInv, RequestsFit
    <2>2. CASE v = u
      BY <1>7, <2>2
    <2>3. CASE v # u
      <3>1. ASSUME request[v] \in InFlight PROVE \E k \in DOMAIN d : d[k].of = v
        <4>1. PICK m \in DOMAIN jobs : jobs[m].of = v
          BY <2>1, <3>1
        <4>2. m # i
          BY <1>1, <2>3, <4>1
        <4> QED BY <1>8, <4>1, <4>2
      <3> QED BY <1>7, <2>1, <2>3, <3>1
    <2> QED BY <2>2, <2>3
  <1>11. RowsLag' /\ shown' \in Seq(Job)
    <2>1. \A k \in DOMAIN d : ErrorFits(d[k])
      BY <1>8, RowFacts DEF Fits
    <2>2. \A k \in DOMAIN d : Lags(d[k], d[k])
      BY <1>8, <2>1, RenderedLag
    <2> QED BY <1>6, <1>8, <2>2, SoundRows DEF RowsLag
  <1>12. Onwards
    <2>1. ASSUME NEW k \in DOMAIN shown', NEW m \in DOMAIN shown, shown'[k].of = shown[m].of
          PROVE  shown'[k] \in {shown[m], jobs[m]}
      <3>1. PICK n \in DOMAIN jobs : d[k] = jobs[n]
        BY <1>6, <1>8
      <3>2. n = m
        BY <1>2, <1>6, <2>1, <3>1
      <3> QED BY <1>6, <3>1, <3>2
    <2> QED BY <2>1, StillOnwards
  <1>13. \A k \in DOMAIN jobs' : jobs'[k].status = "done" =>
           \E m \in DOMAIN jobs : jobs[m].of = jobs'[k].of /\ jobs[m].status = "done"
    BY <1>6, <1>8
  <1>14. ListsFit' /\ loads' \in Seq(Load) /\ newest' \in {"awaited", "shown", "lost"}
    BY <1>6, <1>13, ListsKept
  <1> QED BY <1>6, <1>7, <1>9, <1>10, <1>11, <1>12, <1>14 DEF IInv, TypeInv

\* The files of a pick are fresh.
LEMMA PickIsFresh ==
  ASSUME IInv, NEW list \in Picks
  PROVE  Fresh(jobs, list) /\ \A i \in DOMAIN list : request[list[i]] = "unsent"
  <1>1. PICK S \in SUBSET {u \in Uploads : request[u] = "unsent"} : list \in SetToSeqs(S)
    BY DEF Picks
  <1>2. Cardinality(S) \in Nat
    <2>1. S \subseteq Uploads
      BY <1>1
    <2> QED BY <2>1, UploadsAssumption, FS_Subset, FS_CardinalityType
  <1>3. /\ list \in [1 .. Cardinality(S) -> S]
        /\ \A i, k \in 1 .. Cardinality(S) : i # k => list[i] # list[k]
    BY <1>1 DEF SetToSeqs
  <1>4. list \in Seq(Uploads) /\ DOMAIN list = 1 .. Cardinality(S)
    BY <1>1, <1>2, <1>3
  <1>5. \A i \in DOMAIN list : request[list[i]] = "unsent"
    BY <1>1, <1>3, <1>4
  <1>6. \A i \in DOMAIN list, m \in DOMAIN jobs : jobs[m].of # list[i]
    <2>1. \A m \in DOMAIN jobs : request[jobs[m].of] # "unsent"
      BY RowFacts DEF Fits
    <2> QED BY <1>5, <2>1
  <1> QED BY <1>3, <1>4, <1>5, <1>6 DEF Fresh

LEMMA StepPick ==
  ASSUME KeysDiffer, IInv, NEW list \in Picks, Pick(list)
  PROVE  IInv' /\ Onwards
  <1> DEFINE n  == Len(list)
             st == Stacked(jobs, list, n)
  <1>1. Fresh(jobs, list) /\ \A i \in DOMAIN list : request[list[i]] = "unsent"
    BY PickIsFresh
  <1>2. list \in Seq(Uploads) /\ n \in Nat /\ DOMAIN list = 1 .. n
    BY <1>1 DEF Fresh
  <1>3. Sound(jobs) /\ jobs \in Seq(Job) /\ DOMAIN jobs = 1 .. Len(jobs) /\ Len(jobs) \in Nat
    BY RowFacts DEF IInv, JobsFit
  <1>4. /\ jobs' = st /\ shown' = st
        /\ request' = [u \in Uploads |-> IF u \in Range(list) THEN "sending" ELSE request[u]]
        /\ sent' = sent /\ server' = server /\ UNCHANGED lists
    <2>1. FoldLeft(WithJob, jobs, list) = st
      BY <1>1, <1>3, PickedJobs
    <2> QED BY <2>1 DEF Pick, Upload, Render
  <1>5. \A u \in Uploads : u \in Range(list) <=> \E k \in DOMAIN list : list[k] = u
    BY DEF Range
  <1>6. request \in [Uploads -> Requests] /\ sent \in [Uploads -> Nat]
    BY DEF IInv, TypeInv
  <1>7. request' \in [Uploads -> Requests]
    BY <1>4, <1>6 DEF Requests
  <1>8. /\ DOMAIN st = 1 .. n + Len(jobs)
        /\ \A i \in 1 .. n + Len(jobs) : st[i] = IF i <= n THEN NewJob(list[n + 1 - i]) ELSE jobs[i - n]
    <2>1. n \in 0 .. Len(list)
      BY <1>2
    <2> QED BY <1>2, <1>3, <2>1, StackedType
  <1>9. Sound(st)
    <2>1. n \in 0 .. Len(list)
      BY <1>2
    <2> QED BY <1>1, <1>3, <2>1, StackedSound
  <1> HIDE DEF st
  <1>10. ASSUME NEW i \in DOMAIN st
         PROVE  \/ \E k \in DOMAIN list : st[i] = NewJob(list[k])
                \/ \E m \in DOMAIN jobs : st[i] = jobs[m]
    <2>1. CASE i <= n
      <3>1. n + 1 - i \in DOMAIN list
        BY <1>2, <1>3, <1>8, <2>1
      <3> QED BY <1>8, <2>1, <3>1
    <2>2. CASE ~ i <= n
      <3>1. i - n \in DOMAIN jobs
        BY <1>2, <1>3, <1>8, <2>2
      <3> QED BY <1>8, <2>2, <3>1
    <2> QED BY <2>1, <2>2
  <1>11. \A k \in DOMAIN list : \E i \in DOMAIN st : st[i] = NewJob(list[k])
    <2> SUFFICES ASSUME NEW k \in DOMAIN list PROVE \E i \in DOMAIN st : st[i] = NewJob(list[k])
      OBVIOUS
    <2> DEFINE i == n + 1 - k
    <2>1. i \in DOMAIN st /\ i <= n /\ n + 1 - i = k
      BY <1>2, <1>3, <1>8
    <2> HIDE DEF i
    <2> QED BY <1>8, <2>1
  <1>12. \A m \in DOMAIN jobs : \E i \in DOMAIN st : st[i] = jobs[m]
    <2> SUFFICES ASSUME NEW m \in DOMAIN jobs PROVE \E i \in DOMAIN st : st[i] = jobs[m]
      OBVIOUS
    <2> DEFINE i == n + m
    <2>1. i \in DOMAIN st /\ ~ i <= n /\ i - n = m
      BY <1>2, <1>3, <1>8
    <2> HIDE DEF i
    <2> QED BY <1>8, <2>1
  <1> HIDE DEF n
  <1>13. \A k \in DOMAIN list :
           /\ list[k] \in Uploads
           /\ NewJob(list[k]) \in Job /\ NewJob(list[k]).of = list[k]
           /\ NewJob(list[k]).status = "active" /\ NewJob(list[k]).done = 0 /\ ~ NewJob(list[k]).error
    BY <1>2, NewJobType
  <1>14. JobsFit'
    <2> SUFFICES ASSUME NEW i \in DOMAIN st
                 PROVE  Fits(st[i], request'[st[i].of], sent[st[i].of], server)
      BY <1>4, <1>9 DEF JobsFit
    <2>1. CASE \E k \in DOMAIN list : st[i] = NewJob(list[k])
      <3>1. PICK k \in DOMAIN list : st[i] = NewJob(list[k])
        BY <2>1
      <3> DEFINE j == st[i]
      <3>2. j.of = list[k] /\ list[k] \in Uploads /\ j.status = "active" /\ j.done = 0 /\ ~ j.error
        BY <1>13, <3>1
      <3>3. request'[list[k]] = "sending"
        BY <1>4, <1>5, <3>2
      <3>4. sent[list[k]] = 0
        BY <1>1, <3>2 DEF IInv, RequestsFit
      <3> HIDE DEF j
      <3>5. Fits(j, "sending", 0, server)
        BY <3>2 DEF Fits, ErrorFits, InFlight
      <3> QED BY <3>2, <3>3, <3>4, <3>5 DEF j
    <2>2. CASE \E m \in DOMAIN jobs : st[i] = jobs[m]
      <3>1. PICK m \in DOMAIN jobs : st[i] = jobs[m]
        BY <2>2
      <3>2. jobs[m].of \in Uploads /\ Fits(jobs[m], request[jobs[m].of], sent[jobs[m].of], server)
        BY RowFacts
      <3>3. request'[jobs[m].of] = request[jobs[m].of]
        BY <1>1, <1>4, <1>5, <3>2 DEF Fits
      <3> QED BY <3>1, <3>2, <3>3
    <2> QED BY <1>10, <2>1, <2>2
  <1>15. RequestsFit'
    <2> SUFFICES ASSUME NEW v \in Uploads
                 PROVE  /\ request'[v] \in InFlight => \E i \in DOMAIN st : st[i].of = v
                        /\ request'[v] = "unsent" => sent[v] = 0
                        /\ request'[v] = "created" => v \in server
      BY <1>4 DEF RequestsFit
    <2>1. /\ request[v] \in InFlight => \E m \in DOMAIN jobs : jobs[m].of = v
          /\ request[v] = "unsent" => sent[v] = 0
          /\ request[v] = "created" => v \in server
      BY DEF IInv, RequestsFit
    <2>2. CASE v \in Range(list)
      <3>1. request'[v] = "sending"
        BY <1>4, <2>2
      <3>2. \E i \in DOMAIN st : st[i].of = v
        BY <1>5, <1>11, <1>13, <2>2
      <3> QED BY <3>1, <3>2
    <2>3. CASE v \notin Range(list)
      <3>1. request'[v] = request[v]
        BY <1>4, <2>3
      <3> QED BY <1>12, <2>1, <3>1
    <2> QED BY <2>2, <2>3
  <1>16. RowsLag' /\ shown' \in Seq(Job)
    <2>1. \A i \in DOMAIN st : ErrorFits(st[i])
      BY <1>4, <1>14 DEF JobsFit, Fits
    <2>2. \A i \in DOMAIN st : Lags(st[i], st[i])
      BY <1>9, <2>1, RenderedLag
    <2> QED BY <1>4, <1>9, <2>2, SoundRows DEF RowsLag
  <1>17. Onwards
    <2>1. ASSUME NEW k \in DOMAIN shown', NEW m \in DOMAIN shown, shown'[k].of = shown[m].of
          PROVE  shown'[k] \in {shown[m], jobs[m]}
      <3>1. m \in DOMAIN jobs /\ jobs[m].of = shown[m].of /\ request[shown[m].of] # "unsent"
            /\ \A q \in DOMAIN jobs : jobs[q].of = shown[m].of => q = m
        BY RowOwn
      <3>2. ~ \E q \in DOMAIN list : st[k] = NewJob(list[q])
        BY <1>1, <1>4, <1>13, <2>1, <3>1
      <3>3. PICK q \in DOMAIN jobs : st[k] = jobs[q]
        BY <1>4, <1>10, <3>2
      <3>4. q = m
        BY <1>4, <2>1, <3>1, <3>3
      <3> QED BY <1>4, <3>3, <3>4
    <2> QED BY <2>1, StillOnwards
  <1>18. \A i \in DOMAIN jobs' : jobs'[i].status = "done" =>
           \E m \in DOMAIN jobs : jobs[m].of = jobs'[i].of /\ jobs[m].status = "done"
    <2> SUFFICES ASSUME NEW i \in DOMAIN st, st[i].status = "done"
                 PROVE  \E m \in DOMAIN jobs : jobs[m].of = st[i].of /\ jobs[m].status = "done"
      BY <1>4
    <2>1. ~ \E k \in DOMAIN list : st[i] = NewJob(list[k])
      BY <1>13
    <2> QED BY <1>10, <2>1
  <1>19. ListsFit' /\ loads' \in Seq(Load) /\ newest' \in {"awaited", "shown", "lost"}
    BY <1>4, <1>18, ListsKept
  <1> QED BY <1>4, <1>6, <1>7, <1>14, <1>15, <1>16, <1>17, <1>19 DEF IInv, TypeInv

\* Nothing happens to the jobs.
LEMMA JobsStill ==
  ASSUME IInv, UNCHANGED <<jobs, shown, sent>>, UNCHANGED <<request, server>>
  PROVE  JobsFit' /\ RequestsFit' /\ RowsLag' /\ Onwards
  <1>1. JobsFit' /\ RequestsFit' /\ RowsLag'
    BY DEF IInv, JobsFit, RequestsFit, RowsLag
  <1>2. Onwards
    <2>1. \A k \in DOMAIN shown' : \A i \in DOMAIN shown :
            shown'[k].of = shown[i].of => shown'[k] = shown[i]
      BY RowFacts
    <2> QED BY <2>1, StillOnwards
  <1> QED BY <1>1, <1>2

LEMMA StepServerStores ==
  ASSUME IInv, NEW u \in Uploads, ServerStores(u)
  PROVE  IInv' /\ Onwards
  <1> DEFINE new == IF request[u] = "sending" THEN "created" ELSE "over"
  <1>1. /\ request[u] \in {"sending", "abandoned"} /\ request' = [request EXCEPT ![u] = new]
        /\ server' = server \cup {u} /\ jobs' = jobs /\ shown' = shown /\ sent' = sent
        /\ loads' = loads /\ files' = files /\ newest' = newest
    BY DEF ServerStores, lists
  <1>2. request \in [Uploads -> Requests] /\ server \subseteq Uploads
    BY DEF IInv, TypeInv
  <1>3. new \in Requests /\ new # "unsent" /\ (new \in InFlight <=> request[u] \in InFlight)
    BY <1>1 DEF Requests, InFlight
  <1> HIDE DEF new
  <1>4. /\ request' \in [Uploads -> Requests] /\ request'[u] = new
        /\ \A v \in Uploads : v # u => request'[v] = request[v]
    BY <1>1, <1>2, <1>3
  <1>5. TypeInv' /\ ListsFit' /\ RowsLag'
    BY <1>1, <1>2, <1>4 DEF IInv, TypeInv, ListsFit, RowsLag
  <1>6. JobsFit'
    <2> SUFFICES ASSUME NEW i \in DOMAIN jobs
                 PROVE  Fits(jobs[i], request'[jobs[i].of], sent[jobs[i].of], server')
      BY <1>1 DEF IInv, JobsFit
    <2>1. jobs[i].of \in Uploads /\ Fits(jobs[i], request[jobs[i].of], sent[jobs[i].of], server)
      BY RowFacts
    <2> QED BY <1>1, <1>3, <1>4, <2>1 DEF Fits
  <1>7. RequestsFit'
    <2> SUFFICES ASSUME NEW v \in Uploads
                 PROVE  /\ request'[v] \in InFlight => \E i \in DOMAIN jobs : jobs[i].of = v
                        /\ request'[v] = "unsent" => sent[v] = 0
                        /\ request'[v] = "created" => v \in server'
      BY <1>1 DEF RequestsFit
    <2>1. /\ request[v] \in InFlight => \E i \in DOMAIN jobs : jobs[i].of = v
          /\ request[v] = "unsent" => sent[v] = 0
          /\ request[v] = "created" => v \in server
      BY DEF IInv, RequestsFit
    <2> QED BY <1>1, <1>3, <1>4, <2>1
  <1>8. Onwards
    <2>1. \A k \in DOMAIN shown' : \A i \in DOMAIN shown :
            shown'[k].of = shown[i].of => shown'[k] = shown[i]
      BY <1>1, RowFacts
    <2> QED BY <2>1, StillOnwards
  <1> QED BY <1>5, <1>6, <1>7, <1>8 DEF IInv

LEMMA StepServerRefuses ==
  ASSUME IInv, NEW u \in Uploads, ServerRefuses(u)
  PROVE  IInv' /\ Onwards
  <1>1. /\ request[u] = "sending" /\ request' = [request EXCEPT ![u] = "refused"]
        /\ server' = server /\ jobs' = jobs /\ shown' = shown /\ sent' = sent
        /\ loads' = loads /\ files' = files /\ newest' = newest
    BY DEF ServerRefuses, lists
  <1>2. request \in [Uploads -> Requests]
    BY DEF IInv, TypeInv
  <1>3. "refused" \in Requests /\ "refused" \in InFlight /\ request[u] \in InFlight
    BY <1>1 DEF Requests, InFlight
  <1>4. /\ request' \in [Uploads -> Requests] /\ request'[u] = "refused"
        /\ \A v \in Uploads : v # u => request'[v] = request[v]
    BY <1>1, <1>2, <1>3
  <1>5. TypeInv' /\ ListsFit' /\ RowsLag'
    BY <1>1, <1>4 DEF IInv, TypeInv, ListsFit, RowsLag
  <1>6. JobsFit'
    <2> SUFFICES ASSUME NEW i \in DOMAIN jobs
                 PROVE  Fits(jobs[i], request'[jobs[i].of], sent[jobs[i].of], server)
      BY <1>1 DEF IInv, JobsFit
    <2>1. jobs[i].of \in Uploads /\ Fits(jobs[i], request[jobs[i].of], sent[jobs[i].of], server)
      BY RowFacts
    <2> QED BY <1>3, <1>4, <2>1 DEF Fits
  <1>7. RequestsFit'
    <2> SUFFICES ASSUME NEW v \in Uploads
                 PROVE  /\ request'[v] \in InFlight => \E i \in DOMAIN jobs : jobs[i].of = v
                        /\ request'[v] = "unsent" => sent[v] = 0
                        /\ request'[v] = "created" => v \in server
      BY <1>1 DEF RequestsFit
    <2>1. /\ request[v] \in InFlight => \E i \in DOMAIN jobs : jobs[i].of = v
          /\ request[v] = "unsent" => sent[v] = 0
          /\ request[v] = "created" => v \in server
      BY DEF IInv, RequestsFit
    <2> QED BY <1>3, <1>4, <2>1
  <1>8. Onwards
    <2>1. \A k \in DOMAIN shown' : \A i \in DOMAIN shown :
            shown'[k].of = shown[i].of => shown'[k] = shown[i]
      BY <1>1, RowFacts
    <2> QED BY <2>1, StillOnwards
  <1> QED BY <1>5, <1>6, <1>7, <1>8 DEF IInv

LEMMA StepLoadServed ==
  ASSUME IInv, NEW i \in DOMAIN loads, LoadServed(i)
  PROVE  IInv' /\ Onwards
  <1> DEFINE answer == [served |-> TRUE, list |-> server]
  <1>1. /\ ~ loads[i].served /\ loads' = [loads EXCEPT ![i] = answer]
        /\ files' = files /\ newest' = newest /\ UNCHANGED <<jobs, shown, sent>> /\ UNCHANGED <<request, server>>
    BY DEF LoadServed, page
  <1>2. loads \in Seq(Load) /\ server \subseteq Uploads
    BY DEF IInv, TypeInv
  <1>3. answer \in Load /\ answer.served /\ answer.list = server
    BY <1>2 DEF Load
  <1> HIDE DEF answer
  <1>4. /\ loads' \in Seq(Load) /\ Len(loads') = Len(loads) /\ DOMAIN loads' = DOMAIN loads
        /\ loads'[i] = answer /\ \A k \in DOMAIN loads : k # i => loads'[k] = loads[k]
    BY <1>1, <1>2, <1>3
  <1>5. TypeInv'
    BY <1>1, <1>4 DEF IInv, TypeInv
  <1>6. Has(server, jobs)
    BY DEF IInv, JobsFit, Fits, Has
  <1>7. ListsFit'
    <2>1. newest = "shown" => Has(files, jobs)
      BY DEF IInv, ListsFit
    <2>2. ASSUME newest = "awaited"
          PROVE  loads' # <<>> /\ (loads'[Len(loads')].served => Has(loads'[Len(loads')].list, jobs))
      <3>1. loads # <<>> /\ (loads[Len(loads)].served => Has(loads[Len(loads)].list, jobs))
        BY <2>2 DEF IInv, ListsFit
      <3>2. Len(loads) \in DOMAIN loads
        BY <1>2, <3>1
      <3>3. loads' # <<>>
        BY <1>2, <1>4, <3>2
      <3>4. CASE Len(loads) = i
        BY <1>3, <1>4, <1>6, <3>3, <3>4
      <3>5. CASE Len(loads) # i
        BY <1>4, <3>1, <3>2, <3>3, <3>5
      <3> QED BY <3>4, <3>5
    <2> QED BY <1>1, <2>1, <2>2 DEF ListsFit
  <1> QED BY <1>1, <1>5, <1>7, JobsStill DEF IInv

\* An answer that is applied or lost while the latest is awaited is the latest or an
\* older one, which leaves the latest where it is.
LEMMA AnswerGone ==
  ASSUME IInv, NEW i \in DOMAIN loads
  PROVE  /\ RemoveAt(loads, i) \in Seq(Load)
         /\ newest = "awaited" /\ ~ IsNewest(i) =>
              /\ RemoveAt(loads, i) # <<>>
              /\ LET l == RemoveAt(loads, i)[Len(RemoveAt(loads, i))] IN l.served => Has(l.list, jobs)
         /\ IsNewest(i) => (loads[i].served => Has(loads[i].list, jobs))
  <1>1. loads \in Seq(Load)
    BY DEF IInv, TypeInv
  <1> DEFINE rest == RemoveAt(loads, i)
  <1>2. /\ rest \in Seq(Load) /\ Len(rest) = Len(loads) - 1
        /\ i # Len(loads) => Len(rest) > 0 /\ rest[Len(rest)] = loads[Len(loads)]
    BY <1>1, RemovedLoad
  <1> HIDE DEF rest
  <1>3. newest = "awaited" => (loads[Len(loads)].served => Has(loads[Len(loads)].list, jobs))
    BY DEF IInv, ListsFit
  <1>4. ASSUME newest = "awaited", ~ IsNewest(i)
        PROVE  rest # <<>> /\ (rest[Len(rest)].served => Has(rest[Len(rest)].list, jobs))
    BY <1>2, <1>3, <1>4 DEF IsNewest
  <1>5. IsNewest(i) => (loads[i].served => Has(loads[i].list, jobs))
    BY <1>3 DEF IsNewest
  <1> QED BY <1>2, <1>4, <1>5 DEF rest

LEMMA StepLoadArrives ==
  ASSUME IInv, NEW i \in DOMAIN loads, LoadArrives(i)
  PROVE  IInv' /\ Onwards
  <1>1. /\ loads[i].served /\ files' = loads[i].list /\ loads' = RemoveAt(loads, i)
        /\ newest' = CASE IsNewest(i) -> "shown"
                       [] newest = "shown" -> "lost"
                       [] OTHER -> newest
        /\ UNCHANGED <<jobs, shown, sent>> /\ UNCHANGED <<request, server>>
    BY DEF LoadArrives, page
  <1>2. newest \in {"awaited", "shown", "lost"} /\ (IsNewest(i) => newest # "shown")
    BY DEF IInv, TypeInv, IsNewest
  <1>3. /\ newest' \in {"awaited", "shown", "lost"}
        /\ newest' = "shown" => IsNewest(i)
        /\ newest' = "awaited" => newest = "awaited" /\ ~ IsNewest(i)
    BY <1>1, <1>2
  <1>4. TypeInv'
    BY <1>1, <1>3, AnswerGone DEF IInv, TypeInv
  <1>5. newest' = "shown" => Has(files', jobs)
    BY <1>1, <1>3, AnswerGone
  <1>6. newest' = "awaited" => loads' # <<>> /\ (loads'[Len(loads')].served => Has(loads'[Len(loads')].list, jobs))
    BY <1>1, <1>3, AnswerGone
  <1>7. ListsFit'
    <2>1. jobs' = jobs
      BY <1>1
    <2> QED BY <1>5, <1>6, <2>1 DEF ListsFit
  <1> QED BY <1>1, <1>4, <1>7, JobsStill DEF IInv

LEMMA StepLoadBreaksOff ==
  ASSUME IInv, NEW i \in DOMAIN loads, LoadBreaksOff(i)
  PROVE  IInv' /\ Onwards
  <1>1. /\ loads' = RemoveAt(loads, i)
        /\ newest' = IF IsNewest(i) \/ newest = "shown" THEN "lost" ELSE newest
        /\ UNCHANGED <<jobs, shown, sent>> /\ UNCHANGED <<request, server>>
    BY DEF LoadBreaksOff, page
  <1>2. newest \in {"awaited", "shown", "lost"}
    BY DEF IInv, TypeInv
  <1>3. /\ newest' \in {"awaited", "lost"}
        /\ newest' = "awaited" => newest = "awaited" /\ ~ IsNewest(i)
    BY <1>1, <1>2
  <1>4. TypeInv'
    BY <1>1, <1>3, AnswerGone DEF IInv, TypeInv
  <1>5. newest' = "awaited" => loads' # <<>> /\ (loads'[Len(loads')].served => Has(loads'[Len(loads')].list, jobs))
    BY <1>1, <1>3, AnswerGone
  <1>6. ListsFit'
    <2>1. jobs' = jobs
      BY <1>1
    <2> QED BY <1>3, <1>5, <2>1 DEF ListsFit
  <1> QED BY <1>1, <1>4, <1>6, JobsStill DEF IInv

LEMMA StepLoadFails ==
  ASSUME IInv, NEW i \in DOMAIN loads, LoadFails(i)
  PROVE  IInv' /\ Onwards
  <1>1. /\ loads' = RemoveAt(loads, i) /\ files' = files
        /\ newest' = IF IsNewest(i) THEN "lost" ELSE newest
        /\ UNCHANGED <<jobs, shown, sent>> /\ UNCHANGED <<request, server>>
    BY DEF LoadFails, page
  <1>2. newest \in {"awaited", "shown", "lost"}
    BY DEF IInv, TypeInv
  <1>3. /\ newest' \in {"awaited", "shown", "lost"}
        /\ newest' = "shown" => newest = "shown"
        /\ newest' = "awaited" => newest = "awaited" /\ ~ IsNewest(i)
    BY <1>1, <1>2
  <1>4. TypeInv'
    BY <1>1, <1>3, AnswerGone DEF IInv, TypeInv
  <1>5. newest' = "shown" => Has(files', jobs)
    BY <1>1, <1>3 DEF IInv, ListsFit
  <1>6. newest' = "awaited" => loads' # <<>> /\ (loads'[Len(loads')].served => Has(loads'[Len(loads')].list, jobs))
    BY <1>1, <1>3, AnswerGone
  <1>7. ListsFit'
    <2>1. jobs' = jobs
      BY <1>1
    <2> QED BY <1>5, <1>6, <2>1 DEF ListsFit
  <1> QED BY <1>1, <1>4, <1>7, JobsStill DEF IInv

(***************************************************************************)
(* Every step.                                                             *)
(***************************************************************************)

LEMMA InitIInv == Init => IInv
  <1> SUFFICES ASSUME Init PROVE IInv
    OBVIOUS
  <1>1. Unserved \in Load /\ ~ Unserved.served
    BY DEF Unserved, Load
  <1>2. TypeInv
    BY <1>1 DEF Init, TypeInv, Requests
  <1>3. JobsFit /\ RowsLag
    BY DEF Init, JobsFit, Sound, RowsLag
  <1>4. RequestsFit
    BY DEF Init, RequestsFit, InFlight
  <1>5. ListsFit
    BY <1>1 DEF Init, ListsFit
  <1> QED BY <1>2, <1>3, <1>4, <1>5 DEF IInv

LEMMA StepIInv == KeysDiffer /\ IInv /\ [Next]_vars => IInv' /\ Onwards
  <1> SUFFICES ASSUME KeysDiffer, IInv, [Next]_vars PROVE IInv' /\ Onwards
    OBVIOUS
  <1>1. ASSUME NEW list \in Picks, Pick(list) PROVE IInv' /\ Onwards
    BY <1>1, StepPick
  <1>2. ASSUME NEW i \in DOMAIN shown, ClickPause(i) PROVE IInv' /\ Onwards
    BY <1>2, StepClickPause
  <1>3. ASSUME NEW i \in DOMAIN shown, ClickResume(i) PROVE IInv' /\ Onwards
    BY <1>3, StepClickResume
  <1>4. ASSUME NEW i \in DOMAIN shown, ClickDismiss(i) PROVE IInv' /\ Onwards
    BY <1>4, StepClickDismiss
  <1>5. CASE LeavePage
    BY <1>5, StepLeavePage
  <1>6. ASSUME NEW u \in Uploads, ServerStores(u) PROVE IInv' /\ Onwards
    BY <1>6, StepServerStores
  <1>7. ASSUME NEW u \in Uploads, ServerRefuses(u) PROVE IInv' /\ Onwards
    BY <1>7, StepServerRefuses
  <1>8. ASSUME NEW u \in Uploads, OnProgress(u) PROVE IInv' /\ Onwards
    BY <1>8, StepOnProgress
  <1>9. ASSUME NEW u \in Uploads, OnLoad(u) PROVE IInv' /\ Onwards
    BY <1>9, StepOnLoad
  <1>10. ASSUME NEW u \in Uploads, OnLoadNot201(u) PROVE IInv' /\ Onwards
    BY <1>10, StepOnLoadNot201
  <1>11. ASSUME NEW u \in Uploads, OnError(u) PROVE IInv' /\ Onwards
    BY <1>11, StepOnError
  <1>12. ASSUME NEW i \in DOMAIN loads, LoadServed(i) PROVE IInv' /\ Onwards
    BY <1>12, StepLoadServed
  <1>13. ASSUME NEW i \in DOMAIN loads, LoadArrives(i) PROVE IInv' /\ Onwards
    BY <1>13, StepLoadArrives
  <1>14. ASSUME NEW i \in DOMAIN loads, LoadBreaksOff(i) PROVE IInv' /\ Onwards
    BY <1>14, StepLoadBreaksOff
  <1>15. ASSUME NEW i \in DOMAIN loads, LoadFails(i) PROVE IInv' /\ Onwards
    BY <1>15, StepLoadFails
  <1>16. CASE RenderQueued
    BY <1>16, StepRenderQueued
  <1>17. CASE UNCHANGED vars
    <2>1. UNCHANGED <<jobs, shown, sent>> /\ UNCHANGED <<request, server>> /\ UNCHANGED lists
      BY <1>17 DEF vars, lists
    <2>2. TypeInv' /\ ListsFit'
      BY <2>1 DEF IInv, TypeInv, ListsFit, lists
    <2> QED BY <2>1, <2>2, JobsStill DEF IInv
  <1> QED BY <1>1, <1>2, <1>3, <1>4, <1>5, <1>6, <1>7, <1>8, <1>9, <1>10, <1>11, <1>12,
             <1>13, <1>14, <1>15, <1>16, <1>17
          DEF Next, User, Server, Callback, Lists

LEMMA Invariance == ASSUME KeysDiffer PROVE Spec => []IInv
  <1>1. IInv /\ [Next]_vars => IInv'
    BY StepIInv
  <1> QED BY <1>1, InitIInv, PTL DEF Spec

(***************************************************************************)
(* What follows.                                                           *)
(***************************************************************************)

\* As long as no two uploads share a key, a request is under way exactly for the
\* active jobs, for any files, clicks and late renderings (page.tsx, togglePause,
\* remove and the callbacks of upload).
THEOREM RequestsHaveTheirJobs == ASSUME KeysDiffer PROVE Spec => []ActiveIffInFlight
  <1>1. IInv => ActiveIffInFlight
    <2> SUFFICES ASSUME IInv, NEW u \in Uploads
                 PROVE  request[u] \in InFlight <=> \E i \in DOMAIN jobs : jobs[i].of = u /\ jobs[i].status = "active"
      BY DEF ActiveIffInFlight
    <2>1. request[u] \in InFlight => \E i \in DOMAIN jobs : jobs[i].of = u
      BY DEF IInv, RequestsFit
    <2>2. \A i \in DOMAIN jobs : jobs[i].status = "active" <=> request[jobs[i].of] \in InFlight
      BY RowFacts DEF Fits
    <2> QED BY <2>1, <2>2
  <1> QED BY <1>1, Invariance, PTL

\* The page that shows the answer to its latest call lists every file it calls
\* COMPLETE, with answers in any order (page.tsx, onload and loadFiles).
THEOREM CompleteFilesAreListed == ASSUME KeysDiffer PROVE Spec => []CompleteIsListed
  <1>1. IInv => CompleteIsListed
    BY DEF IInv, ListsFit, Has, CompleteIsListed
  <1> QED BY <1>1, Invariance, PTL

\* No row reports two outcomes (page.tsx, togglePause and the callbacks).
THEOREM RowsHaveOneOutcome == ASSUME KeysDiffer PROVE Spec => []OneOutcome
  <1>1. IInv => OneOutcome
    <2> SUFFICES ASSUME IInv, NEW i \in DOMAIN shown
                 PROVE  Cardinality(Words(shown[i]) \ {"PAUSED"}) <= 1
      BY DEF OneOutcome
    <2>1. ErrorFits(shown[i])
      BY RowFacts DEF Lags
    <2>2. \/ Words(shown[i]) \ {"PAUSED"} = {}
          \/ \E w : Words(shown[i]) \ {"PAUSED"} = {w}
      <3>1. CASE shown[i].error
        <4>1. Words(shown[i]) \ {"PAUSED"} = {"ERROR"}
          BY <2>1, <3>1 DEF Words, ErrorFits
        <4> QED BY <4>1
      <3>2. CASE ~ shown[i].error /\ shown[i].status = "active"
        <4>1. Words(shown[i]) \ {"PAUSED"} \subseteq {"LEFT"}
          BY <3>2 DEF Words
        <4> QED BY <4>1
      <3>3. CASE ~ shown[i].error /\ shown[i].status # "active"
        <4>1. Words(shown[i]) \ {"PAUSED"} \subseteq {"COMPLETE"}
          BY <3>3 DEF Words
        <4> QED BY <4>1
      <3> QED BY <3>1, <3>2, <3>3
    <2>3. Cardinality({}) = 0 /\ \A w : Cardinality({w}) = 1
      BY FS_EmptySet, FS_Singleton
    <2> DEFINE ws == Words(shown[i]) \ {"PAUSED"}
    <2> HIDE DEF ws
    <2>4. CASE ws = {}
      <3>1. Cardinality(ws) = 0
        BY <2>3, <2>4
      <3> QED BY <3>1 DEF ws
    <2>5. CASE \E w : ws = {w}
      <3>1. PICK w : ws = {w}
        BY <2>5
      <3>2. Cardinality(ws) = 1
        BY <2>3, <3>1
      <3> QED BY <3>2 DEF ws
    <2> QED BY <2>2, <2>4, <2>5 DEF ws
  <1> QED BY <1>1, Invariance, PTL

\* COMPLETE is final, whatever is clicked while later news is not rendered (page.tsx,
\* togglePause).
THEOREM CompleteIsFinal == ASSUME KeysDiffer PROVE Spec => CompleteStaysComplete
  <1>1. IInv /\ [Next]_vars =>
          [\A i \in DOMAIN shown, j \in DOMAIN shown' :
             shown[i].status = "done" /\ shown'[j].of = shown[i].of => shown'[j].status = "done"]_vars
    BY StepIInv DEF Onwards
  <1> QED BY <1>1, Invariance, PTL DEF Spec, CompleteStaysComplete

\* No bar moves backwards, for files and multipart bodies of any size (page.tsx,
\* onprogress and onload; Bits.tsx, ProgressBar).
THEOREM BarsMoveOn == ASSUME KeysDiffer PROVE Spec => BarNeverFallsBack
  <1>1. IInv /\ [Next]_vars =>
          [\A i \in DOMAIN shown, j \in DOMAIN shown' :
             shown'[j].of = shown[i].of => Bar(shown'[j]) >= Bar(shown[i])]_vars
    BY StepIInv DEF Onwards
  <1> QED BY <1>1, Invariance, PTL DEF Spec, BarNeverFallsBack
===============================================================================
