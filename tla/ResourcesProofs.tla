---------------------------- MODULE ResourcesProofs ----------------------------
(***************************************************************************)
(* The safety properties of Resources, for any number of workers and       *)
(* connections, any limits and any sizes.                                  *)
(***************************************************************************)
EXTENDS Resources, FiniteSetTheorems, TLAPS

\* The workers whose query is under way.
Querying == {w \in Workers : pc[w] = "query"}

IInv == TypeOK /\ UploadSteps /\ TempFilesAreOwned /\ FitsIfAnnounced /\ NoConnectionLost

\* One worker more in a finite set.
LEMMA OneMore ==
  ASSUME NEW S, IsFiniteSet(S), NEW w, w \notin S
  PROVE  Cardinality(S \cup {w}) = Cardinality(S) + 1
  BY FS_AddElement

\* One worker less in a finite set.
LEMMA OneLess ==
  ASSUME NEW S, IsFiniteSet(S), NEW w \in S
  PROVE  Cardinality(S \ {w}) = Cardinality(S) - 1 /\ Cardinality(S) \in Nat \ {0}
  <1>1. Cardinality(S \ {w}) = Cardinality(S) - 1
    BY FS_RemoveElement
  <1>2. Cardinality(S) \in Nat /\ Cardinality(S) # 0
    BY FS_CardinalityType, FS_EmptySet
  <1> QED BY <1>1, <1>2

\* The queries under way are finitely many.
LEMMA QueryingIsFinite == IsFiniteSet(Querying) /\ Cardinality(Querying) \in Nat
  <1>1. IsFiniteSet(Querying)
    BY WorkersAssumption, FS_Subset DEF Querying
  <1> QED BY <1>1, FS_CardinalityType

\* The numbers that the types speak of are natural.
LEMMA Limits ==
  /\ MaxConns \in Nat /\ MaxCrashes \in Nat /\ MaxUpload \in Nat /\ ReadLimit \in Nat
  /\ Envelope \in Nat /\ Slack \in Nat /\ Envelope <= Slack /\ Sizes \subseteq Nat
  BY LimitsAssumption DEF ReadLimit

\* And so are the values of the variables.
LEMMA Numbers ==
  ASSUME TypeOK
  PROVE  /\ inUse \in 0 .. MaxConns /\ inUse \in Nat
         /\ crashes \in 0 .. MaxCrashes /\ crashes \in Nat
         /\ read \in [Workers -> 0 .. ReadLimit] /\ \A w \in Workers : read[w] \in Nat
         /\ size \in [Workers -> Sizes \cup {0}] /\ \A w \in Workers : size[w] \in Nat
  <1>1. /\ inUse \in 0 .. MaxConns /\ crashes \in 0 .. MaxCrashes
        /\ read \in [Workers -> 0 .. ReadLimit] /\ size \in [Workers -> Sizes \cup {0}]
    BY DEF TypeOK
  <1>2. inUse \in Nat /\ crashes \in Nat /\ \A w \in Workers : read[w] \in Nat
    BY <1>1, Limits
  <1>3. \A w \in Workers : size[w] \in Nat
    <2>1. Sizes \cup {0} \subseteq Nat
      BY Limits
    <2> QED BY <1>1, <2>1
  <1> QED BY <1>1, <1>2, <1>3

\* A step that moves one worker, neither into nor out of its query, loses no connection.
LEMMA QueryingStays ==
  ASSUME TypeOK, NoConnectionLost, NEW w \in Workers, NEW l,
         pc[w] # "query", l # "query", Goto(w, l), inUse' = inUse
  PROVE  NoConnectionLost'
  <1>1. Querying' = Querying
    BY DEF TypeOK, Goto, Querying
  <1> QED BY <1>1 DEF NoConnectionLost, Querying

\* Release gives back the connection of a worker that leaves its query, and only that.
LEMMA ReleaseKeepsCount ==
  ASSUME TypeOK, NoConnectionLost, NEW w \in Workers, NEW l,
         l # "query", Goto(w, l), Release(w)
  PROVE  NoConnectionLost' /\ inUse' \in 0 .. MaxConns
  <1>1. CASE pc[w] = "query"
    <2>1. Querying' = Querying \ {w} /\ w \in Querying
      BY <1>1 DEF TypeOK, Goto, Querying
    <2>2. /\ Cardinality(Querying \ {w}) = Cardinality(Querying) - 1
          /\ Cardinality(Querying) \in Nat \ {0}
      BY <2>1, OneLess, QueryingIsFinite
    <2>3. inUse = Cardinality(Querying) /\ inUse' = inUse - 1
      BY <1>1 DEF NoConnectionLost, Querying, Release
    <2>4. inUse \in 0 .. MaxConns /\ MaxConns \in Nat
      BY Limits, Numbers
    <2>5. inUse' = Cardinality(Querying')
      BY <2>1, <2>2, <2>3
    <2> QED BY <2>2, <2>3, <2>4, <2>5 DEF NoConnectionLost, Querying
  <1>2. CASE pc[w] # "query"
    <2>1. inUse' = inUse
      BY <1>2 DEF Release
    <2> QED BY <1>2, <2>1, QueryingStays DEF TypeOK
  <1> QED BY <1>1, <1>2

\* The invariant holds at the start.
LEMMA InitInv == Init => IInv
  <1> SUFFICES ASSUME Init PROVE IInv
    OBVIOUS
  <1>1. TypeOK
    BY LimitsAssumption DEF Init, TypeOK, ReadLimit
  <1>2. UploadSteps /\ TempFilesAreOwned
    BY DEF Init, UploadSteps, TempFilesAreOwned
  <1>3. FitsIfAnnounced
    BY NoneAssumption DEF Init, FitsIfAnnounced
  <1>4. NoConnectionLost
    <2>1. {w \in Workers : pc[w] = "query"} = {}
      BY DEF Init
    <2> QED BY <2>1, FS_EmptySet DEF Init, NoConnectionLost
  <1> QED BY <1>1, <1>2, <1>3, <1>4 DEF IInv

\* The steps of an upload up to its query, and its cleanup.
LEMMA WorkKeepsInv ==
  ASSUME IInv, NEW w \in Workers, UploadBegins(w) \/ Work(w)
  PROVE  IInv'
  <1> USE DEF IInv
  <1>1. CASE UploadBegins(w)
    <2>1. TypeOK'
      <3>1. read' \in [Workers -> 0 .. ReadLimit]
        BY <1>1, Limits, Numbers DEF UploadBegins
      <3>2. size' \in [Workers -> Sizes \cup {0}] /\ named' \in [Workers -> BOOLEAN]
        <4>1. PICK s \in Sizes, field \in BOOLEAN :
                size' = [size EXCEPT ![w] = s] /\ named' = [named EXCEPT ![w] = field]
          BY <1>1 DEF UploadBegins
        <4> QED BY <4>1 DEF TypeOK
      <3> QED BY <1>1, <3>1, <3>2 DEF UploadBegins, Goto, Answer, TypeOK
    <2>2. UploadSteps' /\ TempFilesAreOwned'
      BY <1>1 DEF UploadBegins, Goto, TypeOK, UploadSteps, TempFilesAreOwned
    <2>3. FitsIfAnnounced'
      BY <1>1, NoneAssumption DEF UploadBegins, Answer, TypeOK, FitsIfAnnounced
    <2>4. NoConnectionLost'
      BY <1>1, QueryingStays DEF UploadBegins
    <2> QED BY <2>1, <2>2, <2>3, <2>4
  <1>2. CASE ReadUnit(w)
    <2>1. read' \in [Workers -> 0 .. ReadLimit]
      BY <1>2, Limits, Numbers DEF ReadUnit
    <2>2. TypeOK'
      BY <1>2, <2>1 DEF ReadUnit, TypeOK, request
    <2>3. UploadSteps' /\ TempFilesAreOwned'
      BY <1>2 DEF ReadUnit, TypeOK, request, UploadSteps, TempFilesAreOwned
    <2>4. FitsIfAnnounced' /\ NoConnectionLost'
      BY <1>2 DEF ReadUnit, request, FitsIfAnnounced, NoConnectionLost
    <2> QED BY <2>2, <2>3, <2>4
  <1>3. CASE ParseFails(w)
    <2>1. TypeOK'
      BY <1>3 DEF ParseFails, RemoveTemp, Goto, Answer, TypeOK, request
    <2>2. UploadSteps' /\ TempFilesAreOwned'
      BY <1>3 DEF ParseFails, RemoveTemp, Goto, TypeOK, request, UploadSteps, TempFilesAreOwned
    <2>3. FitsIfAnnounced'
      <3>1. ASSUME ~ (read[w] < ReadLimit) PROVE size[w] > MaxUpload
        <4>1. read[w] \in Nat /\ size[w] \in Nat /\ read[w] < size[w] + Envelope
          BY <1>3, Numbers DEF ParseFails, Body
        <4> QED BY <3>1, <4>1, Limits DEF ReadLimit
      <3> QED BY <1>3, <3>1 DEF ParseFails, Answer, TypeOK, request, FitsIfAnnounced
    <2>4. NoConnectionLost'
      BY <1>3, QueryingStays DEF ParseFails
    <2> QED BY <2>1, <2>2, <2>3, <2>4
  <1>4. CASE Parsed(w)
    <2>1. TypeOK'
      BY <1>4 DEF Parsed, Goto, Answer, TypeOK, request
    <2>2. UploadSteps' /\ TempFilesAreOwned'
      BY <1>4 DEF Parsed, Goto, TypeOK, request, UploadSteps, TempFilesAreOwned
    <2>3. FitsIfAnnounced'
      BY <1>4 DEF Parsed, Answer, TypeOK, request, FitsIfAnnounced
    <2>4. NoConnectionLost'
      BY <1>4, QueryingStays DEF Parsed
    <2> QED BY <2>1, <2>2, <2>3, <2>4
  <1>5. CASE Copied(w)
    <2>1. TypeOK'
      BY <1>5 DEF Copied, Goto, Answer, TypeOK, request
    <2>2. UploadSteps' /\ TempFilesAreOwned'
      BY <1>5 DEF Copied, Goto, TypeOK, request, UploadSteps, TempFilesAreOwned
    <2>3. FitsIfAnnounced'
      BY <1>5 DEF Copied, Answer, TypeOK, request, FitsIfAnnounced
    <2>4. NoConnectionLost'
      BY <1>5, QueryingStays DEF Copied
    <2> QED BY <2>1, <2>2, <2>3, <2>4
  <1>6. CASE Cleanup(w)
    <2>1. TypeOK'
      BY <1>6 DEF Cleanup, RemoveTemp, Goto, TypeOK, request
    <2>2. UploadSteps' /\ TempFilesAreOwned'
      BY <1>6 DEF Cleanup, RemoveTemp, Goto, TypeOK, request, UploadSteps, TempFilesAreOwned
    <2>3. FitsIfAnnounced'
      BY <1>6 DEF Cleanup, request, FitsIfAnnounced
    <2>4. NoConnectionLost'
      BY <1>6, QueryingStays DEF Cleanup
    <2> QED BY <2>1, <2>2, <2>3, <2>4
  <1> QED BY <1>1, <1>2, <1>3, <1>4, <1>5, <1>6 DEF Work

\* A query that ends, for whatever reason.
LEMMA EndKeepsInv ==
  ASSUME IInv, NEW w \in Workers, pc[w] \in {"wait", "query"},
         NEW status \in {"stored", "failed"},
         Release(w), Ended(w, status),
         UNCHANGED <<request, read, temp, orphans, crashes>>
  PROVE  IInv'
  <1> USE DEF IInv, Ended
  <1>1. NoConnectionLost' /\ inUse' \in 0 .. MaxConns
    BY ReleaseKeepsCount
  <1>2. TypeOK'
    BY <1>1 DEF Goto, Answer, TypeOK, request
  <1>3. UploadSteps' /\ TempFilesAreOwned'
    BY DEF Goto, TypeOK, request, UploadSteps, TempFilesAreOwned
  <1>4. FitsIfAnnounced'
    BY DEF Answer, TypeOK, request, FitsIfAnnounced
  <1> QED BY <1>1, <1>2, <1>3, <1>4

\* The steps of the database and of the contexts.
LEMMA DbKeepsInv ==
  ASSUME IInv, NEW w \in Workers,
         AuthBegins(w) \/ Acquire(w) \/ DbAnswers(w) \/ Deadline(w) \/ ClientLeaves(w)
  PROVE  IInv'
  <1>1. CASE AuthBegins(w)
    <2> USE DEF IInv
    <2>1. TypeOK'
      BY <1>1 DEF AuthBegins, Goto, Answer, TypeOK
    <2>2. UploadSteps' /\ TempFilesAreOwned'
      BY <1>1 DEF AuthBegins, Goto, TypeOK, UploadSteps, TempFilesAreOwned
    <2>3. FitsIfAnnounced'
      BY <1>1, NoneAssumption DEF AuthBegins, Answer, TypeOK, FitsIfAnnounced
    <2>4. NoConnectionLost'
      BY <1>1, QueryingStays DEF AuthBegins
    <2> QED BY <2>1, <2>2, <2>3, <2>4
  <1>2. CASE Acquire(w)
    <2> USE DEF IInv
    <2>1. inUse' \in 0 .. MaxConns
      BY <1>2, Limits, Numbers DEF Acquire
    <2>2. TypeOK'
      BY <1>2, <2>1 DEF Acquire, Goto, TypeOK, request
    <2>3. UploadSteps' /\ TempFilesAreOwned' /\ FitsIfAnnounced'
      BY <1>2 DEF Acquire, Goto, TypeOK, request, UploadSteps, TempFilesAreOwned, FitsIfAnnounced
    <2>4. NoConnectionLost'
      <3>1. Querying' = Querying \cup {w} /\ w \notin Querying
        BY <1>2 DEF Acquire, Goto, TypeOK, Querying
      <3>2. Cardinality(Querying') = Cardinality(Querying) + 1
        BY <3>1, OneMore, QueryingIsFinite
      <3> QED BY <1>2, <3>2 DEF Acquire, NoConnectionLost, Querying
    <2> QED BY <2>2, <2>3, <2>4
  <1>3. CASE DbAnswers(w)
    BY <1>3, EndKeepsInv DEF DbAnswers
  <1>4. CASE Deadline(w)
    BY <1>4, EndKeepsInv DEF Deadline
  <1>5. CASE ClientLeaves(w)
    BY <1>5, EndKeepsInv DEF ClientLeaves
  <1> QED BY <1>1, <1>2, <1>3, <1>4, <1>5

\* A crash loses every request and every connection at once.
LEMMA CrashKeepsInv == ASSUME IInv, Crash PROVE IInv'
  <1> USE DEF IInv, Crash
  <1>1. TypeOK'
    <2>1. crashes' \in 0 .. MaxCrashes /\ inUse' \in 0 .. MaxConns
      BY Limits, Numbers
    <2> QED BY <2>1 DEF TypeOK, request
  <1>2. UploadSteps' /\ TempFilesAreOwned'
    BY DEF UploadSteps, TempFilesAreOwned
  <1>3. FitsIfAnnounced'
    BY NoneAssumption DEF FitsIfAnnounced
  <1>4. NoConnectionLost'
    <2>1. {w \in Workers : pc'[w] = "query"} = {}
      OBVIOUS
    <2> QED BY <2>1, FS_EmptySet DEF NoConnectionLost
  <1> QED BY <1>1, <1>2, <1>3, <1>4

\* Every step keeps the invariant.
LEMMA NextInv == IInv /\ [Next]_vars => IInv'
  <1> SUFFICES ASSUME IInv, [Next]_vars PROVE IInv'
    OBVIOUS
  <1>1. CASE UNCHANGED vars
    BY <1>1 DEF vars, IInv, TypeOK, UploadSteps, TempFilesAreOwned, FitsIfAnnounced,
                NoConnectionLost
  <1>2. CASE Next
    BY <1>2, WorkKeepsInv, DbKeepsInv, CrashKeepsInv DEF Next
  <1> QED BY <1>1, <1>2

\* Every variable keeps its type, and no more connections are in use than
\* SetMaxOpenConns allows (postgres.go).
THEOREM TypeCorrect == Spec => []TypeOK
  <1>1. IInv => TypeOK
    BY DEF IInv
  <1> QED BY <1>1, InitInv, NextInv, PTL DEF Spec

\* No temporary file with plaintext outlives its request, unless the process dies or the
\* file cannot be removed (handler.go, Upload).
THEOREM PlaintextIsOwned == Spec => []TempFilesAreOwned
  <1>1. IInv => TempFilesAreOwned
    BY DEF IInv
  <1> QED BY <1>1, InitInv, NextInv, PTL DEF Spec

\* A file of the announced size is never refused as too large, as long as the envelope
\* of the multipart body fits into the slack (handler.go, MaxBytesReader).
THEOREM AnnouncedSizesFit == Spec => []FitsIfAnnounced
  <1>1. IInv => FitsIfAnnounced
    BY DEF IInv
  <1> QED BY <1>1, InitInv, NextInv, PTL DEF Spec

\* The connections in use are those of the queries under way (repository.go).
THEOREM ConnectionsAreNotLost == Spec => []NoConnectionLost
  <1>1. IInv => NoConnectionLost
    BY DEF IInv
  <1> QED BY <1>1, InitInv, NextInv, PTL DEF Spec
=============================================================================
