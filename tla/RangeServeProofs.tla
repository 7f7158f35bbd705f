--------------------------- MODULE RangeServeProofs ---------------------------
(***************************************************************************)
(* Proofs that serveDecrypted answers a Range header with the bytes it     *)
(* asks for, for files, blocks and buffers of every size, and that the     *)
(* counter NewCTRAt jumps to is the one Upload walked to, for counters of  *)
(* every base and width.                                                   *)
(***************************************************************************)
EXTENDS CtrSeek, WellFoundedInduction, TLAPS

(* The parsed range is a non-empty part of the file, and it is the requested one;  *)
(* a header is refused only if it asks for nothing (handler.go, parseRange).        *)
LEMMA ParseRangeIsRequested ==
  ASSUME NEW h \in Headers, NEW sz \in 1 .. MaxSize
  PROVE  LET r == parseRange(h, sz) IN
           /\ r \in [ok : BOOLEAN, start : Nat, length : Nat]
           /\ r.ok => r.length >= 1 /\ r.start + r.length <= sz
           /\ r.ok => r.start .. r.start + r.length - 1 = Requested(h, sz)
           /\ ~ r.ok => Requested(h, sz) = {}
           /\ h = Whole => r = Slice(0, sz)
<1> USE SizeAssumption
<1> DEFINE r == parseRange(h, sz)
           Goal == /\ r \in [ok : BOOLEAN, start : Nat, length : Nat]
                   /\ r.ok => r.length >= 1 /\ r.start + r.length <= sz
                   /\ r.ok => r.start .. r.start + r.length - 1 = Requested(h, sz)
                   /\ ~ r.ok => Requested(h, sz) = {}
                   /\ h = Whole => r = Slice(0, sz)
<1>1. CASE h = Bad
  <2>1. r = Refused /\ Requested(h, sz) = {}
    BY <1>1 DEF parseRange, Requested, Bad
  <2>2. h # Whole
    BY <1>1 DEF Bad, Whole
  <2> QED BY <2>1, <2>2 DEF Refused
<1>2. CASE h = Whole
  <2>1. r = Slice(0, sz) /\ Requested(h, sz) = 0 .. sz - 1
    BY <1>2 DEF parseRange, Requested, Whole
  <2> QED BY <2>1 DEF Slice
<1>3. ASSUME NEW n \in Numbers, h = Suffix(n) PROVE Goal
  <2>1. Requested(h, sz) = {p \in 0 .. sz - 1 : p >= sz - n}
    BY <1>3 DEF Requested, Suffix
  <2>2. r = IF n > 0 THEN Slice(sz - SmallerOf(n, sz), SmallerOf(n, sz)) ELSE Refused
    BY <1>3 DEF parseRange, Suffix
  <2>3. h # Whole
    BY <1>3 DEF Suffix, Whole
  <2> QED BY <2>1, <2>2, <2>3 DEF Slice, Refused, SmallerOf, Numbers
<1>4. ASSUME NEW a \in Positions, h = From(a) PROVE Goal
  <2>1. Requested(h, sz) = {p \in 0 .. sz - 1 : p >= a}
    BY <1>4 DEF Requested, From, Positions
  <2>2. r = IF a < sz THEN Slice(a, sz - a) ELSE Refused
    BY <1>4 DEF parseRange, From, Positions
  <2>3. h # Whole
    BY <1>4 DEF From, Whole
  <2> QED BY <2>1, <2>2, <2>3 DEF Slice, Refused, Positions
<1>5. ASSUME NEW a \in Positions, NEW b \in Numbers, h = FromTo(a, b) PROVE Goal
  <2>1. Requested(h, sz) = {p \in 0 .. sz - 1 : a <= p /\ p <= b}
    BY <1>5 DEF Requested, FromTo, Positions
  <2>2. r = IF a < sz /\ a <= b THEN Slice(a, SmallerOf(b, sz - 1) - a + 1) ELSE Refused
    BY <1>5 DEF parseRange, FromTo, Positions
  <2>3. h # Whole
    BY <1>5 DEF FromTo, Whole
  <2> QED BY <2>1, <2>2, <2>3 DEF Slice, Refused, Positions, Numbers, SmallerOf
<1> QED BY <1>1, <1>2, <1>3, <1>4, <1>5 DEF Headers

(* Whole blocks and the rest of a block add up to the offset (crypto.go,          *)
(* NewCTRAt).                                                                       *)
LEMMA KeystreamIsAt ==
  ASSUME NEW offset \in Nat
  PROVE keystreamAt(offset) = offset
  BY BlockAssumption DEF keystreamAt
-----------------------------------------------------------------------------
\* What parseRange has returned, once it has been called.
RangeInv ==
  /\ pc \in {"seek", "copy", "broken"} =>
       size > 0 /\ range = parseRange(header, size) /\ range.ok
  /\ status \in {200, 206} /\ size > 0 =>
       range = parseRange(header, size) /\ range.ok
  /\ status = 416 => size > 0 /\ ~ parseRange(header, size).ok

\* Blob and keystream are at the same place, behind the last byte sent.
CopyInv ==
  /\ pc \in {"parse", "seek"} => status = 0 /\ body = <<>>
  /\ pc \in {"copy", "broken"} => status \in {200, 206} /\ ~ head
  /\ pc = "copy" => fpos = range.start + Len(body) /\ kpos = fpos
  /\ Len(body) > 0 => range.ok /\ Len(body) <= range.length
  /\ SendsPlaintext

IInv == TypeOK /\ RangeInv /\ CopyInv /\ BodyIsComplete

LEMMA InitIInv == Init => IInv
<1> SUFFICES ASSUME Init PROVE IInv
  OBVIOUS
<1>1. TypeOK
  BY SizeAssumption DEF Init, TypeOK, Refused
<1>2. RangeInv /\ CopyInv /\ BodyIsComplete
  BY DEF Init, RangeInv, CopyInv, BodyIsComplete, SendsPlaintext
<1> QED BY <1>1, <1>2 DEF IInv

\* What ParseRangeIsRequested says of the range of a state.
LEMMA RangeFacts ==
  ASSUME TypeOK, size > 0
  PROVE  LET r == parseRange(header, size) IN
           /\ r \in [ok : BOOLEAN, start : Nat, length : Nat]
           /\ r.ok => r.length >= 1 /\ r.start + r.length <= size
           /\ r.ok => r.start .. r.start + r.length - 1 = Requested(header, size)
           /\ ~ r.ok => Requested(header, size) = {}
<1>1. size \in 1 .. MaxSize /\ header \in Headers
  BY SizeAssumption DEF TypeOK
<1> QED BY <1>1, ParseRangeIsRequested

LEMMA StepIInv == IInv /\ [Next]_vars => IInv'
<1> SUFFICES ASSUME IInv, [Next]_vars PROVE IInv'
  OBVIOUS
<1> USE DEF IInv
<1>0. size \in Nat
  BY SizeAssumption DEF TypeOK
<1>1. CASE ServeEmpty
  <2>1. TypeOK'
    BY <1>1, <1>0 DEF ServeEmpty, TypeOK, request
  <2>2. RangeInv' /\ CopyInv' /\ BodyIsComplete'
    BY <1>1 DEF ServeEmpty, RangeInv, CopyInv, BodyIsComplete, SendsPlaintext, request
  <2> QED BY <2>1, <2>2
<1>2. CASE Parse
  <2>0. size > 0
    BY <1>2 DEF Parse
  <2>1. parseRange(header, size) \in [ok : BOOLEAN, start : Nat, length : Nat]
    BY <2>0, RangeFacts
  <2>2. TypeOK'
    BY <1>2, <2>1 DEF Parse, TypeOK, request
  <2>3. RangeInv'
    BY <1>2, <2>0 DEF Parse, RangeInv, CopyInv, request
  <2>4. CopyInv' /\ BodyIsComplete'
    BY <1>2 DEF Parse, CopyInv, BodyIsComplete, SendsPlaintext, request
  <2> QED BY <2>2, <2>3, <2>4
<1>3. CASE Seek
  <2>0. /\ size > 0 /\ range = parseRange(header, size) /\ range.ok
        /\ range.start \in Nat /\ range.length \in Nat
        /\ range.start + range.length <= size
    <3>1. size > 0 /\ range = parseRange(header, size) /\ range.ok
      BY <1>3 DEF Seek, RangeInv
    <3> QED BY <3>1, RangeFacts DEF TypeOK
  <2>1. kpos' = range.start /\ fpos' = range.start /\ body' = body /\ Len(body) = 0 /\ body = <<>>
    BY <1>3, <2>0, KeystreamIsAt DEF Seek, CopyInv
  <2>2. TypeOK'
    BY <1>0, <1>3, <2>0, <2>1 DEF Seek, TypeOK, request
  <2>3. RangeInv'
    BY <1>3, <2>0 DEF Seek, RangeInv, request
  <2>4. CopyInv' /\ BodyIsComplete'
    BY <1>3, <2>0, <2>1 DEF Seek, CopyInv, BodyIsComplete, SendsPlaintext, TypeOK, request
  <2> QED BY <2>2, <2>3, <2>4
<1>4. CASE SeekFails
  <2>1. TypeOK'
    BY <1>4 DEF SeekFails, TypeOK, request
  <2>2. RangeInv' /\ CopyInv' /\ BodyIsComplete'
    BY <1>4 DEF SeekFails, RangeInv, CopyInv, BodyIsComplete, SendsPlaintext, request
  <2> QED BY <2>1, <2>2
<1>5. CASE Copy
  <2>1. PICK n \in 1 .. SmallerOf(Buffer, Limit) :
          /\ fpos + n <= size /\ fpos' = fpos + n /\ kpos' = kpos + n
          /\ body' = body \o [i \in 1 .. n |-> Decrypted(fpos + i - 1, kpos + i - 1)]
    BY <1>5 DEF Copy
  <2>2. /\ range.start \in Nat /\ range.length \in Nat /\ range.ok
        /\ body \in Seq(Int) /\ Len(body) \in Nat /\ fpos \in Nat /\ kpos \in Nat
        /\ fpos = range.start + Len(body) /\ kpos = fpos /\ pc = "copy"
    BY <1>5, <1>0 DEF Copy, TypeOK, CopyInv, RangeInv
  <2>3. n \in Nat /\ n >= 1 /\ n <= range.length - Len(body)
    <3>1. Limit \in Int /\ Limit > 0 /\ Limit = range.length - Len(body) /\ Buffer \in Int
      BY <2>2, <1>5, BlockAssumption DEF Limit, Copy
    <3>2. SmallerOf(Buffer, Limit) \in Int /\ SmallerOf(Buffer, Limit) <= Limit
      BY <3>1 DEF SmallerOf
    <3> HIDE DEF Limit
    <3> QED BY <3>1, <3>2, <2>1
  <2> DEFINE chunk == [i \in 1 .. n |-> Decrypted(fpos + i - 1, kpos + i - 1)]
  <2>4. chunk \in Seq(Int) /\ Len(chunk) = n
    BY <2>2, <2>3 DEF Decrypted, Garbage
  <2>5. \A i \in 1 .. n : chunk[i] = fpos + i - 1
    BY <2>2, <2>3 DEF Decrypted
  <2> HIDE DEF chunk
  <2>6. body' \in Seq(Int) /\ Len(body') = Len(body) + n
    BY <2>1, <2>2, <2>4 DEF chunk
  <2>7. SendsPlaintext'
    <3> SUFFICES ASSUME NEW i \in 1 .. Len(body') PROVE body'[i] = range.start + i - 1
      BY <1>5 DEF Copy, SendsPlaintext
    <3>1. body' = body \o chunk
      BY <2>1 DEF chunk
    <3>2. CASE i <= Len(body)
      BY <3>1, <3>2, <2>2, <2>4, <2>6 DEF CopyInv, SendsPlaintext
    <3>3. CASE i > Len(body)
      <4>1. i - Len(body) \in 1 .. n
        BY <3>3, <2>2, <2>3, <2>6
      <4>2. body'[i] = chunk[i - Len(body)]
        BY <3>1, <3>3, <2>2, <2>4, <2>6
      <4>3. chunk[i - Len(body)] = fpos + (i - Len(body)) - 1
        BY <4>1, <2>5
      <4>4. i \in Int
        BY <2>2, <2>3, <2>6
      <4> QED BY <4>2, <4>3, <4>4, <2>2
    <3> QED BY <3>2, <3>3, <2>2, <2>3, <2>6
  <2>8. TypeOK'
    <3>1. fpos + n \in 0 .. size /\ kpos + n \in Nat
      BY <1>0, <2>1, <2>2, <2>3
    <3>2. UNCHANGED <<pc, size, header, head, range, status>>
      BY <1>5 DEF Copy, request
    <3> QED BY <2>1, <2>6, <3>1, <3>2 DEF TypeOK
  <2>9. RangeInv'
    BY <1>5 DEF Copy, RangeInv, request
  <2>10. CopyInv'
    <3>1. UNCHANGED <<pc, head, range, status>>
      BY <1>5 DEF Copy, request
    <3>2. Len(body') <= range.length /\ fpos' = range.start + Len(body') /\ kpos' = fpos'
      BY <2>1, <2>2, <2>3, <2>6
    <3>3. pc = "copy" /\ range.ok /\ status \in {200, 206} /\ ~ head
      BY <2>2 DEF CopyInv
    <3> QED BY <2>7, <3>1, <3>2, <3>3 DEF CopyInv
  <2>11. BodyIsComplete'
    BY <1>5, <2>2 DEF Copy, BodyIsComplete, request
  <2> QED BY <2>8, <2>9, <2>10, <2>11
<1>6. ASSUME NEW failed \in BOOLEAN, CopyEnds(failed) PROVE IInv'
  <2>1. TypeOK'
    BY <1>6 DEF CopyEnds, TypeOK, request
  <2>2. RangeInv' /\ CopyInv'
    BY <1>6 DEF CopyEnds, RangeInv, CopyInv, SendsPlaintext, request
  <2>3. ASSUME ~ failed PROVE Len(body) = range.length
    <3>1. /\ size > 0 /\ range = parseRange(header, size) /\ range.ok
          /\ fpos = range.start + Len(body)
      BY <1>6 DEF CopyEnds, RangeInv, CopyInv
    <3>2. /\ range.start \in Nat /\ range.length \in Nat /\ range.length >= 1
          /\ range.start + range.length <= size /\ Len(body) \in Nat
      BY <3>1, RangeFacts DEF TypeOK
    <3>3. Len(body) <= range.length
      BY <3>2 DEF CopyInv
    <3> QED BY <3>1, <3>2, <3>3, <2>3, <1>6, <1>0 DEF CopyEnds, Limit
  <2>4. BodyIsComplete'
    BY <1>6, <2>3 DEF CopyEnds, BodyIsComplete, CopyInv, request
  <2> QED BY <2>1, <2>2, <2>4
<1>7. CASE UNCHANGED vars
  <2>1. TypeOK'
    BY <1>7 DEF vars, TypeOK
  <2>2. RangeInv' /\ CopyInv' /\ BodyIsComplete'
    BY <1>7 DEF vars, RangeInv, CopyInv, BodyIsComplete, SendsPlaintext
  <2> QED BY <2>1, <2>2
<1> QED BY <1>1, <1>2, <1>3, <1>4, <1>5, <1>6, <1>7 DEF Next

(* The inductive invariant holds in every state of serveDecrypted.                 *)
THEOREM Invariance == Spec => []IInv
<1>1. Init => IInv
  BY InitIInv
<1>2. IInv /\ [Next]_vars => IInv'
  BY StepIInv
<1> QED BY <1>1, <1>2, PTL DEF Spec

(* Content-Length and Content-Range announce exactly the part of the file the      *)
(* header asks for, and 416 is answered only if that part is empty (handler.go,    *)
(* parseRange and serveDecrypted).                                                 *)
THEOREM RangesAreHonest == Spec => []AnnouncesWhatWasAsked
<1>1. IInv => AnnouncesWhatWasAsked
  <2> SUFFICES ASSUME IInv PROVE AnnouncesWhatWasAsked
    OBVIOUS
  <2>1. CASE size > 0
    <3>1. ASSUME status \in {200, 206} PROVE Announced = Requested(header, size) /\ Announced # {}
      <4>1. range = parseRange(header, size) /\ range.ok
        BY <2>1, <3>1 DEF IInv, RangeInv
      <4>2. /\ Announced = Requested(header, size)
            /\ range.start \in Nat /\ range.length \in Nat /\ range.length >= 1
        BY <2>1, <4>1, RangeFacts DEF IInv, Announced
      <4>3. range.start \in Announced
        BY <4>2 DEF Announced
      <4> QED BY <4>2, <4>3
    <3>2. ASSUME status = 416 PROVE Requested(header, size) = {}
      BY <2>1, <3>2, RangeFacts DEF IInv, RangeInv
    <3> QED BY <3>1, <3>2 DEF AnnouncesWhatWasAsked
  <2>2. CASE ~ size > 0
    BY <2>2 DEF IInv, RangeInv, AnnouncesWhatWasAsked
  <2> QED BY <2>1, <2>2
<1> QED BY <1>1, Invariance, PTL

(* Every variable has its type, whatever the header asks for.                      *)
THEOREM TypeCorrect == Spec => []TypeOK
<1>1. IInv => TypeOK
  BY DEF IInv
<1> QED BY <1>1, Invariance, PTL

(* At whatever offset a download starts and however the reads cut it up, each byte *)
(* sent is the plaintext byte of its place (crypto.go, NewCTRAt; handler.go,       *)
(* decryptReader).                                                                 *)
THEOREM PlaintextIsSent == Spec => []SendsPlaintext
<1>1. IInv => SendsPlaintext
  BY DEF IInv, CopyInv
<1> QED BY <1>1, Invariance, PTL

(* An answer that is not broken off has the body its Content-Length announces      *)
(* (handler.go, serveDecrypted).                                                   *)
THEOREM BodiesAreComplete == Spec => []BodyIsComplete
<1>1. IInv => BodyIsComplete
  BY DEF IInv
<1> QED BY <1>1, Invariance, PTL

(***************************************************************************)
(* Induction.  The prover cannot be given the predicate of the induction   *)
(* rule, but a set has least elements, because < is well-founded.          *)
(***************************************************************************)

\* A set of natural numbers that is not empty has a least element.
LEMMA LeastElement ==
  ASSUME NEW S, S \subseteq Nat, S # {}
  PROVE  \E m \in S : \A k \in S : m <= k
  <1> DEFINE R == OpToRel(<, Nat)
  <1>1. PICK m \in S : \A k \in S : <<k, m>> \notin R
    <2> HIDE DEF R
    <2> QED BY WFMin, NatLessThanWellFounded DEF R
  <1>2. \A k \in S : ~ k < m
    BY <1>1 DEF OpToRel
  <1> HIDE DEF R
  <1>3. m \in Nat /\ \A k \in S : k \in Nat
    OBVIOUS
  <1> QED BY <1>2, <1>3

\* Induction over the natural numbers, for a set instead of a predicate.
LEMMA Induction ==
  ASSUME NEW S, 0 \in S, \A n \in Nat : n \in S => n + 1 \in S
  PROVE  \A n \in Nat : n \in S
  <1> SUFFICES ASSUME Nat \ S # {} PROVE FALSE
    OBVIOUS
  <1>1. PICK m \in Nat \ S : \A k \in Nat \ S : m <= k
    BY LeastElement
  <1>2. m # 0 /\ m - 1 \in Nat
    BY <1>1
  <1>3. m - 1 \in S
    BY <1>1, <1>2
  <1> QED BY <1>1, <1>2, <1>3

(***************************************************************************)
(* The walk of cipher.NewCTR.                                              *)
(***************************************************************************)

\* What the definition of Walk says of the function it chooses.
IsWalk(g, c, n) == g = [k \in 0 .. n |-> IF k = 0 THEN c ELSE Increment(g[k - 1])]

LEMMA WalkExists ==
  ASSUME NEW c
  PROVE  \A n \in Nat : \E g : IsWalk(g, c, n)
  <1> DEFINE S == {n \in Nat : \E g : IsWalk(g, c, n)}
  <1>1. 0 \in S
    <2>1. IsWalk([k \in 0 .. 0 |-> c], c, 0)
      BY DEF IsWalk
    <2> QED BY <2>1
  <1>2. ASSUME NEW n \in Nat, n \in S PROVE n + 1 \in S
    <2>1. PICK g : IsWalk(g, c, n)
      BY <1>2
    <2> DEFINE h == [k \in 0 .. n + 1 |-> IF k = n + 1 THEN Increment(g[n]) ELSE g[k]]
    <2>2. ASSUME NEW k \in 0 .. n + 1
          PROVE  h[k] = IF k = 0 THEN c ELSE Increment(h[k - 1])
      <3>1. CASE k = n + 1
        BY <3>1
      <3>2. CASE k \in 0 .. n
        <4>1. g[k] = IF k = 0 THEN c ELSE Increment(g[k - 1])
          BY <2>1, <3>2 DEF IsWalk
        <4>2. h[k] = g[k] /\ (k # 0 => h[k - 1] = g[k - 1])
          BY <3>2
        <4> HIDE DEF h
        <4> QED BY <4>1, <4>2
      <3> QED BY <3>1, <3>2
    <2>3. IsWalk(h, c, n + 1)
      <3>1. h = [k \in 0 .. n + 1 |-> h[k]]
        OBVIOUS
      <3> HIDE DEF h
      <3> QED BY <2>2, <3>1 DEF IsWalk
    <2> QED BY <2>3
  <1> HIDE DEF S
  <1>3. \A n \in Nat : n \in S
    BY <1>1, <1>2, Induction
  <1> QED BY <1>3 DEF S

LEMMA WalkIsUnique ==
  ASSUME NEW c, NEW n \in Nat, NEW g, NEW h, IsWalk(g, c, n), IsWalk(h, c, n)
  PROVE  g[n] = h[n]
  <1> DEFINE S == {k \in Nat : k <= n => g[k] = h[k]}
  <1>1. 0 \in S
    BY DEF IsWalk
  <1>2. ASSUME NEW k \in Nat, k \in S PROVE k + 1 \in S
    <2> SUFFICES ASSUME k + 1 <= n PROVE g[k + 1] = h[k + 1]
      OBVIOUS
    <2>1. g[k] = h[k]
      BY <1>2
    <2>2. g[k + 1] = Increment(g[k]) /\ h[k + 1] = Increment(h[k])
      BY DEF IsWalk
    <2> QED BY <2>1, <2>2
  <1> HIDE DEF S
  <1>3. n \in S
    BY <1>1, <1>2, Induction
  <1> QED BY <1>3 DEF S

\* The recursion in the definition of Walk.
LEMMA WalkUnfolds ==
  ASSUME NEW c, NEW n \in Nat
  PROVE  /\ Walk(c, 0) = c
         /\ Walk(c, n + 1) = Increment(Walk(c, n))
  <1>1. ASSUME NEW m \in Nat, NEW g, IsWalk(g, c, m) PROVE Walk(c, m) = g[m]
    <2> DEFINE w == CHOOSE w : w = [k \in 0 .. m |-> IF k = 0 THEN c ELSE Increment(w[k - 1])]
    <2>1. Walk(c, m) = w[m]
      BY DEF Walk
    <2>2. IsWalk(w, c, m)
      BY <1>1 DEF IsWalk
    <2> HIDE DEF w
    <2> QED BY <1>1, <2>1, <2>2, WalkIsUnique
  <1>2. Walk(c, 0) = c
    <2>1. PICK g : IsWalk(g, c, 0)
      BY WalkExists
    <2>2. g[0] = c
      BY <2>1 DEF IsWalk
    <2> QED BY <1>1, <2>1, <2>2
  <1>3. Walk(c, n + 1) = Increment(Walk(c, n))
    <2>1. PICK g : IsWalk(g, c, n + 1)
      BY WalkExists
    <2> DEFINE h == [k \in 0 .. n |-> g[k]]
    <2>2. ASSUME NEW k \in 0 .. n PROVE h[k] = IF k = 0 THEN c ELSE Increment(h[k - 1])
      <3>1. g[k] = IF k = 0 THEN c ELSE Increment(g[k - 1])
        BY <2>1 DEF IsWalk
      <3> QED BY <3>1
    <2>3. IsWalk(h, c, n)
      <3>1. h = [k \in 0 .. n |-> h[k]]
        OBVIOUS
      <3> HIDE DEF h
      <3> QED BY <2>2, <3>1 DEF IsWalk
    <2>4. g[n + 1] = Increment(h[n])
      BY <2>1 DEF IsWalk
    <2> HIDE DEF h
    <2> QED BY <1>1, <2>1, <2>3, <2>4
  <1> QED BY <1>2, <1>3

\* To walk is to walk on.
LEMMA WalkAdds ==
  ASSUME NEW c, NEW a \in Nat
  PROVE  \A b \in Nat : Walk(Walk(c, a), b) = Walk(c, a + b)
  <1> DEFINE S == {b \in Nat : Walk(Walk(c, a), b) = Walk(c, a + b)}
  <1>1. 0 \in S
    BY WalkUnfolds
  <1>2. ASSUME NEW b \in Nat, b \in S PROVE b + 1 \in S
    <2>1. Walk(Walk(c, a), b + 1) = Increment(Walk(Walk(c, a), b))
      BY WalkUnfolds
    <2>2. Walk(c, (a + b) + 1) = Increment(Walk(c, a + b))
      BY WalkUnfolds
    <2>3. (a + b) + 1 = a + (b + 1)
      OBVIOUS
    <2> QED BY <1>2, <2>1, <2>2, <2>3
  <1> HIDE DEF S
  <1>3. \A b \in Nat : b \in S
    BY <1>1, <1>2, Induction
  <1> QED BY <1>3 DEF S

(***************************************************************************)
(* One turn of the loop of NewCTRAt.                                       *)
(***************************************************************************)

\* The carry out of a digit and what stays in it are quotient and remainder.
LEMMA DivMod ==
  ASSUME NEW n \in Nat, NEW b \in Nat \ {0}
  PROVE  /\ n \div b \in Nat /\ n % b \in 0 .. b - 1
         /\ n = b * (n \div b) + (n % b)
  OBVIOUS

\* A larger number has no smaller quotient.
LEMMA QuotientGrows ==
  ASSUME NEW b \in Nat \ {0}, NEW m \in Nat, NEW n \in Nat, m <= n
  PROVE  m \div b <= n \div b
  OBVIOUS

\* Multiplication distributes over addition.
LEMMA Distributes ==
  ASSUME NEW a \in Nat, NEW b \in Nat, NEW k \in Nat
  PROVE k * (a + b) = k * a + k * b
  OBVIOUS

\* A turn of the loop at digit i changes no other digit, and what it takes from the
\* carry it puts into the digit: digit + carry = digit' + Base * carry' (crypto.go,
\* NewCTRAt).
THEOREM TurnKeepsTheSum ==
  ASSUME NEW c \in Counter, NEW n \in Nat, NEW i \in 1 .. Width
  PROVE  LET t == Turn([ctr |-> c, carry |-> n], i)
         IN /\ t.ctr \in Counter /\ t.carry \in Nat
            /\ \A j \in (1 .. Width) \ {i} : t.ctr[j] = c[j]
            /\ t.ctr[i] + Base * t.carry = c[i] + n
  <1> DEFINE t == Turn([ctr |-> c, carry |-> n], i)
             digit == n % Base
             sum == c[i] + digit
  <1>1. Base \in Nat \ {0} /\ c[i] \in 0 .. Base - 1
    BY CounterAssumption DEF Counter
  <1>2. CASE n = 0
    <2>1. t = [ctr |-> c, carry |-> n]
      BY <1>2 DEF Turn
    <2> QED BY <2>1, <1>1, <1>2
  <1>3. CASE n # 0
    <2>1. t = [ctr |-> [c EXCEPT ![i] = sum % Base],
               carry |-> (n \div Base) + (sum \div Base)]
      BY <1>3 DEF Turn
    <2>2. /\ n \div Base \in Nat /\ digit \in 0 .. Base - 1
          /\ n = Base * (n \div Base) + digit
      BY <1>1, DivMod
    <2>3. sum \in Nat
      BY <1>1, <2>2
    <2>4. /\ sum \div Base \in Nat /\ sum % Base \in 0 .. Base - 1
          /\ sum = Base * (sum \div Base) + (sum % Base)
      BY <1>1, <2>3, DivMod
    <2> DEFINE taken == Base * (n \div Base)
               over == Base * (sum \div Base)
               rest == sum % Base
    <2>5. t.ctr = [c EXCEPT ![i] = rest] /\ t.carry = (n \div Base) + (sum \div Base)
      <3> HIDE DEF t, sum
      <3> QED BY <2>1
    <2>6. Base * t.carry = taken + over /\ t.carry \in Nat
      <3>1. Base * ((n \div Base) + (sum \div Base)) = taken + over
        BY <1>1, <2>2, <2>4, Distributes
      <3>2. t.carry = (n \div Base) + (sum \div Base)
        BY <2>5
      <3>3. Base * t.carry = taken + over
        <4> HIDE DEF t, taken, over, sum
        <4> QED BY <3>1, <3>2
      <3>4. t.carry \in Nat
        <4> HIDE DEF t, sum
        <4> QED BY <3>2, <2>2, <2>4
      <3> QED BY <3>3, <3>4
    <2>7. /\ t.ctr \in Counter /\ t.ctr[i] = rest
          /\ \A j \in (1 .. Width) \ {i} : t.ctr[j] = c[j]
      <3>1. rest \in 0 .. Base - 1
        BY <2>4
      <3> HIDE DEF t, sum, rest
      <3> QED BY <2>5, <3>1 DEF Counter
    <2>8. t.ctr[i] + Base * t.carry = c[i] + n
      <3>1. sum = c[i] + digit /\ n = taken + digit /\ sum = over + rest
        BY <2>2, <2>4
      <3>2. taken \in Nat /\ over \in Nat /\ rest \in Nat /\ digit \in Nat
        BY <1>1, <2>2, <2>4
      <3> HIDE DEF t, sum, rest, digit, taken, over
      <3> QED BY <1>1, <2>3, <2>6, <2>7, <3>1, <3>2
    <2> QED BY <2>6, <2>7, <2>8
  <1> QED BY <1>2, <1>3


\* Digit d with the carry q, and e with r, are the same number, or the next one.
Same(b, d, q, e, r) == d + b * q = e + b * r
OneMore(b, d, q, e, r) == e + b * r = d + b * q + 1

\* A number has one quotient and one remainder.
LEMMA DigitIsUnique ==
  ASSUME NEW b \in Nat \ {0}, NEW d \in 0 .. b - 1, NEW e \in 0 .. b - 1,
         NEW q \in Nat, NEW r \in Nat, Same(b, d, q, e, r)
  PROVE  d = e /\ q = r
  <1> USE DEF Same
  <1>1. CASE q = r
    <2>1. b * q \in Nat
      OBVIOUS
    <2> QED BY <1>1, <2>1
  <1>2. ASSUME NEW x \in Nat, NEW y \in Nat, NEW f \in 0 .. b - 1, NEW g \in 0 .. b - 1,
               f + b * x = g + b * y, x < y
        PROVE  FALSE
    <2>1. PICK z \in Nat : y = x + (z + 1)
      <3>1. y = x + ((y - x - 1) + 1) /\ y - x - 1 \in Nat
        BY <1>2
      <3> QED BY <3>1
    <2>2. b * y = b * x + b * (z + 1) /\ b * (z + 1) = b * z + b * 1
      BY <2>1, Distributes
    <2>3. b * x \in Nat /\ b * z \in Nat /\ b * 1 = b
      BY <2>1
    <2> DEFINE bx == b * x
               bz == b * z
               bz1 == b * (z + 1)
               by == b * y
               b1 == b * 1
    <2>4. f + bx = g + by /\ by = bx + bz1 /\ bz1 = bz + b1 /\ bx \in Nat /\ bz \in Nat /\ b1 = b
      BY <1>2, <2>2, <2>3
    <2> HIDE DEF bx, bz, bz1, by, b1
    <2> QED BY <1>2, <2>4
  <1>3. q < r \/ r < q \/ q = r
    OBVIOUS
  <1> QED BY <1>1, <1>2, <1>3

\* One more makes the digit one more, or 0 with a carry.
LEMMA DigitAfterOneMore ==
  ASSUME NEW b \in Nat \ {0}, NEW d \in 0 .. b - 1, NEW e \in 0 .. b - 1,
         NEW q \in Nat, NEW r \in Nat, OneMore(b, d, q, e, r)
  PROVE  /\ e = (d + 1) % b
         /\ r = IF d = b - 1 THEN q + 1 ELSE q
  <1> USE DEF OneMore
  <1>1. b * q \in Nat /\ b * (q + 1) = b * q + b * 1 /\ b * 1 = b
    BY Distributes
  <1>2. CASE d = b - 1
    <2>1. e + b * r = 0 + b * (q + 1)
      <3> DEFINE bq == b * q
                 bq1 == b * (q + 1)
                 br == b * r
      <3>1. e + br = d + bq + 1 /\ bq1 = bq + b /\ bq \in Nat
        BY <1>1
      <3> HIDE DEF bq, bq1, br
      <3>2. e + br = 0 + bq1
        BY <3>1, <1>2
      <3> QED BY <3>2 DEF bq1, br
    <2>2. e = 0 /\ r = q + 1
      BY <2>1, DigitIsUnique DEF Same
    <2>3. (d + 1) % b = 0
      <3>1. d + 1 = b /\ b % b = 0
        BY <1>2
      <3> QED BY <3>1
    <2> QED BY <1>2, <2>2, <2>3
  <1>3. CASE d # b - 1
    <2>1. e + b * r = (d + 1) + b * q
      <3> DEFINE bq == b * q
                 br == b * r
      <3>1. e + br = d + bq + 1 /\ bq \in Nat
        BY <1>1
      <3> HIDE DEF bq, br
      <3>2. e + br = (d + 1) + bq
        BY <3>1
      <3> QED BY <3>2 DEF bq, br
    <2>2. d + 1 \in 0 .. b - 1
      BY <1>3
    <2>3. e = d + 1 /\ r = q
      BY <2>1, <2>2, DigitIsUnique DEF Same
    <2>4. (d + 1) % b = d + 1
      BY <2>2
    <2> QED BY <1>3, <2>3, <2>4
  <1> QED BY <1>2, <1>3
(***************************************************************************)
(* The loop of NewCTRAt.  For a carry of n + 1 it stays one increment      *)
(* ahead of the loop for n, digit by digit.                                *)
(***************************************************************************)

\* What the definition of Advanced says of the function it chooses: the loop over the
\* digits of c, for a carry of n.
IsLoop(g, c, n) ==
  g = [k \in 0 .. Width |->
         IF k = 0 THEN [ctr |-> c, carry |-> n] ELSE Turn(g[k - 1], Width + 1 - k)]

\* The first turns of it, up to m.
IsLoopUpTo(g, c, n, m) ==
  g = [k \in 0 .. m |->
         IF k = 0 THEN [ctr |-> c, carry |-> n] ELSE Turn(g[k - 1], Width + 1 - k)]

LEMMA LoopExists ==
  ASSUME NEW c, NEW n
  PROVE  \E g : IsLoop(g, c, n)
  <1> DEFINE S == {m \in Nat : \E g : IsLoopUpTo(g, c, n, m)}
  <1>1. 0 \in S
    <2>1. IsLoopUpTo([k \in 0 .. 0 |-> [ctr |-> c, carry |-> n]], c, n, 0)
      BY DEF IsLoopUpTo
    <2> QED BY <2>1
  <1>2. ASSUME NEW m \in Nat, m \in S PROVE m + 1 \in S
    <2>1. PICK g : IsLoopUpTo(g, c, n, m)
      BY <1>2
    <2> DEFINE h == [k \in 0 .. m + 1 |-> IF k = m + 1 THEN Turn(g[m], Width + 1 - k) ELSE g[k]]
    <2>2. ASSUME NEW k \in 0 .. m + 1
          PROVE  h[k] = IF k = 0 THEN [ctr |-> c, carry |-> n] ELSE Turn(h[k - 1], Width + 1 - k)
      <3>1. CASE k = m + 1
        BY <3>1
      <3>2. CASE k \in 0 .. m
        <4>1. g[k] = IF k = 0 THEN [ctr |-> c, carry |-> n] ELSE Turn(g[k - 1], Width + 1 - k)
          BY <2>1, <3>2 DEF IsLoopUpTo
        <4>2. h[k] = g[k] /\ (k # 0 => h[k - 1] = g[k - 1])
          BY <3>2
        <4> HIDE DEF h
        <4> QED BY <4>1, <4>2
      <3> QED BY <3>1, <3>2
    <2>3. IsLoopUpTo(h, c, n, m + 1)
      <3>1. h = [k \in 0 .. m + 1 |-> h[k]]
        OBVIOUS
      <3> HIDE DEF h
      <3> QED BY <2>2, <3>1 DEF IsLoopUpTo
    <2> QED BY <2>3
  <1> HIDE DEF S
  <1>3. Width \in S
    BY <1>1, <1>2, Induction, CounterAssumption
  <1>4. PICK g : IsLoopUpTo(g, c, n, Width)
    BY <1>3 DEF S
  <1>5. IsLoop(g, c, n)
    BY <1>4 DEF IsLoop, IsLoopUpTo
  <1> QED BY <1>5

\* The digits that k turns have passed.
Low(k) == Width - k + 1 .. Width

\* Two loops over the same digits whose carries differ by one: the digits passed by the
\* second are those passed by the first, incremented, and what the increment carries out
\* of them is in the carry.
OneAhead(c, s, t, k) ==
  /\ s \in [ctr : Counter, carry : Nat] /\ t \in [ctr : Counter, carry : Nat]
  /\ \A i \in 1 .. Width - k : s.ctr[i] = c[i] /\ t.ctr[i] = c[i]
  /\ \A i \in Low(k) : t.ctr[i] = Increment(s.ctr)[i]
  /\ t.carry = s.carry + IF \A i \in Low(k) : s.ctr[i] = Base - 1 THEN 1 ELSE 0

LEMMA TurnKeepsOneAhead ==
  ASSUME NEW c \in Counter, NEW s, NEW t, NEW k \in 0 .. Width - 1, OneAhead(c, s, t, k)
  PROVE  OneAhead(c, Turn(s, Width - k), Turn(t, Width - k), k + 1)
  <1> DEFINE i == Width - k
             u == Turn(s, i)
             v == Turn(t, i)
  <1>0. Width \in Nat \ {0} /\ Base \in Nat \ {0, 1} /\ i \in 1 .. Width /\ i \in Nat
    BY CounterAssumption
  <1>1. /\ s.ctr \in Counter /\ s.carry \in Nat /\ s = [ctr |-> s.ctr, carry |-> s.carry]
        /\ t.ctr \in Counter /\ t.carry \in Nat /\ t = [ctr |-> t.ctr, carry |-> t.carry]
    BY DEF OneAhead
  <1>2. /\ u.ctr \in Counter /\ u.carry \in Nat
        /\ \A j \in (1 .. Width) \ {i} : u.ctr[j] = s.ctr[j]
        /\ u.ctr[i] + Base * u.carry = s.ctr[i] + s.carry
    <2> HIDE DEF i
    <2>1. LET w == Turn([ctr |-> s.ctr, carry |-> s.carry], i)
          IN  /\ w.ctr \in Counter /\ w.carry \in Nat
              /\ \A j \in (1 .. Width) \ {i} : w.ctr[j] = s.ctr[j]
              /\ w.ctr[i] + Base * w.carry = s.ctr[i] + s.carry
      BY <1>0, <1>1, TurnKeepsTheSum
    <2> QED BY <1>1, <2>1
  <1>3. /\ v.ctr \in Counter /\ v.carry \in Nat
        /\ \A j \in (1 .. Width) \ {i} : v.ctr[j] = t.ctr[j]
        /\ v.ctr[i] + Base * v.carry = t.ctr[i] + t.carry
    <2> HIDE DEF i
    <2>1. LET w == Turn([ctr |-> t.ctr, carry |-> t.carry], i)
          IN  /\ w.ctr \in Counter /\ w.carry \in Nat
              /\ \A j \in (1 .. Width) \ {i} : w.ctr[j] = t.ctr[j]
              /\ w.ctr[i] + Base * w.carry = t.ctr[i] + t.carry
      BY <1>0, <1>1, TurnKeepsTheSum
    <2> QED BY <1>1, <2>1
  <1>4. u \in [ctr : Counter, carry : Nat] /\ v \in [ctr : Counter, carry : Nat]
    <2>1. \A w \in [ctr : Counter, carry : Nat], j \in 1 .. Width :
             DOMAIN w = {"ctr", "carry"} => Turn(w, j) = [ctr |-> Turn(w, j).ctr, carry |-> Turn(w, j).carry]
      BY DEF Turn
    <2>2. s \in [ctr : Counter, carry : Nat] /\ t \in [ctr : Counter, carry : Nat]
      BY <1>1
    <2> HIDE DEF i
    <2> QED BY <1>0, <1>2, <1>3, <2>1, <2>2
  <1> HIDE DEF u, v, i
  <1>5. /\ s.ctr[i] = c[i] /\ t.ctr[i] = c[i]
        /\ c[i] \in 0 .. Base - 1 /\ u.ctr[i] \in 0 .. Base - 1 /\ v.ctr[i] \in 0 .. Base - 1
    <2>1. i \in 1 .. Width - k
      BY <1>0 DEF i
    <2> QED BY <2>1, <1>0, <1>2, <1>3 DEF OneAhead, Counter
  <1>6. Low(k + 1) = {i} \cup Low(k) /\ Low(k) = i + 1 .. Width /\ i \notin Low(k)
    BY <1>0 DEF Low, i
  <1>7. \A j \in Low(k) : u.ctr[j] = s.ctr[j] /\ v.ctr[j] = t.ctr[j]
    BY <1>0, <1>2, <1>3, <1>6
  <1>8. \A j \in 1 .. Width - (k + 1) : u.ctr[j] = c[j] /\ v.ctr[j] = c[j]
    <2>1. \A j \in 1 .. Width - (k + 1) : j \in 1 .. Width - k /\ j \in (1 .. Width) \ {i}
      BY <1>0 DEF i
    <2> QED BY <2>1, <1>2, <1>3 DEF OneAhead
  <1>9. \A j \in Low(k) : v.ctr[j] = Increment(u.ctr)[j]
    <2> TAKE j \in Low(k)
    <2>1. v.ctr[j] = Increment(s.ctr)[j]
      BY <1>7 DEF OneAhead
    <2>2. j \in 1 .. Width /\ \A l \in j + 1 .. Width : l \in Low(k)
      BY <1>0, <1>6
    <2>3. Increment(s.ctr)[j] = Increment(u.ctr)[j]
      BY <2>2, <1>7 DEF Increment
    <2> QED BY <2>1, <2>3
  <1> DEFINE full == \A j \in Low(k) : u.ctr[j] = Base - 1
  <1>10. full <=> \A j \in Low(k) : s.ctr[j] = Base - 1
    BY <1>7
  <1>11. Increment(u.ctr)[i] = IF full THEN (u.ctr[i] + 1) % Base ELSE u.ctr[i]
    BY <1>0, <1>6 DEF Increment
  <1>12. (\A j \in Low(k + 1) : u.ctr[j] = Base - 1) <=> full /\ u.ctr[i] = Base - 1
    BY <1>6
  <1>13. /\ Base \in Nat \ {0} /\ u.ctr[i] \in 0 .. Base - 1 /\ v.ctr[i] \in 0 .. Base - 1
         /\ u.carry \in Nat /\ v.carry \in Nat
    BY <1>0, <1>2, <1>3, <1>5
  <1>14. CASE full
    <2>1. t.carry = s.carry + 1
      BY <1>10, <1>14 DEF OneAhead
    <2>2. v.ctr[i] + Base * v.carry = u.ctr[i] + Base * u.carry + 1
      <3> DEFINE bu == Base * u.carry
                 bv == Base * v.carry
      <3>1. bu \in Nat /\ bv \in Nat
        BY <1>0, <1>2, <1>3
      <3>2. u.ctr[i] + bu = c[i] + s.carry /\ v.ctr[i] + bv = c[i] + t.carry
        BY <1>2, <1>3, <1>5
      <3> HIDE DEF bu, bv
      <3>3. v.ctr[i] + bv = u.ctr[i] + bu + 1
        BY <1>0, <1>1, <1>5, <2>1, <3>1, <3>2
      <3> QED BY <3>3 DEF bu, bv
    <2>3. /\ v.ctr[i] = (u.ctr[i] + 1) % Base
          /\ v.carry = IF u.ctr[i] = Base - 1 THEN u.carry + 1 ELSE u.carry
      <3>1. OneMore(Base, u.ctr[i], u.carry, v.ctr[i], v.carry)
        BY <2>2 DEF OneMore
      <3> QED BY <1>13, <3>1, DigitAfterOneMore
    <2>4. v.ctr[i] = Increment(u.ctr)[i]
      BY <1>11, <1>14, <2>3
    <2>5. v.carry = u.carry + IF \A j \in Low(k + 1) : u.ctr[j] = Base - 1 THEN 1 ELSE 0
      BY <1>2, <1>3, <1>12, <1>14, <2>3
    <2>6. \A j \in Low(k + 1) : v.ctr[j] = Increment(u.ctr)[j]
      BY <1>6, <1>9, <2>4
    <2>7. OneAhead(c, u, v, k + 1)
      BY <1>4, <1>8, <2>5, <2>6 DEF OneAhead
    <2> QED BY <2>7 DEF u, v, i
  <1>15. CASE ~ full
    <2>1. t.carry = s.carry
      BY <1>1, <1>10, <1>15 DEF OneAhead
    <2>2. v.ctr[i] = u.ctr[i] /\ v.carry = u.carry
      <3>1. v.ctr[i] + Base * v.carry = u.ctr[i] + Base * u.carry
        BY <1>2, <1>3, <1>5, <2>1
      <3>2. Same(Base, v.ctr[i], v.carry, u.ctr[i], u.carry)
        BY <3>1 DEF Same
      <3> QED BY <1>13, <3>2, DigitIsUnique
    <2>3. v.ctr[i] = Increment(u.ctr)[i]
      BY <1>11, <1>15, <2>2
    <2>4. v.carry = u.carry + IF \A j \in Low(k + 1) : u.ctr[j] = Base - 1 THEN 1 ELSE 0
      BY <1>2, <1>12, <1>15, <2>2
    <2>5. \A j \in Low(k + 1) : v.ctr[j] = Increment(u.ctr)[j]
      BY <1>6, <1>9, <2>3
    <2>6. OneAhead(c, u, v, k + 1)
      BY <1>4, <1>8, <2>4, <2>5 DEF OneAhead
    <2> QED BY <2>6 DEF u, v, i
  <1> QED BY <1>14, <1>15

\* After n + 1 blocks the counter is one increment further than after n.
LEMMA AdvancedStep ==
  ASSUME iv \in Counter, NEW n \in Nat
  PROVE  Advanced(n) \in Counter /\ Advanced(n + 1) = Increment(Advanced(n))
  <1>0. Width \in Nat \ {0} /\ Base \in Nat \ {0, 1}
    BY CounterAssumption
  <1>1. ASSUME NEW m \in Nat PROVE \E g : IsLoop(g, iv, m) /\ Advanced(m) = g[Width].ctr
    <2> DEFINE after == CHOOSE after : after =
                 [k \in 0 .. Width |->
                    IF k = 0 THEN [ctr |-> iv, carry |-> m] ELSE Turn(after[k - 1], Width + 1 - k)]
    <2>1. Advanced(m) = after[Width].ctr
      BY DEF Advanced
    <2>2. IsLoop(after, iv, m)
      <3>1. \E g : IsLoop(g, iv, m)
        BY LoopExists
      <3> QED BY <3>1, Zenon DEF IsLoop
    <2> HIDE DEF after
    <2> QED BY <2>1, <2>2
  <1>2. PICK g : IsLoop(g, iv, n) /\ Advanced(n) = g[Width].ctr
    BY <1>1
  <1>3. PICK h : IsLoop(h, iv, n + 1) /\ Advanced(n + 1) = h[Width].ctr
    BY <1>1
  <1> DEFINE S == {k \in Nat : k <= Width => OneAhead(iv, g[k], h[k], k)}
  <1>4. 0 \in S
    <2>1. g[0] = [ctr |-> iv, carry |-> n] /\ h[0] = [ctr |-> iv, carry |-> n + 1]
      BY <1>0, <1>2, <1>3 DEF IsLoop
    <2>2. Low(0) = {}
      BY <1>0 DEF Low
    <2>3. OneAhead(iv, g[0], h[0], 0)
      BY <1>0, <2>1, <2>2 DEF OneAhead
    <2> QED BY <2>3
  <1>5. ASSUME NEW k \in Nat, k \in S PROVE k + 1 \in S
    <2> SUFFICES ASSUME k + 1 <= Width PROVE OneAhead(iv, g[k + 1], h[k + 1], k + 1)
      OBVIOUS
    <2>1. k \in 0 .. Width - 1 /\ OneAhead(iv, g[k], h[k], k)
      BY <1>0, <1>5
    <2>2. g[k + 1] = Turn(g[k], Width - k) /\ h[k + 1] = Turn(h[k], Width - k)
      <3>1. k + 1 \in 0 .. Width /\ k + 1 # 0 /\ (k + 1) - 1 = k /\ Width + 1 - (k + 1) = Width - k
        BY <1>0
      <3>2. /\ g[k + 1] = Turn(g[(k + 1) - 1], Width + 1 - (k + 1))
            /\ h[k + 1] = Turn(h[(k + 1) - 1], Width + 1 - (k + 1))
        BY <1>2, <1>3, <3>1 DEF IsLoop
      <3> QED BY <3>1, <3>2
    <2> QED BY <2>1, <2>2, TurnKeepsOneAhead
  <1> HIDE DEF S
  <1>6. OneAhead(iv, g[Width], h[Width], Width)
    <2>1. \A k \in Nat : k \in S
      BY <1>4, <1>5, Induction
    <2> QED BY <1>0, <2>1 DEF S
  <1>7. g[Width].ctr \in Counter /\ h[Width].ctr \in Counter
    BY <1>6 DEF OneAhead
  <1>8. Low(Width) = 1 .. Width
    BY <1>0 DEF Low
  <1>9. \A i \in 1 .. Width : h[Width].ctr[i] = Increment(g[Width].ctr)[i]
    BY <1>6, <1>8 DEF OneAhead
  <1>10. h[Width].ctr = Increment(g[Width].ctr)
    <2> DEFINE x == h[Width].ctr
               y == Increment(g[Width].ctr)
    <2>1. x = [i \in 1 .. Width |-> x[i]]
      BY <1>7 DEF Counter
    <2>2. y = [i \in 1 .. Width |-> y[i]]
      BY DEF Increment
    <2>3. \A i \in 1 .. Width : x[i] = y[i]
      BY <1>9
    <2> HIDE DEF x, y
    <2>4. x = y
      BY <2>1, <2>2, <2>3
    <2> QED BY <2>4 DEF x, y
  <1> QED BY <1>2, <1>3, <1>7, <1>10

\* Without blocks to skip the loop changes nothing.
LEMMA AdvancedByNothing ==
  ASSUME iv \in Counter
  PROVE  Advanced(0) = iv
  <1>0. Width \in Nat
    BY CounterAssumption
  <1> DEFINE after == CHOOSE after : after =
               [k \in 0 .. Width |->
                  IF k = 0 THEN [ctr |-> iv, carry |-> 0] ELSE Turn(after[k - 1], Width + 1 - k)]
  <1>1. Advanced(0) = after[Width].ctr
    BY DEF Advanced
  <1>2. IsLoop(after, iv, 0)
    <2>1. \E g : IsLoop(g, iv, 0)
      BY LoopExists
    <2> QED BY <2>1, Zenon DEF IsLoop
  <1> HIDE DEF after
  <1> DEFINE S == {k \in Nat : k <= Width => after[k] = [ctr |-> iv, carry |-> 0]}
  <1>3. 0 \in S
    BY <1>0, <1>2 DEF IsLoop
  <1>4. ASSUME NEW k \in Nat, k \in S PROVE k + 1 \in S
    <2> SUFFICES ASSUME k + 1 <= Width PROVE after[k + 1] = [ctr |-> iv, carry |-> 0]
      OBVIOUS
    <2>1. after[k + 1] = Turn(after[k], Width - k)
      <3>1. k + 1 \in 0 .. Width /\ k + 1 # 0 /\ (k + 1) - 1 = k /\ Width + 1 - (k + 1) = Width - k
        BY <1>0
      <3>2. after[k + 1] = Turn(after[(k + 1) - 1], Width + 1 - (k + 1))
        BY <1>2, <3>1 DEF IsLoop
      <3> QED BY <3>1, <3>2
    <2>2. after[k] = [ctr |-> iv, carry |-> 0]
      BY <1>0, <1>4
    <2> QED BY <2>1, <2>2 DEF Turn
  <1> HIDE DEF S
  <1>5. after[Width] = [ctr |-> iv, carry |-> 0]
    <2>1. \A k \in Nat : k \in S
      BY <1>3, <1>4, Induction
    <2> QED BY <1>0, <2>1 DEF S
  <1> QED BY <1>1, <1>5

\* The jump of NewCTRAt arrives where the block-by-block walk of cipher.NewCTR does, for
\* every base, width, nonce and distance (crypto.go).
THEOREM JumpIsWalk ==
  ASSUME iv \in Counter
  PROVE  \A n \in Nat : Advanced(n) = Walk(iv, n)
  <1> DEFINE S == {n \in Nat : Advanced(n) = Walk(iv, n)}
  <1>1. 0 \in S
    BY AdvancedByNothing, WalkUnfolds
  <1>2. ASSUME NEW n \in Nat, n \in S PROVE n + 1 \in S
    BY <1>2, AdvancedStep, WalkUnfolds
  <1> HIDE DEF S
  <1>3. \A n \in Nat : n \in S
    BY <1>1, <1>2, Induction
  <1> QED BY <1>3 DEF S

\* A stream that counts blocks serves as RangeServe says: what is proved of Spec holds
\* of CtrSpec (crypto.go, NewCTRAt).
THEOREM CounterIsADetail == CtrSpec => Spec
  <1>1. CtrInit => Init
    BY DEF CtrInit
  <1>2. [CtrNext]_ctrVars => [Next]_vars
    BY DEF CtrNext, ctrVars, SeekCounter, CopyCounter, Next
  <1> QED BY <1>1, <1>2, PTL DEF CtrSpec, Spec

(***************************************************************************)
(* The counter of a download.                                              *)
(***************************************************************************)

CtrInv == CounterIsOfBlock /\ iv \in Counter

LEMMA StepCtrInv ==
  ASSUME IInv, CtrInv, [CtrNext]_ctrVars
  PROVE  CtrInv'
  <1>0. Block \in Nat \ {0} /\ kpos \in Nat /\ iv \in Counter
    BY BlockAssumption DEF IInv, TypeOK, CtrInv
  <1>1. CASE UNCHANGED ctrVars
    BY <1>1 DEF ctrVars, vars, CtrInv, CounterIsOfBlock
  <1>2. CASE SeekCounter /\ UNCHANGED iv
    <2>1. range.start \in Nat
      BY DEF IInv, TypeOK
    <2>2. kpos' = range.start /\ ctr' = Advanced(range.start \div Block)
      BY <1>2, <2>1, KeystreamIsAt DEF SeekCounter, Seek
    <2>3. range.start \div Block \in Nat
      BY <1>0, <2>1, DivMod
    <2>4. ctr' = Walk(iv, kpos' \div Block)
      BY <1>0, <2>2, <2>3, JumpIsWalk
    <2> QED BY <1>2, <2>4 DEF CtrInv, CounterIsOfBlock
  <1>3. CASE CopyCounter /\ UNCHANGED iv
    <2>1. PICK n \in 1 .. SmallerOf(Buffer, Limit) : kpos' = kpos + n
      BY <1>3 DEF CopyCounter, Copy
    <2>2. /\ pc = "copy" /\ UNCHANGED <<size, status>>
          /\ ctr' = Walk(ctr, (kpos' \div Block) - (kpos \div Block))
      BY <1>3 DEF CopyCounter, Copy, request
    <2> DEFINE here == kpos \div Block
               there == kpos' \div Block
    <2>3. here \in Nat /\ there \in Nat /\ here <= there
      <3>1. n \in Nat /\ kpos' \in Nat
        <4>1. n \in Int /\ n >= 1
          OBVIOUS
        <4> QED BY <1>0, <2>1, <4>1
      <3>2. here \in Nat /\ there \in Nat
        BY <1>0, <3>1, DivMod
      <3>3. here <= there
        BY <1>0, <2>1, <3>1, QuotientGrows
      <3> QED BY <3>2, <3>3
    <2> HIDE DEF here, there
    <2>4. CASE status \in {200, 206} /\ size > 0
      <3>1. ctr = Walk(iv, here)
        BY <2>4 DEF CtrInv, CounterIsOfBlock, here
      <3>2. ctr' = Walk(Walk(iv, here), there - here)
        BY <2>2, <3>1 DEF here, there
      <3>3. there - here \in Nat /\ here + (there - here) = there
        BY <2>3
      <3>4. ctr' = Walk(iv, there)
        BY <2>3, <3>2, <3>3, WalkAdds
      <3> QED BY <1>3, <3>4 DEF CtrInv, CounterIsOfBlock, there
    <2>5. CASE ~ (status \in {200, 206} /\ size > 0)
      BY <1>3, <2>2, <2>5 DEF CtrInv, CounterIsOfBlock
    <2> QED BY <2>4, <2>5
  <1>4. CASE UNCHANGED <<ctr, iv>> /\ (ServeEmpty \/ Parse \/ SeekFails)
    BY <1>4 DEF ServeEmpty, Parse, SeekFails, IInv, RangeInv, CopyInv, CtrInv, CounterIsOfBlock, request
  <1>5. ASSUME UNCHANGED <<ctr, iv>>, NEW failed \in BOOLEAN, CopyEnds(failed) PROVE CtrInv'
    BY <1>5 DEF CopyEnds, CtrInv, CounterIsOfBlock, request
  <1> QED BY <1>1, <1>2, <1>3, <1>4, <1>5 DEF CtrNext

\* Wherever a download starts and however its reads fall, each byte is decrypted under
\* the counter of its block: the one that the walk of Upload had there (crypto.go,
\* NewCTRAt).
THEOREM CountersAgree == CtrSpec => []CounterIsOfBlock
  <1>1. CtrInit => CtrInv
    BY DEF CtrInit, Init, CtrInv, CounterIsOfBlock
  <1>2. IInv /\ CtrInv /\ [CtrNext]_ctrVars => CtrInv'
    BY StepCtrInv
  <1>3. CtrInv => CounterIsOfBlock
    BY DEF CtrInv
  <1> QED BY <1>1, <1>2, <1>3, CounterIsADetail, Invariance, PTL DEF CtrSpec
=============================================================================
