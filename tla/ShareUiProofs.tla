----------------------------- MODULE ShareUiProofs -----------------------------
(***************************************************************************)
(* Proofs about sharing in the browser, for any files and any number of    *)
(* shares and of calls under way: the share button is disabled exactly     *)
(* while its own call is under way, a row keeps its link, and a link that  *)
(* is copied and pasted leads to its file.                                 *)
(***************************************************************************)
EXTENDS ShareUi, SequenceTheorems, TLAPS

TypeInv ==
  /\ tab \in Tabs
  /\ panel \in Files \cup {None}
  /\ link \in Links \cup {None}
  /\ busy \in BOOLEAN
  /\ links \in [Files -> Links \cup {None}]
  /\ calls \in Seq(Call)
  /\ granted \in Seq(Files)
  /\ clipboard \in Copied \cup {None}
  /\ copied \in BOOLEAN /\ timers \in Nat
  /\ pasted \in Copied \cup {None}

\* A call of the share button that is on the page.
OfButton(c) == c.from = "button" /\ c.here

\* There is one such call at most, and the button is only under the SEND tab.
ButtonInv ==
  /\ panel # None => tab = "SEND"
  /\ BusyIffCall
  /\ busy => tab = "SEND"
  /\ \A i, j \in DOMAIN calls : OfButton(calls[i]) /\ OfButton(calls[j]) => i = j

\* A link leads to a file, if it leads anywhere.
Leads(l, file) == l # Nowhere => l \in DOMAIN granted /\ granted[l] = file

AnswersInv ==
  \A i \in DOMAIN calls :
    calls[i].stage = "granted" => calls[i].link \in Links /\ Leads(calls[i].link, calls[i].file)

CopiesInv ==
  \A c \in {clipboard, pasted} : c # None /\ c.row # None => Leads(c.link, c.row)

\* What the user has pasted, with white space around it or not.
FieldInv ==
  pasted # None =>
    \E text \in Texts(pasted.link), before, after \in {<<>>, <<Space>>} :
      field = before \o text \o after

IInv == TypeInv /\ ButtonInv /\ AnswersInv /\ CopiesInv /\ FieldInv
-----------------------------------------------------------------------------
(***************************************************************************)
(* What the sequence operators do.                                         *)
(***************************************************************************)

LEMMA MaxIs ==
  ASSUME NEW S \in SUBSET Int, NEW m \in S, \A x \in S : x <= m
  PROVE  Max(S) = m
  <1>1. Max(S) \in S /\ \A y \in S : Max(S) >= y
    <2>1. \E x \in S : \A y \in S : x >= y
      OBVIOUS
    <2> QED BY <2>1 DEF Max
  <1>2. Max(S) >= m /\ Max(S) <= m /\ Max(S) \in Int /\ m \in Int
    BY <1>1
  <1> QED BY <1>2

LEMMA MinIs ==
  ASSUME NEW S \in SUBSET Int, NEW m \in S, \A x \in S : m <= x
  PROVE  Min(S) = m
  <1>1. Min(S) \in S /\ \A y \in S : Min(S) <= y
    <2>1. \E x \in S : \A y \in S : x <= y
      OBVIOUS
    <2> QED BY <2>1 DEF Min
  <1>2. Min(S) >= m /\ Min(S) <= m /\ Min(S) \in Int /\ m \in Int
    BY <1>1
  <1> QED BY <1>2

LEMMA RemoveAtIs ==
  ASSUME NEW S, NEW s \in Seq(S), NEW i \in 1 .. Len(s)
  PROVE  /\ RemoveAt(s, i) \in Seq(S)
         /\ Len(RemoveAt(s, i)) = Len(s) - 1
         /\ \A j \in 1 .. Len(s) - 1 : RemoveAt(s, i)[j] = IF j < i THEN s[j] ELSE s[j + 1]
  <1> DEFINE a == SubSeq(s, 1, i - 1)
             b == SubSeq(s, i + 1, Len(s))
  <1>1. Len(s) \in Nat /\ i \in Nat /\ 1 <= i /\ i <= Len(s) /\ \A j \in 1 .. Len(s) : s[j] \in S
    BY LenProperties, ElementOfSeq
  <1>2. /\ a \in Seq(S) /\ Len(a) = i - 1
        /\ \A j \in 1 .. i - 1 : a[j] = s[j]
    <2>1. \A j \in 1 .. i - 1 : s[j] \in S
      BY <1>1
    <2> QED BY <1>1, <2>1, SubSeqProperties
  <1>3. /\ b \in Seq(S) /\ Len(b) = Len(s) - i
        /\ \A j \in 1 .. Len(s) - i : b[j] = s[i + j]
    <2>1. \A j \in i + 1 .. Len(s) : s[j] \in S
      BY <1>1
    <2>2. /\ b \in Seq(S) /\ Len(b) = IF i + 1 <= Len(s) THEN Len(s) - (i + 1) + 1 ELSE 0
          /\ \A j \in 1 .. Len(s) - (i + 1) + 1 : b[j] = s[(i + 1) + j - 1]
      BY <1>1, <2>1, SubSeqProperties
    <2> HIDE DEF b
    <2>3. \A j \in 1 .. Len(s) - i : b[j] = s[i + j]
      <3> SUFFICES ASSUME NEW j \in 1 .. Len(s) - i PROVE b[j] = s[i + j]
        OBVIOUS
      <3>1. j \in 1 .. Len(s) - (i + 1) + 1 /\ (i + 1) + j - 1 = i + j
        BY <1>1
      <3> QED BY <2>2, <3>1
    <2> QED BY <1>1, <2>2, <2>3
  <1>4. RemoveAt(s, i) = a \o b
    BY DEF RemoveAt
  <1> HIDE DEF a, b
  <1>5. /\ a \o b \in Seq(S) /\ Len(a \o b) = Len(a) + Len(b)
        /\ \A j \in 1 .. Len(a) + Len(b) : (a \o b)[j] = IF j <= Len(a) THEN a[j] ELSE b[j - Len(a)]
    BY <1>2, <1>3, ConcatProperties
  <1>6. ASSUME NEW j \in 1 .. Len(s) - 1
        PROVE  (a \o b)[j] = IF j < i THEN s[j] ELSE s[j + 1]
    <2>1. j \in 1 .. Len(a) + Len(b)
      BY <1>1, <1>2, <1>3
    <2>2. CASE j < i
      BY <1>1, <1>2, <1>5, <2>1, <2>2
    <2>3. CASE ~ (j < i)
      <3>1. j - Len(a) \in 1 .. Len(s) - i /\ i + (j - Len(a)) = j + 1
        BY <1>1, <1>2, <2>3
      <3>2. (a \o b)[j] = b[j - Len(a)]
        BY <1>1, <1>2, <1>5, <2>1, <2>3
      <3> QED BY <1>3, <2>3, <3>1, <3>2
    <2> QED BY <2>2, <2>3
  <1> QED BY <1>1, <1>2, <1>3, <1>4, <1>5, <1>6

\* s.split(sep).pop(), if the separator comes last but one, or not at all.
LEMMA LastPiece ==
  ASSUME NEW s, NEW sep, NEW n \in Nat, n >= 2, NEW P, s \in [1 .. n -> P], s \in Seq(P), Len(s) = n,
         s[n - 1] = sep, s[n] # sep
  PROVE  AfterLast(s, sep) = <<s[n]>>
  <1> DEFINE ends == {i \in DOMAIN s : s[i] = sep}
  <1>1. ends \in SUBSET Int /\ n - 1 \in ends /\ \A i \in ends : i <= n - 1
    <2>1. DOMAIN s = 1 .. n
      OBVIOUS
    <2> QED BY <2>1
  <1>2. Max(ends) = n - 1
    <2> HIDE DEF ends
    <2> QED BY <1>1, MaxIs
  <1>3. AfterLast(s, sep) = SubSeq(s, n, n)
    <2>1. ends # {} /\ Max(ends) + 1 = n
      BY <1>1, <1>2
    <2>2. AfterLast(s, sep) = IF ends = {} THEN s ELSE SubSeq(s, Max(ends) + 1, Len(s))
      BY DEF AfterLast
    <2> HIDE DEF ends
    <2> QED BY <2>1, <2>2
  <1>4. SubSeq(s, n, n) \in Seq(P) /\ Len(SubSeq(s, n, n)) = 1 /\ SubSeq(s, n, n)[1] = s[n]
    <2>1. \A i \in n .. n : s[i] \in P
      OBVIOUS
    <2>2. /\ SubSeq(s, n, n) \in Seq(P) /\ Len(SubSeq(s, n, n)) = n - n + 1
          /\ \A i \in 1 .. n - n + 1 : SubSeq(s, n, n)[i] = s[n + i - 1]
      BY <2>1, SubSeqProperties
    <2> QED BY <2>2
  <1>5. SubSeq(s, n, n) = <<s[n]>>
    <2> DEFINE r == SubSeq(s, n, n)
    <2> HIDE DEF r
    <2>1. r \in Seq(P) /\ Len(r) = 1 /\ r[1] = s[n]
      BY <1>4 DEF r
    <2>2. r = <<r[1]>>
      BY <2>1
    <2>3. r = <<s[n]>>
      BY <2>1, <2>2
    <2> QED BY <2>3 DEF r
  <1> QED BY <1>3, <1>5

LEMMA NoPiece ==
  ASSUME NEW s, NEW sep, \A i \in DOMAIN s : s[i] # sep
  PROVE  AfterLast(s, sep) = s
  BY DEF AfterLast

\* s.trim() takes away what is around the text, and nothing of the text.
LEMMA TrimmedIs ==
  ASSUME NEW P, NEW s \in Seq(P), NEW lo \in 1 .. Len(s), NEW hi \in lo .. Len(s),
         s[lo] # Space, s[hi] # Space,
         \A i \in 1 .. Len(s) : i < lo \/ hi < i => s[i] = Space
  PROVE  Trimmed(s) = SubSeq(s, lo, hi)
  <1> DEFINE ink == {i \in DOMAIN s : s[i] # Space}
  <1>1. DOMAIN s = 1 .. Len(s) /\ Len(s) \in Nat
    BY LenProperties
  <1>2. ink \in SUBSET Int /\ lo \in ink /\ hi \in ink
    BY <1>1
  <1>3. \A i \in ink : lo <= i /\ i <= hi
    BY <1>1
  <1>4. Trimmed(s) = IF ink = {} THEN <<>> ELSE SubSeq(s, Min(ink), Max(ink))
    BY DEF Trimmed
  <1> HIDE DEF ink
  <1>5. Min(ink) = lo /\ Max(ink) = hi
    BY <1>2, <1>3, MinIs, MaxIs
  <1> QED BY <1>2, <1>4, <1>5

LEMMA SpaceGoes ==
  ASSUME NEW t \in Seq(Pieces), Len(t) >= 1, t[1] # Space, t[Len(t)] # Space,
         NEW before \in Seq(Pieces), \A i \in 1 .. Len(before) : before[i] = Space,
         NEW after \in Seq(Pieces), \A i \in 1 .. Len(after) : after[i] = Space
  PROVE  Trimmed(before \o t \o after) = t
  <1> DEFINE h == before \o t
             s == h \o after
             n == Len(t)
             k == Len(before)
  <1>1. Len(before) \in Nat /\ Len(after) \in Nat /\ n \in Nat
    BY LenProperties
  <1>2. /\ h \in Seq(Pieces) /\ Len(h) = k + n
        /\ \A i \in 1 .. k + n : h[i] = IF i <= k THEN before[i] ELSE t[i - k]
    BY ConcatProperties
  <1> HIDE DEF h
  <1>3. /\ s \in Seq(Pieces) /\ Len(s) = Len(h) + Len(after)
        /\ \A i \in 1 .. Len(h) + Len(after) : s[i] = IF i <= Len(h) THEN h[i] ELSE after[i - Len(h)]
    <2>1. h \in Seq(Pieces)
      BY <1>2
    <2> QED BY <2>1, ConcatProperties
  <1> HIDE DEF s
  <1>4. ASSUME NEW i \in 1 .. n PROVE s[k + i] = t[i] /\ k + i \in 1 .. Len(s)
    <2>1. k + i \in 1 .. k + n /\ ~ (k + i <= k) /\ (k + i) - k = i
      BY <1>1
    <2>2. h[k + i] = t[i]
      <3>1. h[k + i] = IF k + i <= k THEN before[k + i] ELSE t[(k + i) - k]
        BY <1>2, <2>1
      <3> QED BY <2>1, <3>1
    <2>3. s[k + i] = h[k + i]
      BY <1>1, <1>2, <1>3, <2>1
    <2> QED BY <1>1, <1>2, <1>3, <2>1, <2>2, <2>3
  <1>5. ASSUME NEW i \in 1 .. Len(s), i < k + 1 \/ k + n < i PROVE s[i] = Space
    <2>1. CASE i < k + 1
      BY <1>1, <1>2, <1>3, <2>1
    <2>2. CASE k + n < i
      <3>1. i - Len(h) \in 1 .. Len(after) /\ ~ (i <= Len(h))
        BY <1>1, <1>2, <1>3, <2>2
      <3> QED BY <1>1, <1>3, <3>1
    <2> QED BY <1>5, <2>1, <2>2
  <1>6. k + 1 \in 1 .. Len(s) /\ k + n \in k + 1 .. Len(s) /\ s[k + 1] # Space /\ s[k + n] # Space
    BY <1>1, <1>2, <1>3, <1>4
  <1>7. Trimmed(s) = SubSeq(s, k + 1, k + n)
    BY <1>3, <1>5, <1>6, TrimmedIs
  <1>8. SubSeq(s, k + 1, k + n) = t
    <2> DEFINE r == SubSeq(s, k + 1, k + n)
    <2>1. k + 1 \in Int /\ k + n \in Int /\ \A i \in k + 1 .. k + n : s[i] \in Pieces
      BY <1>1, <1>2, <1>3, ElementOfSeq
    <2>2. /\ r \in Seq(Pieces)
          /\ Len(r) = IF k + 1 <= k + n THEN (k + n) - (k + 1) + 1 ELSE 0
          /\ \A i \in 1 .. (k + n) - (k + 1) + 1 : r[i] = s[(k + 1) + i - 1]
      BY <2>1, SubSeqProperties
    <2> HIDE DEF r
    <2>3. Len(r) = n
      BY <1>1, <2>2
    <2>4. ASSUME NEW i \in 1 .. n PROVE r[i] = t[i]
      <3>1. i \in 1 .. (k + n) - (k + 1) + 1 /\ (k + 1) + i - 1 = k + i
        BY <1>1
      <3> QED BY <1>4, <2>2, <3>1
    <2> QED BY <2>2, <2>3, <2>4, SeqEqual DEF r
  <1> QED BY <1>7, <1>8 DEF s, h

\* Each of the three forms of a link is cleaned to its token.
LEMMA CleanFindsTheToken ==
  ASSUME NEW l \in Shares, NEW text \in Texts(l),
         NEW before \in {<<>>, <<Space>>}, NEW after \in {<<>>, <<Space>>}
  PROVE  Clean(before \o text \o after) = <<l>>
  <1>1. /\ l \in Pieces /\ Word \in Pieces /\ Slash \in Pieces /\ Hash \in Pieces
        /\ l # Space /\ l # Hash /\ l # Slash /\ Word # Space /\ Word # Hash /\ Slash # Hash
    BY NamesAssumption DEF Pieces, Links
  <1> DEFINE link4 == <<Word, Slash, Hash, l>>
             link3 == <<Word, Slash, l>>
  <1>2. link4 \in Seq(Pieces) /\ link3 \in Seq(Pieces) /\ <<l>> \in Seq(Pieces)
    BY <1>1
  <1>3. text \in Seq(Pieces) /\ Len(text) >= 1 /\ text[1] # Space /\ text[Len(text)] # Space
    <2>1. CASE text = link4
      BY <1>1, <1>2, <2>1
    <2>2. CASE text = link3
      BY <1>1, <1>2, <2>2
    <2>3. CASE text = <<l>>
      BY <1>1, <1>2, <2>3
    <2> QED BY <2>1, <2>2, <2>3 DEF Texts
  <1>8. /\ before \in Seq(Pieces) /\ \A i \in 1 .. Len(before) : before[i] = Space
        /\ after \in Seq(Pieces) /\ \A i \in 1 .. Len(after) : after[i] = Space
    <2>1. /\ <<>> \in Seq(Pieces) /\ Len(<<>>) = 0
          /\ <<Space>> \in Seq(Pieces) /\ Len(<<Space>>) = 1 /\ <<Space>>[1] = Space
      BY DEF Pieces
    <2>2. ASSUME NEW w \in {<<>>, <<Space>>}
          PROVE  w \in Seq(Pieces) /\ \A i \in 1 .. Len(w) : w[i] = Space
      <3>1. CASE w = <<>>
        BY <2>1, <3>1
      <3>2. CASE w = <<Space>>
        BY <2>1, <3>2
      <3> QED BY <3>1, <3>2
    <2> QED BY <2>2
  <1>4. Trimmed(before \o text \o after) = text
    BY <1>3, <1>8, SpaceGoes
  <1>5. CASE text = link4
    <2>1. /\ 4 \in Nat /\ 4 >= 2 /\ link4 \in [1 .. 4 -> Pieces] /\ Len(link4) = 4
          /\ link4[4 - 1] = Hash /\ link4[4] = l /\ link4[4] # Hash
      BY <1>1
    <2>2. AfterLast(link4, Hash) = <<l>>
      <3> HIDE DEF link4
      <3> QED BY <1>1, <1>2, <2>1, LastPiece
    <2>3. AfterLast(<<l>>, Slash) = <<l>>
      BY <1>1, NoPiece
    <2> QED BY <1>4, <1>5, <2>2, <2>3 DEF Clean
  <1>6. CASE text = link3
    <2>1. /\ 3 \in Nat /\ 3 >= 2 /\ link3 \in [1 .. 3 -> Pieces] /\ Len(link3) = 3
          /\ link3[3 - 1] = Slash /\ link3[3] = l /\ link3[3] # Slash
      BY <1>1
    <2>2. AfterLast(link3, Slash) = <<l>>
      <3> HIDE DEF link3
      <3> QED BY <1>1, <1>2, <2>1, LastPiece
    <2>3. AfterLast(link3, Hash) = link3
      <3>1. \A i \in DOMAIN link3 : link3[i] # Hash
        BY <1>1
      <3> QED BY <3>1, NoPiece
    <2> QED BY <1>4, <1>6, <2>2, <2>3 DEF Clean
  <1>7. CASE text = <<l>>
    <2>1. AfterLast(<<l>>, Hash) = <<l>> /\ AfterLast(<<l>>, Slash) = <<l>>
      BY <1>1, NoPiece
    <2> QED BY <1>4, <1>7, <2>1 DEF Clean
  <1> QED BY <1>5, <1>6, <1>7 DEF Texts
-----------------------------------------------------------------------------
(***************************************************************************)
(* What the steps do to the calls under way.                               *)
(***************************************************************************)

\* A link goes on leading to its file, as shares are never taken back.
LEMMA LeadsOn ==
  ASSUME TypeInv, \/ granted' = granted
                  \/ \E f \in Files : granted' = Append(granted, f)
  PROVE  \A l, f : Leads(l, f) => Leads(l, f)'
  <1>1. CASE granted' = granted
    BY <1>1 DEF Leads
  <1>2. ASSUME NEW g \in Files, granted' = Append(granted, g) PROVE \A l, f : Leads(l, f) => Leads(l, f)'
    <2>1. Len(granted') = Len(granted) + 1 /\ \A i \in 1 .. Len(granted) : granted'[i] = granted[i]
      BY <1>2, AppendProperties DEF TypeInv
    <2>2. /\ DOMAIN granted = 1 .. Len(granted) /\ DOMAIN granted' = 1 .. Len(granted')
          /\ Len(granted) \in Nat
      BY <1>2, AppendProperties, LenProperties DEF TypeInv
    <2> QED BY <2>1, <2>2 DEF Leads
  <1> QED BY <1>1, <1>2

LEMMA CallsAre ==
  ASSUME TypeInv
  PROVE  /\ DOMAIN calls = 1 .. Len(calls) /\ Len(calls) \in Nat
         /\ \A i \in DOMAIN calls : calls[i] \in Call
  BY LenProperties, ElementOfSeq DEF TypeInv

LEMMA OrphanedIs ==
  ASSUME TypeInv, NEW from
  PROVE  /\ Orphaned(from) \in Seq(Call) /\ DOMAIN Orphaned(from) = DOMAIN calls
         /\ \A i \in DOMAIN calls :
              /\ Orphaned(from)[i].stage = calls[i].stage
              /\ Orphaned(from)[i].link = calls[i].link
              /\ Orphaned(from)[i].file = calls[i].file
              /\ Orphaned(from)[i].from = calls[i].from
              /\ Orphaned(from)[i].here = (calls[i].here /\ calls[i].from # from)
  <1>1. /\ DOMAIN calls = 1 .. Len(calls) /\ Len(calls) \in Nat
        /\ \A i \in DOMAIN calls : calls[i] \in Call
    BY CallsAre
  <1>2. ASSUME NEW i \in DOMAIN calls
        PROVE  /\ Orphaned(from)[i] \in Call
               /\ Orphaned(from)[i].stage = calls[i].stage
               /\ Orphaned(from)[i].link = calls[i].link
               /\ Orphaned(from)[i].file = calls[i].file
               /\ Orphaned(from)[i].from = calls[i].from
               /\ Orphaned(from)[i].here = (calls[i].here /\ calls[i].from # from)
    <2>1. calls[i] \in Call
      BY <1>1
    <2>2. CASE calls[i].from = from
      <3>1. Orphaned(from)[i] = [calls[i] EXCEPT !.here = FALSE]
        BY <2>2 DEF Orphaned
      <3> QED BY <2>1, <2>2, <3>1 DEF Call
    <2>3. CASE calls[i].from # from
      <3>1. Orphaned(from)[i] = calls[i]
        BY <2>3 DEF Orphaned
      <3>2. calls[i].here \in BOOLEAN
        BY <2>1 DEF Call
      <3> QED BY <2>1, <2>3, <3>1, <3>2
    <2> QED BY <2>2, <2>3
  <1>3. Orphaned(from) \in [1 .. Len(calls) -> Call]
    BY <1>1, <1>2 DEF Orphaned
  <1>4. Orphaned(from) \in Seq(Call)
    BY <1>1, <1>3
  <1>5. DOMAIN Orphaned(from) = DOMAIN calls
    BY DEF Orphaned
  <1> QED BY <1>2, <1>4, <1>5

LEMMA AnswerIs ==
  ASSUME TypeInv, NEW i \in DOMAIN calls, NEW stage \in {"failed", "granted"}, NEW l \in Links \cup {None},
         Answer(i, stage, l)
  PROVE  /\ calls' \in Seq(Call) /\ DOMAIN calls' = DOMAIN calls
         /\ \A j \in DOMAIN calls : j # i => calls'[j] = calls[j]
         /\ calls'[i].stage = stage /\ calls'[i].link = l
         /\ calls'[i].file = calls[i].file /\ calls'[i].from = calls[i].from /\ calls'[i].here = calls[i].here
  <1> DEFINE k == [calls[i] EXCEPT !.stage = stage, !.link = l]
  <1>1. /\ DOMAIN calls = 1 .. Len(calls) /\ Len(calls) \in Nat /\ calls[i] \in Call
        /\ calls \in Seq(Call)
    BY CallsAre DEF TypeInv
  <1>2. /\ k \in Call /\ k.stage = stage /\ k.link = l
        /\ k.file = calls[i].file /\ k.from = calls[i].from /\ k.here = calls[i].here
    BY <1>1 DEF Call
  <1>3. calls' = [calls EXCEPT ![i] = k]
    BY <1>1 DEF Answer
  <1> HIDE DEF k
  <1>4. /\ [calls EXCEPT ![i] = k] \in Seq(Call) /\ Len([calls EXCEPT ![i] = k]) = Len(calls)
        /\ \A j \in 1 .. Len(calls) : [calls EXCEPT ![i] = k][j] = IF j = i THEN k ELSE calls[j]
    BY <1>1, <1>2, ExceptSeq
  <1>5. DOMAIN calls' = DOMAIN calls
    BY <1>3
  <1> QED BY <1>1, <1>2, <1>3, <1>4, <1>5

\* The calls that are left when one has been heard.
LEMMA RemovedIs ==
  ASSUME TypeInv, NEW i \in DOMAIN calls
  PROVE  /\ RemoveAt(calls, i) \in Seq(Call)
         /\ \A j \in DOMAIN RemoveAt(calls, i) :
              \E k \in DOMAIN calls : k # i /\ RemoveAt(calls, i)[j] = calls[k]
         /\ \A k \in DOMAIN calls :
              k # i => \E j \in DOMAIN RemoveAt(calls, i) : RemoveAt(calls, i)[j] = calls[k]
         /\ \A j1, j2 \in DOMAIN RemoveAt(calls, i) : j1 # j2 =>
              \E k1, k2 \in DOMAIN calls : /\ k1 # k2 /\ RemoveAt(calls, i)[j1] = calls[k1]
                                           /\ RemoveAt(calls, i)[j2] = calls[k2]
  <1> DEFINE r == RemoveAt(calls, i)
             n == Len(calls)
             Old(j) == IF j < i THEN j ELSE j + 1
  <1>1. DOMAIN calls = 1 .. n /\ n \in Nat /\ i \in 1 .. n /\ calls \in Seq(Call)
    BY CallsAre DEF TypeInv
  <1>2. r \in Seq(Call) /\ Len(r) = n - 1 /\ \A j \in 1 .. n - 1 : r[j] = IF j < i THEN calls[j] ELSE calls[j + 1]
    BY <1>1, RemoveAtIs
  <1>3. DOMAIN r = 1 .. n - 1
    BY <1>2, LenProperties
  <1> HIDE DEF r
  <1>4. \A j \in DOMAIN r : Old(j) \in DOMAIN calls /\ Old(j) # i /\ r[j] = calls[Old(j)]
    BY <1>1, <1>2, <1>3
  <1>5. \A j1, j2 \in DOMAIN r : j1 # j2 => Old(j1) # Old(j2)
    BY <1>1, <1>3
  <1>6. ASSUME NEW k \in DOMAIN calls, k # i PROVE \E j \in DOMAIN r : r[j] = calls[k]
    <2>1. CASE k < i
      <3>1. k \in DOMAIN r /\ Old(k) = k
        BY <1>1, <1>3, <2>1
      <3> QED BY <1>4, <3>1
    <2>2. CASE ~ (k < i)
      <3>1. k - 1 \in DOMAIN r /\ Old(k - 1) = k
        BY <1>1, <1>3, <1>6, <2>2
      <3> QED BY <1>4, <3>1
    <2> QED BY <2>1, <2>2
  <1> HIDE DEF Old
  <1> QED BY <1>2, <1>4, <1>5, <1>6 DEF r

\* The answers that the calls have are those they had.
LEMMA AnswersStay ==
  ASSUME TypeInv, AnswersInv,
         \A i \in DOMAIN calls' : \E j \in DOMAIN calls :
           calls'[i].stage = calls[j].stage /\ calls'[i].link = calls[j].link /\ calls'[i].file = calls[j].file,
         \/ granted' = granted
         \/ \E f \in Files : granted' = Append(granted, f)
  PROVE  AnswersInv'
  BY LeadsOn DEF AnswersInv

\* The button and its calls are as they were.
LEMMA ButtonStays ==
  ASSUME ButtonInv, UNCHANGED <<tab, panel, busy>>, DOMAIN calls' = DOMAIN calls,
         \A i \in DOMAIN calls : OfButton(calls'[i]) = OfButton(calls[i])
  PROVE  ButtonInv'
  BY DEF ButtonInv, BusyIffCall, OfButton
-----------------------------------------------------------------------------
LEMMA InitIInv == Init => IInv
  <1> SUFFICES ASSUME Init PROVE IInv
    OBVIOUS
  <1>1. calls = <<>> /\ DOMAIN calls = {} /\ calls \in Seq(Call) /\ granted \in Seq(Files)
    BY DEF Init
  <1>2. TypeInv
    BY <1>1 DEF Init, TypeInv, Tabs, Unlinked
  <1>3. ButtonInv /\ AnswersInv
    BY <1>1 DEF Init, ButtonInv, BusyIffCall, AnswersInv
  <1>4. CopiesInv /\ FieldInv
    BY DEF Init, CopiesInv, FieldInv
  <1> QED BY <1>2, <1>3, <1>4 DEF IInv

LEMMA SwitchTabKeeps ==
  ASSUME IInv, NEW t \in Tabs, SwitchTab(t)
  PROVE  IInv'
  <1> USE DEF IInv
  <1>1. /\ calls' \in Seq(Call) /\ DOMAIN calls' = DOMAIN calls
        /\ \A i \in DOMAIN calls :
             /\ calls'[i].stage = calls[i].stage
             /\ calls'[i].link = calls[i].link /\ calls'[i].file = calls[i].file
        /\ \A i \in DOMAIN calls : ~ OfButton(calls'[i])
    <2>1. CASE tab = "SEND"
      <3>1. calls' = Orphaned("button")
        BY <2>1 DEF SwitchTab
      <3> QED BY <3>1, OrphanedIs DEF OfButton
    <2>2. CASE tab = "LINK"
      <3>1. calls' = Orphaned("row")
        BY <2>2 DEF SwitchTab
      <3>2. \A i \in DOMAIN calls : ~ OfButton(calls[i])
        BY <2>2 DEF ButtonInv, BusyIffCall, OfButton
      <3> QED BY <3>1, <3>2, OrphanedIs DEF OfButton
    <2>3. CASE tab \notin {"SEND", "LINK"}
      <3>1. calls' = calls
        BY <2>3 DEF SwitchTab
      <3>2. \A i \in DOMAIN calls : ~ OfButton(calls[i])
        BY <2>3 DEF ButtonInv, BusyIffCall, OfButton
      <3> QED BY <3>1, <3>2 DEF TypeInv
    <2> QED BY <2>1, <2>2, <2>3
  <1>2. /\ tab' = t /\ panel' = None /\ link' = None /\ busy' = FALSE
        /\ links' = Unlinked /\ pasted' = None
        /\ UNCHANGED <<granted, clipboard, copied, timers>>
    BY DEF SwitchTab, ButtonGone, copying
  <1>3. TypeInv'
    BY <1>1, <1>2 DEF TypeInv, Unlinked
  <1>4. ButtonInv'
    BY <1>1, <1>2 DEF ButtonInv, BusyIffCall, OfButton
  <1>5. AnswersInv'
    BY <1>1, <1>2, AnswersStay
  <1>6. CopiesInv' /\ FieldInv'
    BY <1>2 DEF CopiesInv, FieldInv, Leads
  <1> QED BY <1>3, <1>4, <1>5, <1>6

LEMMA SelectPanelKeeps ==
  ASSUME IInv, NEW f \in Files \cup {None}, SelectPanel(f)
  PROVE  IInv'
  <1> USE NamesAssumption DEF IInv
  <1>1. UNCHANGED <<tab, links, granted, clipboard, copied, timers, field, pasted>> /\ tab = "SEND"
    BY DEF SelectPanel, copying, receive
  <1>2. CASE f = None
    <2>1. calls' = Orphaned("button") /\ panel' = None /\ link' = None /\ busy' = FALSE
      BY <1>2 DEF SelectPanel, ButtonGone
    <2>2. /\ calls' \in Seq(Call) /\ DOMAIN calls' = DOMAIN calls
          /\ \A i \in DOMAIN calls :
               /\ calls'[i].stage = calls[i].stage
               /\ calls'[i].link = calls[i].link /\ calls'[i].file = calls[i].file
          /\ \A i \in DOMAIN calls : ~ OfButton(calls'[i])
      <3>1. /\ calls' \in Seq(Call) /\ DOMAIN calls' = DOMAIN calls
            /\ \A i \in DOMAIN calls :
                 /\ calls'[i].stage = calls[i].stage
                 /\ calls'[i].link = calls[i].link /\ calls'[i].file = calls[i].file
                 /\ calls'[i].from = calls[i].from
                 /\ calls'[i].here = (calls[i].here /\ calls[i].from # "button")
        BY <2>1, OrphanedIs
      <3> QED BY <3>1 DEF OfButton
    <2>3. TypeInv'
      BY <1>1, <2>1, <2>2 DEF TypeInv
    <2>4. ButtonInv'
      BY <2>1, <2>2 DEF ButtonInv, BusyIffCall, OfButton
    <2>5. AnswersInv'
      BY <1>1, <2>2, AnswersStay
    <2> QED BY <1>1, <2>3, <2>4, <2>5 DEF CopiesInv, FieldInv, Leads
  <1>3. CASE f # None
    <2>1. panel' = f /\ UNCHANGED <<link, busy, calls>>
      BY <1>3 DEF SelectPanel, button
    <2>2. TypeInv' /\ ButtonInv'
      BY <1>1, <2>1 DEF TypeInv, ButtonInv, BusyIffCall, OfButton
    <2> QED BY <1>1, <2>1, <2>2 DEF AnswersInv, CopiesInv, FieldInv, Leads
  <1> QED BY <1>2, <1>3

\* A call that starts is the last one, and has no answer yet.
LEMMA ShareIs ==
  ASSUME TypeInv, NEW f \in Files, NEW from \in {"button", "row"}, Share(from, f)
  PROVE  /\ calls' \in Seq(Call) /\ DOMAIN calls' = 1 .. Len(calls) + 1
         /\ \A i \in DOMAIN calls : calls'[i] = calls[i]
         /\ calls'[Len(calls) + 1].from = from /\ calls'[Len(calls) + 1].here = TRUE
         /\ calls'[Len(calls) + 1].stage = "awaited"
  <1> DEFINE c == [from |-> from, file |-> f, here |-> TRUE, stage |-> "awaited", link |-> None]
  <1>1. c \in Call /\ c.from = from /\ c.here = TRUE /\ c.stage = "awaited"
    BY DEF Call
  <1>2. calls \in Seq(Call) /\ calls' = Append(calls, c) /\ DOMAIN calls = 1 .. Len(calls)
    BY CallsAre DEF Share, TypeInv
  <1> HIDE DEF c
  <1>3. /\ calls' \in Seq(Call) /\ Len(calls') = Len(calls) + 1
        /\ \A i \in 1 .. Len(calls) : calls'[i] = calls[i]
        /\ calls'[Len(calls) + 1] = c
    BY <1>1, <1>2, AppendProperties
  <1>4. DOMAIN calls' = 1 .. Len(calls')
    BY <1>3, LenProperties
  <1> QED BY <1>1, <1>2, <1>3, <1>4

LEMMA StartedKeepsAnswers ==
  ASSUME TypeInv, AnswersInv, NEW f \in Files, NEW from \in {"button", "row"}, Share(from, f), granted' = granted
  PROVE  AnswersInv'
  <1>1. DOMAIN calls = 1 .. Len(calls) /\ Len(calls) \in Nat
    BY CallsAre
  <1>2. ASSUME NEW i \in DOMAIN calls', calls'[i].stage = "granted"
        PROVE  i \in DOMAIN calls /\ calls'[i] = calls[i]
    <2>1. /\ DOMAIN calls' = 1 .. Len(calls) + 1
          /\ \A j \in DOMAIN calls : calls'[j] = calls[j]
          /\ calls'[Len(calls) + 1].stage = "awaited"
      BY ShareIs
    <2>2. i # Len(calls) + 1
      BY <1>2, <2>1
    <2> QED BY <1>1, <2>1, <2>2
  <1> QED BY <1>2 DEF AnswersInv, Leads

LEMMA ClickCreateKeeps ==
  ASSUME IInv, ClickCreate
  PROVE  IInv'
  <1> USE NamesAssumption DEF IInv
  <1>1. /\ panel \in Files /\ ~ busy /\ busy' = TRUE /\ Share("button", panel)
        /\ UNCHANGED <<tab, panel, link, links, granted, clipboard, copied, timers, field, pasted>>
    BY DEF ClickCreate, copying, receive, TypeInv
  <1>2. /\ calls' \in Seq(Call) /\ DOMAIN calls' = 1 .. Len(calls) + 1
        /\ \A i \in DOMAIN calls : calls'[i] = calls[i]
        /\ OfButton(calls'[Len(calls) + 1])
    BY <1>1, ShareIs DEF OfButton
  <1>3. DOMAIN calls = 1 .. Len(calls) /\ Len(calls) \in Nat
    BY CallsAre
  <1>4. TypeInv'
    BY <1>1, <1>2 DEF TypeInv
  <1>5. ButtonInv'
    <2>1. \A i \in DOMAIN calls : ~ OfButton(calls[i])
      BY <1>1 DEF ButtonInv, BusyIffCall, OfButton
    <2>2. \A i \in DOMAIN calls' : OfButton(calls'[i]) => i = Len(calls) + 1
      BY <1>2, <1>3, <2>1
    <2>3. BusyIffCall'
      BY <1>1, <1>2, <1>3 DEF BusyIffCall, OfButton
    <2>4. \A i, j \in DOMAIN calls' : OfButton(calls'[i]) /\ OfButton(calls'[j]) => i = j
      BY <2>2
    <2> QED BY <1>1, <2>3, <2>4 DEF ButtonInv, OfButton
  <1>6. AnswersInv'
    BY <1>1, StartedKeepsAnswers
  <1> QED BY <1>1, <1>4, <1>5, <1>6 DEF CopiesInv, FieldInv, Leads

LEMMA ClickRowKeeps ==
  ASSUME IInv, NEW f \in Files, ClickRow(f)
  PROVE  IInv'
  <1> USE DEF IInv
  <1>1. /\ Share("row", f)
        /\ UNCHANGED <<tab, panel, link, busy, links, granted, clipboard, copied, timers, field, pasted>>
    BY DEF ClickRow, button, copying, receive
  <1>2. /\ calls' \in Seq(Call) /\ DOMAIN calls' = 1 .. Len(calls) + 1
        /\ \A i \in DOMAIN calls : calls'[i] = calls[i]
        /\ ~ OfButton(calls'[Len(calls) + 1])
    BY <1>1, ShareIs DEF OfButton
  <1>3. DOMAIN calls = 1 .. Len(calls) /\ Len(calls) \in Nat
    BY CallsAre
  <1>4. TypeInv'
    BY <1>1, <1>2 DEF TypeInv
  <1>5. ButtonInv'
    <2>1. \A i \in DOMAIN calls' : OfButton(calls'[i]) => i \in DOMAIN calls /\ OfButton(calls[i])
      BY <1>2, <1>3
    <2>2. \A i \in DOMAIN calls : i \in DOMAIN calls' /\ calls'[i] = calls[i]
      BY <1>2, <1>3
    <2>3. BusyIffCall'
      BY <1>1, <2>1, <2>2 DEF ButtonInv, BusyIffCall, OfButton
    <2>4. \A i, j \in DOMAIN calls' : OfButton(calls'[i]) /\ OfButton(calls'[j]) => i = j
      BY <2>1 DEF ButtonInv
    <2> QED BY <1>1, <2>3, <2>4 DEF ButtonInv, OfButton
  <1>6. AnswersInv'
    BY <1>1, StartedKeepsAnswers
  <1> QED BY <1>1, <1>4, <1>5, <1>6 DEF CopiesInv, FieldInv, Leads

\* What is copied leads to the file of its row.
LEMMA CopyKeeps ==
  ASSUME TypeInv, CopiesInv, NEW l \in Links, NEW row \in Files \cup {None}, Copy(l, row),
         row # None => Leads(l, row), UNCHANGED <<granted, pasted>>
  PROVE  /\ CopiesInv'
         /\ clipboard' \in Copied \cup {None} /\ copied' \in BOOLEAN /\ timers' \in Nat
  <1>1. CASE UNCHANGED copying
    BY <1>1 DEF copying, TypeInv, CopiesInv, Leads
  <1>2. CASE /\ clipboard' = [link |-> l, row |-> row]
             /\ copied' = TRUE /\ timers' = timers + 1
    <2>1. clipboard' \in Copied /\ clipboard'.link = l /\ clipboard'.row = row
      BY <1>2 DEF Copied
    <2>2. CopiesInv'
      BY <2>1 DEF CopiesInv, Leads
    <2> QED BY <1>2, <2>1, <2>2 DEF TypeInv
  <1> QED BY <1>1, <1>2 DEF Copy

LEMMA ClickCopyKeeps ==
  ASSUME IInv, ClickCopy
  PROVE  IInv'
  <1> USE DEF IInv
  <1>1. /\ link \in Links /\ Copy(link, None)
        /\ UNCHANGED <<tab, panel, link, busy, links, calls, granted, field, pasted>>
    BY DEF ClickCopy, button, receive, TypeInv
  <1>2. /\ CopiesInv'
        /\ clipboard' \in Copied \cup {None} /\ copied' \in BOOLEAN /\ timers' \in Nat
    BY <1>1, CopyKeeps
  <1>3. TypeInv'
    BY <1>1, <1>2 DEF TypeInv
  <1> QED BY <1>1, <1>2, <1>3 DEF ButtonInv, BusyIffCall, OfButton, AnswersInv, FieldInv, Leads

LEMMA PasteKeeps ==
  ASSUME IInv, Paste
  PROVE  IInv'
  <1> USE DEF IInv
  <1>1. /\ pasted' = clipboard
        /\ UNCHANGED <<tab, panel, link, busy, links, calls, granted, clipboard, copied, timers>>
        /\ \E text \in Texts(clipboard.link), before, after \in {<<>>, <<Space>>} :
             field' = before \o text \o after
    BY DEF Paste, button, copying
  <1>2. FieldInv'
    BY <1>1 DEF FieldInv, Texts
  <1>3. TypeInv'
    BY <1>1 DEF TypeInv
  <1>4. CopiesInv'
    BY <1>1 DEF CopiesInv, Leads
  <1> QED BY <1>1, <1>2, <1>3, <1>4 DEF ButtonInv, BusyIffCall, OfButton, AnswersInv, Leads

LEMMA AnswerKeepsButton ==
  ASSUME IInv, NEW i \in DOMAIN calls, NEW stage \in {"failed", "granted"}, NEW l \in Links \cup {None},
         Answer(i, stage, l), UNCHANGED <<tab, panel, busy>>
  PROVE  ButtonInv'
  <1>1. DOMAIN calls' = DOMAIN calls /\ \A j \in DOMAIN calls : OfButton(calls'[j]) = OfButton(calls[j])
    BY AnswerIs DEF OfButton, IInv
  <1> QED BY <1>1, ButtonStays DEF IInv

\* The share that is granted has the number of its file, or the answer names none.
LEMMA GrantKeeps ==
  ASSUME IInv, NEW i \in DOMAIN calls, Grant(i)
  PROVE  IInv'
  <1> USE DEF IInv
  <1>1. /\ UNCHANGED <<tab, panel, link, busy, links, clipboard, copied, timers, field, pasted>>
        /\ granted' = Append(granted, calls[i].file) /\ Len(granted) < MaxShares
    BY DEF Grant, button, copying, receive
  <1>2. calls[i].file \in Files
    BY CallsAre DEF Call
  <1>3. /\ granted' \in Seq(Files) /\ Len(granted') = Len(granted) + 1
        /\ granted'[Len(granted')] = calls[i].file
        /\ DOMAIN granted' = 1 .. Len(granted') /\ Len(granted) \in Nat
    BY <1>1, <1>2, AppendProperties, LenProperties DEF TypeInv
  <1>4. \A l, f : Leads(l, f) => Leads(l, f)'
    BY <1>1, <1>2, LeadsOn
  <1>5. Len(granted') \in Shares
    BY <1>1, <1>3, BoundsAssumption DEF Shares
  <1>6. PICK stage \in {"failed", "granted"}, l \in Links \cup {None} :
          /\ Answer(i, stage, l)
          /\ stage = "granted" => l \in Links /\ (l = Len(granted') \/ l = Nowhere)
    BY <1>5 DEF Grant, Links
  <1>7. /\ calls' \in Seq(Call) /\ DOMAIN calls' = DOMAIN calls
        /\ \A j \in DOMAIN calls : j # i => calls'[j] = calls[j]
        /\ calls'[i].stage = stage /\ calls'[i].link = l /\ calls'[i].file = calls[i].file
    BY <1>6, AnswerIs
  <1>8. TypeInv'
    BY <1>1, <1>3, <1>7 DEF TypeInv
  <1>9. ButtonInv'
    BY <1>1, <1>6, AnswerKeepsButton
  <1>10. AnswersInv'
    <2>1. ASSUME NEW j \in DOMAIN calls', calls'[j].stage = "granted"
          PROVE  calls'[j].link \in Links /\ Leads(calls[j].link, calls[j].file)'
      <3>1. CASE j # i
        BY <1>4, <1>7, <2>1, <3>1 DEF AnswersInv
      <3>2. CASE j = i
        BY <1>3, <1>6, <1>7, <2>1, <3>2 DEF Leads
      <3> QED BY <3>1, <3>2
    <2> QED BY <2>1 DEF AnswersInv
  <1>11. CopiesInv'
    BY <1>1, <1>4 DEF CopiesInv
  <1>12. FieldInv'
    BY <1>1 DEF FieldInv
  <1> QED BY <1>8, <1>9, <1>10, <1>11, <1>12

LEMMA RefuseKeeps ==
  ASSUME IInv, NEW i \in DOMAIN calls, Refuse(i)
  PROVE  IInv'
  <1> USE DEF IInv
  <1>1. /\ UNCHANGED <<tab, panel, link, busy, links, granted, clipboard, copied, timers, field, pasted>>
        /\ Answer(i, "failed", None)
    BY DEF Refuse, button, copying, receive
  <1>2. /\ calls' \in Seq(Call) /\ DOMAIN calls' = DOMAIN calls
        /\ \A j \in DOMAIN calls : j # i => calls'[j] = calls[j]
        /\ calls'[i].stage = "failed"
    BY <1>1, AnswerIs
  <1>3. TypeInv'
    BY <1>1, <1>2 DEF TypeInv
  <1>4. ButtonInv'
    BY <1>1, AnswerKeepsButton
  <1>5. AnswersInv'
    BY <1>1, <1>2 DEF AnswersInv, Leads
  <1> QED BY <1>1, <1>3, <1>4, <1>5 DEF CopiesInv, FieldInv, Leads

\* A call that is heard is gone; the answers of the others stay.
LEMMA HeardKeeps ==
  ASSUME IInv, NEW i \in DOMAIN calls, calls' = RemoveAt(calls, i), granted' = granted
  PROVE  /\ calls' \in Seq(Call) /\ AnswersInv'
         /\ (~ OfButton(calls[i]) /\ UNCHANGED <<tab, panel, busy>> => ButtonInv')
         /\ (OfButton(calls[i]) /\ UNCHANGED <<tab, panel>> /\ busy' = FALSE => ButtonInv')
  <1> USE DEF IInv
  <1>1. /\ calls' \in Seq(Call)
        /\ \A j \in DOMAIN calls' : \E k \in DOMAIN calls : k # i /\ calls'[j] = calls[k]
        /\ \A k \in DOMAIN calls : k # i => \E j \in DOMAIN calls' : calls'[j] = calls[k]
        /\ \A j1, j2 \in DOMAIN calls' : j1 # j2 =>
             \E k1, k2 \in DOMAIN calls : k1 # k2 /\ calls'[j1] = calls[k1] /\ calls'[j2] = calls[k2]
    BY RemovedIs
  <1>2. AnswersInv'
    BY <1>1, AnswersStay
  <1>3. \A j1, j2 \in DOMAIN calls' : OfButton(calls'[j1]) /\ OfButton(calls'[j2]) => j1 = j2
    BY <1>1 DEF ButtonInv
  <1>4. ASSUME ~ OfButton(calls[i]), UNCHANGED <<tab, panel, busy>> PROVE ButtonInv'
    <2>1. (\E j \in DOMAIN calls' : OfButton(calls'[j])) <=> \E k \in DOMAIN calls : OfButton(calls[k])
      BY <1>1, <1>4
    <2>2. BusyIffCall'
      BY <1>4, <2>1 DEF ButtonInv, BusyIffCall, OfButton
    <2> QED BY <1>3, <1>4, <2>2 DEF ButtonInv, OfButton
  <1>5. ASSUME OfButton(calls[i]), UNCHANGED <<tab, panel>>, busy' = FALSE PROVE ButtonInv'
    <2>1. \A j \in DOMAIN calls' : ~ OfButton(calls'[j])
      BY <1>1, <1>5 DEF ButtonInv
    <2>2. BusyIffCall'
      BY <1>5, <2>1 DEF BusyIffCall, OfButton
    <2> QED BY <1>3, <1>5, <2>2 DEF ButtonInv, OfButton
  <1> QED BY <1>1, <1>2, <1>4, <1>5

LEMMA ButtonHearsKeeps ==
  ASSUME IInv, NEW i \in DOMAIN calls, ButtonHears(i)
  PROVE  IInv'
  <1> USE DEF IInv
  <1>1. /\ calls' = RemoveAt(calls, i) /\ calls[i].from = "button" /\ calls[i].stage # "awaited"
        /\ UNCHANGED <<tab, panel, links, granted, clipboard, copied, timers, field, pasted>>
    BY DEF ButtonHears, copying, receive
  <1>2. calls[i] \in Call
    BY CallsAre
  <1>3. /\ calls' \in Seq(Call) /\ AnswersInv'
        /\ (~ OfButton(calls[i]) /\ UNCHANGED <<tab, panel, busy>> => ButtonInv')
        /\ (OfButton(calls[i]) /\ UNCHANGED <<tab, panel>> /\ busy' = FALSE => ButtonInv')
    BY <1>1, HeardKeeps
  <1>4. CASE calls[i].here
    <2>1. busy' = FALSE /\ link' \in {link, calls[i].link} /\ OfButton(calls[i])
      BY <1>1, <1>4 DEF ButtonHears, OfButton
    <2>2. link' \in Links \cup {None}
      BY <1>2, <2>1 DEF TypeInv, Call
    <2>3. TypeInv' /\ ButtonInv'
      BY <1>1, <1>3, <2>1, <2>2 DEF TypeInv
    <2> QED BY <1>1, <1>3, <2>3 DEF CopiesInv, FieldInv, Leads
  <1>5. CASE ~ calls[i].here
    <2>1. UNCHANGED <<link, busy>> /\ ~ OfButton(calls[i])
      BY <1>5 DEF ButtonHears, OfButton, button
    <2>2. TypeInv' /\ ButtonInv'
      BY <1>1, <1>3, <2>1 DEF TypeInv
    <2> QED BY <1>1, <1>3, <2>2 DEF CopiesInv, FieldInv, Leads
  <1> QED BY <1>4, <1>5

LEMMA RowHearsKeeps ==
  ASSUME IInv, NEW i \in DOMAIN calls, RowHears(i)
  PROVE  /\ IInv'
         /\ \A f \in Files : links[f] # None => links'[f] # None
  <1> USE NamesAssumption DEF IInv
  <1> DEFINE c == calls[i]
  <1>1. /\ c.from = "row" /\ c.stage = "granted" /\ calls' = RemoveAt(calls, i)
        /\ links' = IF c.here THEN [links EXCEPT ![c.file] = c.link] ELSE links
        /\ Copy(c.link, c.file)
        /\ UNCHANGED <<tab, panel, link, busy, granted, field, pasted>>
    BY DEF RowHears, button, receive
  <1>2. c \in Call /\ c.file \in Files
    BY CallsAre DEF Call
  <1>3. c.link \in Links /\ Leads(c.link, c.file)
    BY <1>1 DEF AnswersInv
  <1>4. calls' \in Seq(Call) /\ AnswersInv' /\ ButtonInv'
    BY <1>1, HeardKeeps DEF OfButton
  <1>5. /\ CopiesInv'
        /\ clipboard' \in Copied \cup {None} /\ copied' \in BOOLEAN /\ timers' \in Nat
    BY <1>1, <1>2, <1>3, CopyKeeps
  <1> HIDE DEF c
  <1>6. /\ links' \in [Files -> Links \cup {None}]
        /\ \A f \in Files : links[f] # None => links'[f] # None
    BY <1>1, <1>2, <1>3 DEF TypeInv
  <1>7. TypeInv'
    BY <1>1, <1>4, <1>5, <1>6 DEF TypeInv
  <1> QED BY <1>1, <1>4, <1>5, <1>6, <1>7 DEF FieldInv

LEMMA RowRejectsKeeps ==
  ASSUME IInv, NEW i \in DOMAIN calls, RowRejects(i)
  PROVE  IInv'
  <1> USE DEF IInv
  <1>1. /\ calls' = RemoveAt(calls, i) /\ calls[i].from = "row"
        /\ UNCHANGED <<tab, panel, link, busy, links, granted, clipboard, copied, timers, field, pasted>>
    BY DEF RowRejects, button, copying, receive
  <1>2. calls' \in Seq(Call) /\ AnswersInv' /\ ButtonInv'
    BY <1>1, HeardKeeps DEF OfButton
  <1>3. TypeInv'
    BY <1>1, <1>2 DEF TypeInv
  <1> QED BY <1>1, <1>2, <1>3 DEF CopiesInv, FieldInv, Leads

LEMMA TimerFiresKeeps ==
  ASSUME IInv, TimerFires
  PROVE  IInv'
  <1> USE DEF IInv
  <1>1. /\ timers' \in Nat /\ copied' = FALSE
        /\ UNCHANGED <<tab, panel, link, busy, links, calls, granted, clipboard, field, pasted>>
    BY DEF TimerFires, button, receive, TypeInv
  <1>2. TypeInv'
    BY <1>1 DEF TypeInv
  <1> QED BY <1>1, <1>2 DEF ButtonInv, BusyIffCall, OfButton, AnswersInv, CopiesInv, FieldInv, Leads

LEMMA StutterKeeps ==
  ASSUME IInv, UNCHANGED vars
  PROVE  IInv'
  <1>1. UNCHANGED <<tab, panel, link, busy, links, calls, granted, clipboard, copied, timers, field, pasted>>
    BY DEF vars
  <1> QED BY <1>1 DEF IInv, TypeInv, ButtonInv, BusyIffCall, OfButton, AnswersInv, CopiesInv, FieldInv, Leads

LEMMA NextKeeps == IInv /\ [Next]_vars => IInv'
  <1> SUFFICES ASSUME IInv, [Next]_vars PROVE IInv'
    OBVIOUS
  <1>1. CASE User
    BY <1>1, SwitchTabKeeps, SelectPanelKeeps, ClickCreateKeeps, ClickCopyKeeps, PasteKeeps, ClickRowKeeps
    DEF User
  <1>2. CASE Server
    BY <1>2, GrantKeeps, RefuseKeeps DEF Server
  <1>3. ASSUME NEW i \in DOMAIN calls, Hears(i) PROVE IInv'
    BY <1>3, ButtonHearsKeeps, RowHearsKeeps, RowRejectsKeeps DEF Hears
  <1>4. CASE TimerFires \/ UNCHANGED vars
    BY <1>4, TimerFiresKeeps, StutterKeeps
  <1> QED BY <1>1, <1>2, <1>3, <1>4 DEF Next

LEMMA IInvHolds == Spec => []IInv
  BY InitIInv, NextKeeps, PTL DEF Spec
-----------------------------------------------------------------------------
\* The share button is disabled exactly while its own call is under way, however
\* many buttons have come and gone before it with their calls (ShareButton, finally).
THEOREM ButtonIsHonest == Spec => []BusyIffCall
  <1>1. IInv => BusyIffCall
    BY DEF IInv, ButtonInv
  <1> QED BY <1>1, IInvHolds, PTL

\* Whatever the user pastes of the link that the click on a row has put into the
\* clipboard, the field cleans it to the token of a share of that row's file, for any
\* number of shares (page.tsx, LinkTab and ReceiveTab).
THEOREM PastedLinksLead == Spec => []PasteLeadsToItsFile
  <1> USE NamesAssumption
  <1>1. IInv => PasteLeadsToItsFile
    <2> SUFFICES ASSUME IInv, pasted # None, pasted.row # None, pasted.link # Nowhere
                 PROVE  Len(Clean(field)) = 1 /\ granted[Clean(field)[1]] = pasted.row
      BY DEF PasteLeadsToItsFile
    <2>1. pasted.link \in Shares
      BY DEF IInv, TypeInv, Copied, Links
    <2>2. granted[pasted.link] = pasted.row
      BY DEF IInv, CopiesInv, Leads
    <2>3. PICK text \in Texts(pasted.link), before \in {<<>>, <<Space>>}, after \in {<<>>, <<Space>>} :
            field = before \o text \o after
      BY DEF IInv, FieldInv
    <2>4. Clean(field) = <<pasted.link>>
      BY <2>1, <2>3, CleanFindsTheToken
    <2> QED BY <2>2, <2>4
  <1> QED BY <1>1, IInvHolds, PTL

\* No row of the LINK tab loses its link while the tab is on the page, in whatever
\* order the calls of the rows are answered (page.tsx, setLinks).
THEOREM RowsKeepTheirLinks == Spec => LinksStay
  <1>1. ASSUME IInv, [Next]_vars
        PROVE  [\A f \in Files : links[f] # None /\ tab' = tab => links'[f] # None]_vars
    <2> SUFFICES ASSUME NEW f \in Files, links[f] # None, tab' = tab PROVE links'[f] # None
      OBVIOUS
    <2>1. ASSUME NEW i \in DOMAIN calls, RowHears(i) PROVE links'[f] # None
      BY <1>1, <2>1, RowHearsKeeps
    <2>2. CASE links' = links
      BY <2>2
    <2>3. CASE User
      BY <2>2, <2>3 DEF User, SwitchTab, SelectPanel, ClickCreate, ClickCopy, ClickRow, Paste
    <2>4. CASE Server \/ TimerFires \/ UNCHANGED vars
      BY <2>2, <2>4 DEF Server, Grant, Refuse, TimerFires, vars
    <2>5. ASSUME NEW i \in DOMAIN calls, Hears(i) PROVE links'[f] # None
      BY <2>1, <2>2, <2>5 DEF Hears, ButtonHears, RowRejects
    <2> QED BY <1>1, <2>3, <2>4, <2>5 DEF Next
  <1> QED BY <1>1, IInvHolds, PTL DEF Spec, LinksStay
=============================================================================
