------------------------------ MODULE RangeServe ------------------------------
(***************************************************************************)
(* One answer of serveDecrypted: the Range header, the seek into the blob  *)
(* and into the keystream, and the copy loop (backend/internal/files/      *)
(* handler.go, service.go DecryptStream, crypto.go NewCTRAt).              *)
(*                                                                         *)
(* A byte stands for its position.  Upload XORs byte p of the file with    *)
(* byte p of the keystream; the client gets byte p back if the same byte   *)
(* of the keystream is applied again, and Garbage otherwise.  A number in  *)
(* a header is what strconv.ParseInt makes of it; what it refuses is Bad.  *)
(***************************************************************************)
EXTENDS Integers, Sequences

CONSTANTS
  MaxSize,   \* bound: the largest file
  Block,     \* aes.BlockSize
  Buffer     \* what one Read of the copy loop returns at most

ASSUME SizeAssumption == MaxSize \in Nat
ASSUME BlockAssumption == Block \in Nat \ {0} /\ Buffer \in Nat \ {0}

Bad == [form |-> "bad"]
Whole == [form |-> "whole"]
Suffix(n) == [form |-> "suffix", n |-> n]
From(a) == [form |-> "from", first |-> a]
FromTo(a, b) == [form |-> "closed", first |-> a, last |-> b]

\* Bound: the numbers of a header.  The text before the first "-" holds no sign.
Positions == 0 .. MaxSize + 1
Numbers == -1 .. MaxSize + 1

Headers ==
  {Bad, Whole} \cup {Suffix(n) : n \in Numbers} \cup {From(a) : a \in Positions}
    \cup {FromTo(a, b) : a \in Positions, b \in Numbers}

Garbage == -1
Refused == [ok |-> FALSE, start |-> 0, length |-> 0]
Slice(start, length) == [ok |-> TRUE, start |-> start, length |-> length]

SmallerOf(a, b) == IF a <= b THEN a ELSE b

\* Faulty variant: the last byte of a range is not clamped to the file.
parseRangeUnclamped(h, size) ==
  CASE h.form = "whole" -> Slice(0, size)
    [] h.form = "suffix" /\ h.n > 0 -> Slice(size - SmallerOf(h.n, size), SmallerOf(h.n, size))
    [] h.form = "from" /\ 0 <= h.first /\ h.first < size -> Slice(h.first, size - h.first)
    [] h.form = "closed" /\ 0 <= h.first /\ h.first < size /\ h.first <= h.last ->
         Slice(h.first, h.last - h.first + 1)
    [] OTHER -> Refused

parseRange(h, size) ==
  CASE h.form = "whole" -> Slice(0, size)
    [] h.form = "suffix" /\ h.n > 0 -> Slice(size - SmallerOf(h.n, size), SmallerOf(h.n, size))
    [] h.form = "from" /\ 0 <= h.first /\ h.first < size -> Slice(h.first, size - h.first)
    [] h.form = "closed" /\ 0 <= h.first /\ h.first < size /\ h.first <= h.last ->
         Slice(h.first, SmallerOf(h.last, size - 1) - h.first + 1)
    [] OTHER -> Refused

VARIABLES
  pc,       \* where serveDecrypted is
  size,     \* f.SizeBytes, the length of the blob
  header,   \* the Range header
  head,     \* is it a HEAD request?
  range,    \* what parseRange has returned
  status,   \* the status line, 0 before it is written
  fpos,     \* position of the open blob
  kpos,     \* position of the keystream
  body      \* the bytes sent

request == <<size, header, head>>
vars == <<pc, size, header, head, range, status, fpos, kpos, body>>

Init ==
  /\ pc = "parse"
  /\ size \in 0 .. MaxSize
  /\ header \in Headers
  /\ head \in BOOLEAN
  /\ range = Refused
  /\ status = 0
  /\ fpos = 0 /\ kpos = 0
  /\ body = <<>>

\* An empty file is answered without a look at the header.
ServeEmpty ==
  /\ pc = "parse" /\ size = 0
  /\ status' = 200
  /\ pc' = "done"
  /\ UNCHANGED <<request, range, fpos, kpos, body>>

Parse ==
  /\ pc = "parse" /\ size > 0
  /\ range' = parseRange(header, size)
  /\ \/ parseRange(header, size).ok /\ pc' = "seek" /\ UNCHANGED status
     \/ ~ parseRange(header, size).ok /\ pc' = "done" /\ status' = 416
  /\ UNCHANGED <<request, fpos, kpos, body>>

\* Faulty variant: the partial first block is not discarded.
keystreamAtBlock(offset) == Block * (offset \div Block)

\* NewCTRAt: the counter is advanced by whole blocks, the rest is discarded.
keystreamAt(offset) == Block * (offset \div Block) + (offset % Block)

\* Open, seek, set up the stream and write the header.
Seek ==
  /\ pc = "seek"
  /\ fpos' = range.start
  /\ kpos' = keystreamAt(range.start)
  /\ status' = IF header = Whole THEN 200 ELSE 206
  /\ pc' = IF head THEN "done" ELSE "copy"
  /\ UNCHANGED <<request, range, body>>

\* Opening, seeking or the stored nonce fails: 500.
SeekFails ==
  /\ pc = "seek"
  /\ status' = 500
  /\ pc' = "done"
  /\ UNCHANGED <<request, range, fpos, kpos, body>>

\* Faulty variant: the end of the range is given to CopyN instead of its length.
LimitIsEnd == range.start + range.length - Len(body)

\* What is left of io.LimitReader(fh, length).
Limit == range.length - Len(body)

Decrypted(f, k) == IF f = k THEN f ELSE Garbage

\* One turn of io.CopyN: decryptReader reads n bytes and applies the keystream.
Copy ==
  /\ pc = "copy" /\ Limit > 0
  /\ \E n \in 1 .. SmallerOf(Buffer, Limit) :
       /\ fpos + n <= size
       /\ fpos' = fpos + n
       /\ kpos' = kpos + n
       /\ body' = body \o [i \in 1 .. n |-> Decrypted(fpos + i - 1, kpos + i - 1)]
  /\ UNCHANGED <<request, pc, range, status>>

\* CopyN has copied length bytes, has met end of file, or a read or a write has
\* failed; its result is ignored.
CopyEnds(failed) ==
  /\ pc = "copy"
  /\ Limit = 0 \/ fpos = size \/ failed
  /\ pc' = IF failed THEN "broken" ELSE "done"
  /\ UNCHANGED <<request, range, status, fpos, kpos, body>>

Next == \/ ServeEmpty \/ Parse \/ Seek \/ SeekFails \/ Copy
        \/ \E failed \in BOOLEAN : CopyEnds(failed)

Spec == Init /\ [][Next]_vars
-----------------------------------------------------------------------------
(* Every variable has its type. *)
TypeOK ==
  /\ pc \in {"parse", "seek", "copy", "done", "broken"}
  /\ size \in 0 .. MaxSize
  /\ header \in Headers
  /\ head \in BOOLEAN
  /\ range \in [ok : BOOLEAN, start : Nat, length : Nat]
  /\ status \in {0, 200, 206, 416, 500}
  /\ fpos \in 0 .. size
  /\ kpos \in Nat
  /\ body \in Seq(Int)

\* The bytes of a file of sz bytes that a header asks for (RFC 9110, 14.1.2).
Requested(h, sz) ==
  {p \in 0 .. sz - 1 :
    CASE h.form = "whole" -> TRUE
      [] h.form = "suffix" -> p >= sz - h.n
      [] h.form = "from" -> h.first >= 0 /\ p >= h.first
      [] h.form = "closed" -> h.first >= 0 /\ h.first <= p /\ p <= h.last
      [] OTHER -> FALSE}

\* The bytes the answer announces in Content-Length and Content-Range.
Announced == range.start .. range.start + range.length - 1

\* The announced range is the requested one, cut to the file; it is refused
\* exactly if nothing is left of it (handler.go, parseRange).
AnnouncesWhatWasAsked ==
  /\ status \in {200, 206} /\ size > 0 => Announced = Requested(header, size)
  /\ status = 416 => Requested(header, size) = {}
  /\ status \in {200, 206} /\ size > 0 => Announced # {}

\* Every byte sent is the plaintext byte of its place, at any offset within a
\* block and for any sizes of the reads (crypto.go, NewCTRAt; decryptReader).
SendsPlaintext == \A i \in 1 .. Len(body) : body[i] = range.start + i - 1

\* An answer that was not broken off has exactly the body its Content-Length
\* announces: the copy never meets end of file first (handler.go, serveDecrypted).
BodyIsComplete ==
  pc = "done" /\ status \in {200, 206} /\ size > 0 =>
    Len(body) = IF head THEN 0 ELSE range.length
=============================================================================
