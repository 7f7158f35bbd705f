------------------------------- MODULE CtrSeek -------------------------------
(***************************************************************************)
(* The counter behind the position of the keystream (backend/internal/     *)
(* crypto/crypto.go NewCTRAt): RangeServe says where the keystream stands, *)
(* this module by which counter block AES then makes it.                   *)
(*                                                                         *)
(* A counter is Width digits of base Base, the first the highest: 16 bytes *)
(* in the code.  Upload has walked from iv, block by block; a download     *)
(* jumps, and must meet the counter of the same block.                     *)
(***************************************************************************)
EXTENDS RangeServe

CONSTANTS Base, Width

ASSUME CounterAssumption == Base \in Nat \ {0, 1} /\ Width \in Nat \ {0}

VARIABLES
  iv,    \* the nonce of the row
  ctr    \* the counter of the block that the next byte of the keystream is in

ctrVars == <<vars, iv, ctr>>

Counter == [1 .. Width -> 0 .. Base - 1]

\* The big-endian increment of cipher.NewCTR, once a block.
Increment(c) ==
  [i \in 1 .. Width |->
     IF \A j \in i + 1 .. Width : c[j] = Base - 1 THEN (c[i] + 1) % Base ELSE c[i]]

\* n blocks further, one by one.
Walk(c, n) ==
  LET walk[k \in 0 .. n] == IF k = 0 THEN c ELSE Increment(walk[k - 1])
  IN walk[n]

\* Faulty variant: what a digit overflows is lost.
TurnDropsCarry(s, i) ==
  IF s.carry = 0 THEN s ELSE
  LET sum == s.ctr[i] + (s.carry % Base)
  IN [ctr |-> [s.ctr EXCEPT ![i] = sum % Base], carry |-> s.carry \div Base]

\* One turn of the loop, at digit i.
Turn(s, i) ==
  IF s.carry = 0 THEN s ELSE
  LET sum == s.ctr[i] + (s.carry % Base)
  IN [ctr |-> [s.ctr EXCEPT ![i] = sum % Base],
      carry |-> (s.carry \div Base) + (sum \div Base)]

\* The loop from the last digit to the first: iv + n; what is carried out is dropped.
Advanced(n) ==
  LET after[k \in 0 .. Width] ==
        IF k = 0 THEN [ctr |-> iv, carry |-> n]
        ELSE Turn(after[k - 1], Width + 1 - k)
  IN after[Width].ctr

CtrInit == Init /\ iv \in Counter /\ ctr = iv

SeekCounter == Seek /\ ctr' = Advanced(range.start \div Block)

\* The stream goes to the next counter whenever a block is used up.
CopyCounter == Copy /\ ctr' = Walk(ctr, (kpos' \div Block) - (kpos \div Block))

CtrNext ==
  /\ \/ SeekCounter \/ CopyCounter
     \/ UNCHANGED ctr /\ \/ ServeEmpty \/ Parse \/ SeekFails
                         \/ \E failed \in BOOLEAN : CopyEnds(failed)
  /\ UNCHANGED iv

CtrSpec == CtrInit /\ [][CtrNext]_ctrVars
-----------------------------------------------------------------------------
\* Wherever a download starts and however its reads fall, each byte is decrypted under
\* the counter that Upload's walk from the iv has reached at that byte, also where the
\* addition carries through several digits or past the highest (crypto.go, NewCTRAt).
CounterIsOfBlock ==
  status \in {200, 206} /\ size > 0 => ctr = Walk(iv, kpos \div Block)
=============================================================================
