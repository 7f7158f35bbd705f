--------------------------- MODULE ShareLinksProofs ---------------------------
(***************************************************************************)
(* Proofs about ShareLinks, for any number of workers, users, files and    *)
(* links, any expiries and any bound on the clock: IInv is inductive, and  *)
(* the safety properties follow from it.                                   *)
(***************************************************************************)
EXTENDS ShareLinksInv, TLAPS

\* Steps that only move a worker leave the parts of IInv alone that do not look at
\* the workers.
LEMMA TableUnchanged ==
  ASSUME IInv, UNCHANGED <<files, share, used, late, now, history>>
  PROVE  NoDanglingLink' /\ ClosedForGood' /\ UsedInv' /\ GrantedInv'
<1> USE DEF IInv, files, history
<1>1. NoDanglingLink' /\ ClosedForGood' /\ UsedInv'
  BY DEF NoDanglingLink, FileListed, ClosedForGood, UsedInv
<1>2. GrantedInv'
  BY DEF GrantedInv, Works
<1> QED
  BY <1>1, <1>2

\* What the UPDATE of a revocation does to the table.
LEMMA RevokeEffect ==
  ASSUME TypeOK, NEW s \in ShareIds, share[s] # None, Revoke(s)
  PROVE  /\ share' \in [ShareIds -> Row \cup {None}]
         /\ \A r \in ShareIds : r # s => share'[r] = share[r]
         /\ share'[s] # None /\ share'[s].revoked
         /\ share'[s].file = share[s].file /\ share'[s].expires = share[s].expires
<1>1. share[s] \in Row
  BY DEF TypeOK
<1> DEFINE r == [share[s] EXCEPT !.revoked = TRUE]
<1>2. r \in Row /\ r.revoked /\ r.file = share[s].file /\ r.expires = share[s].expires
  BY <1>1 DEF Row
<1>3. share' = [share EXCEPT ![s] = r]
  BY DEF Revoke
<1> HIDE DEF r
<1> QED
  BY <1>2, <1>3, NoRowAssumption DEF TypeOK

\* A file appears.
LEMMA FileUploadedStep ==
  ASSUME IInv, NEW f \in FileIds, FileUploaded(f)
  PROVE  IInv'
<1> USE DEF IInv, FileUploaded, Life!Appear, Life!Become, local, history
<1>1. TypeOK'
  BY DEF TypeOK, Row, Stages
<1>2. NoDanglingLink'
  BY DEF NoDanglingLink, FileListed, TypeOK
<1>3. ClosedForGood'
  BY DEF ClosedForGood, TypeOK
<1>4. PendingInv'
  BY DEF PendingInv, Pending, Creating, LateInserts, TypeOK
<1>5. UsedInv'
  BY DEF UsedInv, TypeOK
<1>6. CreateInv'
  BY DEF CreateInv, Works, Pending, Creating, LateInserts, TypeOK
<1>7. GrantedInv'
  BY DEF GrantedInv, Works, TypeOK
<1>8. RevokeInv'
  BY DEF RevokeInv, Pending, Creating, LateInserts, TypeOK
<1>9. FollowInv'
  BY DEF FollowInv, Dead, Expired, TypeOK
<1> QED
  BY <1>1, <1>2, <1>3, <1>4, <1>5, <1>6, <1>7, <1>8, <1>9

\* The deletion of a file is asked for.
LEMMA FileDeleteAskedStep ==
  ASSUME IInv, NEW f \in FileIds, FileDeleteAsked(f)
  PROVE  IInv'
<1> USE DEF IInv, FileDeleteAsked, Life!AskDelete, local, history
<1>1. TypeOK'
  BY DEF TypeOK, Row, Stages
<1>2. NoDanglingLink'
  BY DEF NoDanglingLink, FileListed, TypeOK
<1>3. ClosedForGood'
  BY DEF ClosedForGood, TypeOK
<1>4. PendingInv'
  BY DEF PendingInv, Pending, Creating, LateInserts, TypeOK
<1>5. UsedInv'
  BY DEF UsedInv, TypeOK
<1>6. CreateInv'
  BY DEF CreateInv, Works, Pending, Creating, LateInserts, TypeOK
<1>7. GrantedInv'
  BY DEF GrantedInv, Works, TypeOK
<1>8. RevokeInv'
  BY DEF RevokeInv, Pending, Creating, LateInserts, TypeOK
<1>9. FollowInv'
  BY DEF FollowInv, Dead, Expired, TypeOK
<1> QED
  BY <1>1, <1>2, <1>3, <1>4, <1>5, <1>6, <1>7, <1>8, <1>9

\* A file goes, and its links with it.
LEMMA FileErasedStep ==
  ASSUME IInv, NEW f \in FileIds, FileErased(f)
  PROVE  IInv'
<1> USE DEF IInv, FileErased, Life!Erase, Life!Become, local, history
<1>1. TypeOK'
  BY DEF TypeOK, Row, Stages
<1>2. NoDanglingLink'
  BY DEF NoDanglingLink, FileListed, TypeOK
<1>3. ClosedForGood'
  BY DEF ClosedForGood, TypeOK
<1>4. PendingInv'
  BY DEF PendingInv, Pending, Creating, LateInserts, TypeOK
<1>5. UsedInv'
  BY DEF UsedInv, TypeOK
<1>6. CreateInv'
  BY DEF CreateInv, Works, Pending, Creating, LateInserts, TypeOK
<1>7. GrantedInv'
  BY DEF GrantedInv, Works, TypeOK
<1>8. RevokeInv'
  BY DEF RevokeInv, Pending, Creating, LateInserts, TypeOK
<1>9. FollowInv'
  BY DEF FollowInv, Dead, Expired, TypeOK
<1> QED
  BY <1>1, <1>2, <1>3, <1>4, <1>5, <1>6, <1>7, <1>8, <1>9

\* A create draws an id that nobody has used.
LEMMA CreateLookupStep ==
  ASSUME IInv, NEW w \in Workers, NEW f \in FileIds, NEW ttl \in Ttls, CreateLookup(w, f, ttl)
  PROVE  IInv'
<1> USE DEF IInv, CreateLookup, Begin, Expiry, files, history
<1>1. TypeOK'
  BY TtlsAssumption, OwnerAssumption, ClockAssumption DEF TypeOK, Row, Stages
<1>2. NoDanglingLink'
  BY DEF NoDanglingLink, FileListed, TypeOK
<1>3. ClosedForGood'
  BY DEF ClosedForGood, TypeOK
<1>4. PendingInv'
  BY DEF PendingInv, Pending, Creating, LateInserts, TypeOK, UsedInv
<1>5. UsedInv'
  BY DEF UsedInv, TypeOK
<1>6. CreateInv'
  BY DEF CreateInv, Works, Pending, Creating, LateInserts, TypeOK
<1>7. GrantedInv'
  BY DEF GrantedInv, Works, TypeOK
<1>8. RevokeInv'
  BY DEF RevokeInv, Pending, Creating, LateInserts, TypeOK
<1>9. FollowInv'
  BY DEF FollowInv, Dead, Expired, TypeOK
<1> QED
  BY <1>1, <1>2, <1>3, <1>4, <1>5, <1>6, <1>7, <1>8, <1>9

\* The INSERT of a waiting create commits.
LEMMA ShareInsertStep ==
  ASSUME IInv, NEW w \in Workers, ShareInsert(w)
  PROVE  IInv'
<1> USE DEF IInv, ShareInsert, Insert, Goto, files, history
<1>1. TypeOK'
  BY DEF TypeOK, Row, Stages
<1>2. NoDanglingLink'
  BY DEF NoDanglingLink, FileListed, TypeOK
<1>3. ClosedForGood'
  BY DEF ClosedForGood, TypeOK, PendingInv, Pending, Creating, LateInserts
<1>4. PendingInv'
  BY DEF PendingInv, Pending, Creating, LateInserts, TypeOK
<1>5. UsedInv'
  BY DEF UsedInv, TypeOK, PendingInv, Pending, Creating, LateInserts
<1>6. CreateInv'
  BY NoRowAssumption DEF CreateInv, Works, Pending, Creating, LateInserts,
    TypeOK, PendingInv
<1>7. GrantedInv'
  BY DEF GrantedInv, Works, TypeOK, PendingInv, Pending, Creating, LateInserts
<1>8. RevokeInv'
  BY DEF RevokeInv, Pending, Creating, LateInserts, TypeOK
<1>9. FollowInv'
  BY DEF FollowInv, Dead, Expired, TypeOK, PendingInv, Pending, Creating,
    LateInserts
<1> QED
  BY <1>1, <1>2, <1>3, <1>4, <1>5, <1>6, <1>7, <1>8, <1>9

\* The foreign key refuses the INSERT.
LEMMA ShareInsertRefusedStep ==
  ASSUME IInv, NEW w \in Workers, ShareInsertRefused(w)
  PROVE  IInv'
<1> USE DEF IInv, ShareInsertRefused, Finish, files, history
<1>1. NoDanglingLink' /\ ClosedForGood' /\ UsedInv' /\ GrantedInv'
  BY TableUnchanged
<1>2. TypeOK'
  BY DEF TypeOK, Row, Stages
<1>3. PendingInv'
  BY DEF PendingInv, Pending, Creating, LateInserts, TypeOK
<1>4. CreateInv'
  BY DEF CreateInv, Works, Pending, Creating, LateInserts, TypeOK
<1>5. RevokeInv'
  BY DEF RevokeInv, Pending, Creating, LateInserts, TypeOK
<1>6. FollowInv'
  BY DEF FollowInv, Dead, Expired, TypeOK
<1> QED
  BY <1>1, <1>2, <1>3, <1>4, <1>5, <1>6

\* 201 is answered for an id that is not pending.
LEMMA CreateAnsweredStep ==
  ASSUME IInv, NEW w \in Workers, CreateAnswered(w)
  PROVE  IInv'
<1> USE DEF IInv, files
<1>1. target[w] \in used \ Pending
  BY DEF CreateAnswered, CreateInv
<1>2. \A s \in ShareIds : s # target[w] => granted'[s] = granted[s]
  BY DEF CreateAnswered, TypeOK
<1>3. Creating' = Creating /\ \A v \in Creating : target'[v] = target[v]
  BY DEF CreateAnswered, Finish, Creating, TypeOK
<1>4. LateInserts' = LateInserts /\ Pending' = Pending
  BY <1>3 DEF CreateAnswered, LateInserts, Pending
<1>5. PendingInv'
  BY <1>1, <1>2, <1>3, <1>4 DEF CreateAnswered, PendingInv, TypeOK
<1>6. UsedInv'
  BY <1>1, <1>2 DEF CreateAnswered, UsedInv
<1> USE DEF CreateAnswered, Finish, files
<1>7. TypeOK'
  BY DEF TypeOK, Row, Stages
<1>8. NoDanglingLink'
  BY DEF NoDanglingLink, FileListed, TypeOK
<1>9. ClosedForGood'
  BY DEF ClosedForGood, TypeOK
<1>10. CreateInv'
  BY DEF CreateInv, Works, Pending, Creating, LateInserts, TypeOK
<1>11. GrantedInv'
  BY DEF GrantedInv, Works, TypeOK, CreateInv
<1>12. RevokeInv'
  BY DEF RevokeInv, Pending, Creating, LateInserts, TypeOK
<1>13. FollowInv'
  BY NoRowAssumption DEF FollowInv, Dead, Expired, TypeOK
<1> QED
  BY <1>5, <1>6, <1>7, <1>8, <1>9, <1>10, <1>11, <1>12, <1>13

\* A revocation is sent.
LEMMA RevokeSendStep ==
  ASSUME IInv, NEW w \in Workers, NEW u \in Users, NEW s \in used, RevokeSend(w, u, s)
  PROVE  IInv'
<1> USE DEF IInv, RevokeSend, Begin, files
<1>1. TypeOK'
  BY DEF TypeOK, Row, Stages
<1>2. NoDanglingLink'
  BY DEF NoDanglingLink, FileListed, TypeOK
<1>3. ClosedForGood'
  BY DEF ClosedForGood, TypeOK
<1>4. PendingInv'
  BY DEF PendingInv, Pending, Creating, LateInserts, TypeOK
<1>5. UsedInv'
  BY DEF UsedInv, TypeOK
<1>6. CreateInv'
  BY DEF CreateInv, Works, Pending, Creating, LateInserts, TypeOK
<1>7. GrantedInv'
  BY DEF GrantedInv, Works, TypeOK
<1>8. RevokeInv'
  BY DEF RevokeInv, Pending, Creating, LateInserts, TypeOK
<1>9. FollowInv'
  BY DEF FollowInv, Dead, Expired, TypeOK
<1> QED
  BY <1>1, <1>2, <1>3, <1>4, <1>5, <1>6, <1>7, <1>8, <1>9

\* The UPDATE of a waiting revocation commits.
LEMMA ShareRevokeStep ==
  ASSUME IInv, NEW w \in Workers, ShareRevoke(w)
  PROVE  IInv'
<1> USE DEF IInv
<1> DEFINE s == target[w]
<1>1. /\ s \in ShareIds /\ share[s] # None
      /\ <<s, Owner[share[s].file]>> \in asked
      /\ UNCHANGED <<used, late, now, row, target, caller, stale, granted, asked, closed, life, doomed>>
      /\ pc[w] = "revoking" /\ pc' = [pc EXCEPT ![w] = "revoked"]
      /\ Revoke(s)
  BY DEF ShareRevoke, Revocable, RevokeInv, TypeOK, Goto, history, files
<1>2. /\ share' \in [ShareIds -> Row \cup {None}]
      /\ \A r \in ShareIds : r # s => share'[r] = share[r]
      /\ share'[s] # None /\ share'[s].revoked
      /\ share'[s].file = share[s].file /\ share'[s].expires = share[s].expires
  BY <1>1, RevokeEffect
<1>3. TypeOK'
  BY <1>1, <1>2 DEF TypeOK, Stages
<1>4. ASSUME NEW q \in ShareIds, NEW r, Works(q, r) PROVE Works(q, r)'
  BY <1>1, <1>2, <1>4 DEF Works
<1>5. CreateInv'
  BY <1>1, <1>4 DEF CreateInv, Pending, Creating, LateInserts, TypeOK
<1>6. GrantedInv'
  BY <1>1, <1>4 DEF GrantedInv, TypeOK
<1> USE DEF ShareRevoke, Revocable, Revoke, Goto, files, history
<1>7. NoDanglingLink'
  BY DEF NoDanglingLink, FileListed, TypeOK
<1>8. ClosedForGood'
  BY DEF ClosedForGood, TypeOK
<1>9. PendingInv'
  BY DEF PendingInv, Pending, Creating, LateInserts, TypeOK
<1>10. UsedInv'
  BY DEF UsedInv, TypeOK
<1>11. RevokeInv'
  BY DEF RevokeInv, Pending, Creating, LateInserts, TypeOK, PendingInv
<1>12. FollowInv'
  BY DEF FollowInv, Dead, Expired, TypeOK
<1> QED
  BY <1>3, <1>5, <1>6, <1>7, <1>8, <1>9, <1>10, <1>11, <1>12

\* The UPDATE matches nothing.
LEMMA ShareRevokeNoRowsStep ==
  ASSUME IInv, NEW w \in Workers, ShareRevokeNoRows(w)
  PROVE  IInv'
<1> USE DEF IInv, ShareRevokeNoRows, Finish, files, history
<1>1. NoDanglingLink' /\ ClosedForGood' /\ UsedInv' /\ GrantedInv'
  BY TableUnchanged
<1>2. TypeOK'
  BY DEF TypeOK, Row, Stages
<1>3. PendingInv'
  BY DEF PendingInv, Pending, Creating, LateInserts, TypeOK
<1>4. CreateInv'
  BY DEF CreateInv, Works, Pending, Creating, LateInserts, TypeOK
<1>5. RevokeInv'
  BY DEF RevokeInv, Pending, Creating, LateInserts, TypeOK
<1>6. FollowInv'
  BY DEF FollowInv, Dead, Expired, TypeOK
<1> QED
  BY <1>1, <1>2, <1>3, <1>4, <1>5, <1>6

\* 204 is answered for a link that is dead.
LEMMA RevokeAnsweredStep ==
  ASSUME IInv, NEW w \in Workers, RevokeAnswered(w)
  PROVE  IInv'
<1> USE DEF IInv, files
<1>1. target[w] \in used \ Pending /\ (share[target[w]] = None \/ share[target[w]].revoked)
  BY DEF RevokeAnswered, RevokeInv
<1>3. Creating' = Creating /\ \A v \in Creating : target'[v] = target[v]
  BY DEF RevokeAnswered, Finish, Creating, TypeOK
<1>4. LateInserts' = LateInserts /\ Pending' = Pending
  BY <1>3 DEF RevokeAnswered, LateInserts, Pending
<1>5. PendingInv'
  BY <1>1, <1>3, <1>4 DEF RevokeAnswered, PendingInv
<1>6. UsedInv'
  BY <1>1 DEF RevokeAnswered, UsedInv
<1>7. ClosedForGood'
  BY <1>1 DEF RevokeAnswered, ClosedForGood
<1> USE DEF RevokeAnswered, Finish, files
<1>8. TypeOK'
  BY DEF TypeOK, Row, Stages
<1>9. NoDanglingLink'
  BY DEF NoDanglingLink, FileListed, TypeOK
<1>10. CreateInv'
  BY DEF CreateInv, Works, Pending, Creating, LateInserts, TypeOK
<1>11. GrantedInv'
  BY DEF GrantedInv, Works, TypeOK
<1>12. RevokeInv'
  BY DEF RevokeInv, Pending, Creating, LateInserts, TypeOK
<1>13. FollowInv'
  BY DEF FollowInv, Dead, Expired, TypeOK
<1> QED
  BY <1>5, <1>6, <1>7, <1>8, <1>9, <1>10, <1>11, <1>12, <1>13

\* A download arrives with the token of an answered link.
LEMMA LinkFollowedStep ==
  ASSUME IInv, NEW w \in Workers, NEW s \in ShareIds, LinkFollowed(w, s)
  PROVE  IInv'
<1> USE DEF IInv, LinkFollowed, Begin, files, history
<1>1. NoDanglingLink' /\ ClosedForGood' /\ UsedInv' /\ GrantedInv'
  BY TableUnchanged
<1>2. TypeOK'
  BY DEF TypeOK, Row, Stages, Dead, Expired
<1>3. PendingInv'
  BY DEF PendingInv, Pending, Creating, LateInserts, TypeOK
<1>4. CreateInv'
  BY DEF CreateInv, Works, Pending, Creating, LateInserts, TypeOK
<1>5. RevokeInv'
  BY DEF RevokeInv, Pending, Creating, LateInserts, TypeOK
<1>6. FollowInv'
  BY DEF FollowInv, Dead, Expired, TypeOK
<1> QED
  BY <1>1, <1>2, <1>3, <1>4, <1>5, <1>6

\* A download copies the row of its link.
LEMMA LinkLookupStep ==
  ASSUME IInv, NEW w \in Workers, LinkLookup(w)
  PROVE  IInv'
<1> USE DEF IInv, LinkLookup, Goto, files, history
<1>1. NoDanglingLink' /\ ClosedForGood' /\ UsedInv' /\ GrantedInv'
  BY TableUnchanged
<1>2. TypeOK'
  BY DEF TypeOK, Row, Stages
<1>3. PendingInv'
  BY DEF PendingInv, Pending, Creating, LateInserts, TypeOK
<1>4. CreateInv'
  BY DEF CreateInv, Works, Pending, Creating, LateInserts, TypeOK
<1>5. RevokeInv'
  BY DEF RevokeInv, Pending, Creating, LateInserts, TypeOK
<1>6. FollowInv'
  BY DEF FollowInv, Dead, Expired, TypeOK
<1> QED
  BY <1>1, <1>2, <1>3, <1>4, <1>5, <1>6

\* The link has no row.
LEMMA LinkUnknownStep ==
  ASSUME IInv, NEW w \in Workers, LinkUnknown(w)
  PROVE  IInv'
<1> USE DEF IInv, LinkUnknown, Finish, files, history
<1>1. NoDanglingLink' /\ ClosedForGood' /\ UsedInv' /\ GrantedInv'
  BY TableUnchanged
<1>2. TypeOK'
  BY DEF TypeOK, Row, Stages
<1>3. PendingInv'
  BY DEF PendingInv, Pending, Creating, LateInserts, TypeOK
<1>4. CreateInv'
  BY DEF CreateInv, Works, Pending, Creating, LateInserts, TypeOK
<1>5. RevokeInv'
  BY DEF RevokeInv, Pending, Creating, LateInserts, TypeOK
<1>6. FollowInv'
  BY DEF FollowInv, Dead, Expired, TypeOK
<1> QED
  BY <1>1, <1>2, <1>3, <1>4, <1>5, <1>6

\* The copy is revoked or expired.
LEMMA LinkRefusedStep ==
  ASSUME IInv, NEW w \in Workers, LinkRefused(w)
  PROVE  IInv'
<1> USE DEF IInv, LinkRefused, Finish, files, history
<1>1. NoDanglingLink' /\ ClosedForGood' /\ UsedInv' /\ GrantedInv'
  BY TableUnchanged
<1>2. TypeOK'
  BY DEF TypeOK, Row, Stages
<1>3. PendingInv'
  BY DEF PendingInv, Pending, Creating, LateInserts, TypeOK
<1>4. CreateInv'
  BY DEF CreateInv, Works, Pending, Creating, LateInserts, TypeOK
<1>5. RevokeInv'
  BY DEF RevokeInv, Pending, Creating, LateInserts, TypeOK
<1>6. FollowInv'
  BY DEF FollowInv, Dead, Expired, TypeOK
<1> QED
  BY <1>1, <1>2, <1>3, <1>4, <1>5, <1>6

\* The copy is neither revoked nor expired.
LEMMA LinkAdmittedStep ==
  ASSUME IInv, NEW w \in Workers, LinkAdmitted(w)
  PROVE  IInv'
<1> USE DEF IInv, LinkAdmitted, Goto, files, history
<1>1. NoDanglingLink' /\ ClosedForGood' /\ UsedInv' /\ GrantedInv'
  BY TableUnchanged
<1>2. TypeOK'
  BY DEF TypeOK, Row, Stages
<1>3. PendingInv'
  BY DEF PendingInv, Pending, Creating, LateInserts, TypeOK
<1>4. CreateInv'
  BY DEF CreateInv, Works, Pending, Creating, LateInserts, TypeOK
<1>5. RevokeInv'
  BY DEF RevokeInv, Pending, Creating, LateInserts, TypeOK
<1>6. FollowInv'
  BY DEF FollowInv, Dead, Expired, TypeOK
<1> QED
  BY <1>1, <1>2, <1>3, <1>4, <1>5, <1>6

\* The content is sent.
LEMMA LinkServedStep ==
  ASSUME IInv, NEW w \in Workers, LinkServed(w)
  PROVE  IInv'
<1> USE DEF IInv, LinkServed, Goto, files, history
<1>1. NoDanglingLink' /\ ClosedForGood' /\ UsedInv' /\ GrantedInv'
  BY TableUnchanged
<1>2. TypeOK'
  BY DEF TypeOK, Row, Stages
<1>3. PendingInv'
  BY DEF PendingInv, Pending, Creating, LateInserts, TypeOK
<1>4. CreateInv'
  BY DEF CreateInv, Works, Pending, Creating, LateInserts, TypeOK
<1>5. RevokeInv'
  BY DEF RevokeInv, Pending, Creating, LateInserts, TypeOK
<1>6. FollowInv'
  BY DEF FollowInv, Dead, Expired, TypeOK
<1> QED
  BY <1>1, <1>2, <1>3, <1>4, <1>5, <1>6

\* The file has been deleted.
LEMMA LinkFileGoneStep ==
  ASSUME IInv, NEW w \in Workers, LinkFileGone(w)
  PROVE  IInv'
<1> USE DEF IInv, LinkFileGone, Finish, files, history
<1>1. NoDanglingLink' /\ ClosedForGood' /\ UsedInv' /\ GrantedInv'
  BY TableUnchanged
<1>2. TypeOK'
  BY DEF TypeOK, Row, Stages
<1>3. PendingInv'
  BY DEF PendingInv, Pending, Creating, LateInserts, TypeOK
<1>4. CreateInv'
  BY DEF CreateInv, Works, Pending, Creating, LateInserts, TypeOK
<1>5. RevokeInv'
  BY DEF RevokeInv, Pending, Creating, LateInserts, TypeOK
<1>6. FollowInv'
  BY DEF FollowInv, Dead, Expired, TypeOK
<1> QED
  BY <1>1, <1>2, <1>3, <1>4, <1>5, <1>6

\* A download ends.
LEMMA LinkDoneStep ==
  ASSUME IInv, NEW w \in Workers, LinkDone(w)
  PROVE  IInv'
<1> USE DEF IInv, LinkDone, Finish, files, history
<1>1. NoDanglingLink' /\ ClosedForGood' /\ UsedInv' /\ GrantedInv'
  BY TableUnchanged
<1>2. TypeOK'
  BY DEF TypeOK, Row, Stages
<1>3. PendingInv'
  BY DEF PendingInv, Pending, Creating, LateInserts, TypeOK
<1>4. CreateInv'
  BY DEF CreateInv, Works, Pending, Creating, LateInserts, TypeOK
<1>5. RevokeInv'
  BY DEF RevokeInv, Pending, Creating, LateInserts, TypeOK
<1>6. FollowInv'
  BY DEF FollowInv, Dead, Expired, TypeOK
<1> QED
  BY <1>1, <1>2, <1>3, <1>4, <1>5, <1>6

\* A request dies; its statement becomes late.
LEMMA GiveUpStep ==
  ASSUME IInv, NEW w \in Workers, GiveUp(w)
  PROVE  IInv'
<1> USE DEF IInv, files, history
<1>1. UNCHANGED <<share, granted, closed, used, asked, life>>
  BY DEF GiveUp
<1>2. ASSUME pc[w] = "creating" PROVE PendingInv'
  <2>1. StatementOf(w) = [op |-> "insert", id |-> target[w], row |-> row[w], user |-> caller[w]]
    BY <1>2 DEF StatementOf
  <2>2. Creating' = Creating \ {w} /\ LateInserts' = LateInserts \cup {StatementOf(w)}
    BY <1>2, <2>1 DEF GiveUp, Finish, Creating, LateInserts, TypeOK
  <2>3. \A v \in Creating' : target'[v] = target[v]
    BY <2>2 DEF GiveUp, Finish, TypeOK, Creating
  <2>4. late' \ LateInserts' \subseteq late \ LateInserts
    BY <1>2, <2>1 DEF GiveUp, LateInserts
  <2>5. w \in Creating /\ row[w] \in Row /\ ~ row[w].revoked
    BY <1>2 DEF Creating, CreateInv, TypeOK
  <2>6. Pending' \subseteq Pending
    BY <2>1, <2>2, <2>3, <2>5 DEF Pending
  <2> QED
    BY <1>1, <2>1, <2>2, <2>3, <2>4, <2>5, <2>6 DEF PendingInv
<1>3. ASSUME pc[w] # "creating" PROVE PendingInv'
  <2>1. LateInserts' = LateInserts /\ Creating' = Creating /\ \A v \in Creating : target'[v] = target[v]
    BY <1>3 DEF GiveUp, Finish, Creating, LateInserts, TypeOK, StatementOf
  <2>2. Pending' = Pending
    BY <2>1 DEF Pending
  <2>3. \A t \in late' \ LateInserts' : <<t.id, t.user>> \in asked
    <3>1. CASE pc[w] = "revoking"
      <4>1. StatementOf(w).id = target[w] /\ StatementOf(w).user = caller[w]
        BY <3>1 DEF StatementOf
      <4>2. late' = late \cup {StatementOf(w)} /\ <<target[w], caller[w]>> \in asked
        BY <3>1 DEF GiveUp, RevokeInv
      <4> QED BY <2>1, <4>1, <4>2 DEF PendingInv
    <3>2. CASE pc[w] # "revoking"
      BY <1>3, <2>1, <3>2 DEF GiveUp, PendingInv
    <3> QED BY <3>1, <3>2
  <2> QED
    BY <1>1, <2>1, <2>2, <2>3 DEF PendingInv
<1>4. PendingInv'
  BY <1>2, <1>3
<1> USE DEF GiveUp, Finish, StatementOf, files, history
<1>5. TypeOK'
  BY DEF TypeOK, Row, Stages, Statement
<1>6. NoDanglingLink'
  BY DEF NoDanglingLink, FileListed, TypeOK
<1>7. ClosedForGood'
  BY DEF ClosedForGood, TypeOK
<1>8. UsedInv'
  BY DEF UsedInv, TypeOK
<1>9. CreateInv'
  BY DEF CreateInv, Works, Pending, Creating, LateInserts, TypeOK
<1>10. GrantedInv'
  BY DEF GrantedInv, Works, TypeOK
<1>11. RevokeInv'
  BY DEF RevokeInv, Pending, Creating, LateInserts, TypeOK
<1>12. FollowInv'
  BY DEF FollowInv, Dead, Expired, TypeOK
<1> QED
  BY <1>4, <1>5, <1>6, <1>7, <1>8, <1>9, <1>10, <1>11, <1>12

\* A late INSERT commits.
LEMMA LateInsertStep ==
  ASSUME IInv, NEW t \in late, LateInsert(t)
  PROVE  IInv'
<1> USE DEF IInv, LateInsert, Insert, files, local, history
<1>1. TypeOK'
  BY DEF TypeOK, Row, Stages, PendingInv, Pending, Creating, LateInserts,
    Statement
<1>2. NoDanglingLink'
  BY DEF NoDanglingLink, FileListed, TypeOK
<1>3. ClosedForGood'
  BY DEF ClosedForGood, TypeOK, PendingInv, Pending, Creating, LateInserts
<1>4. PendingInv'
  BY DEF PendingInv, Pending, Creating, LateInserts, TypeOK
<1>5. UsedInv'
  BY DEF UsedInv, TypeOK, PendingInv, Pending, Creating, LateInserts
<1>6. CreateInv'
  BY DEF CreateInv, Works, Pending, Creating, LateInserts, TypeOK
<1>7. GrantedInv'
  BY DEF GrantedInv, Works, TypeOK, PendingInv, Pending, Creating, LateInserts
<1>8. RevokeInv'
  BY DEF RevokeInv, Pending, Creating, LateInserts, TypeOK
<1>9. FollowInv'
  BY DEF FollowInv, Dead, Expired, TypeOK, PendingInv, Pending, Creating,
    LateInserts
<1> QED
  BY <1>1, <1>2, <1>3, <1>4, <1>5, <1>6, <1>7, <1>8, <1>9

\* A late revocation commits.
LEMMA LateRevokeStep ==
  ASSUME IInv, NEW t \in late, LateRevoke(t)
  PROVE  IInv'
<1> USE DEF IInv
<1> DEFINE s == t.id
<1>1. /\ s \in ShareIds /\ share[s] # None
      /\ <<s, Owner[share[s].file]>> \in asked
      /\ late' = late \ {t} /\ t.op = "revoke"
      /\ UNCHANGED <<files, used, now, local, history>>
      /\ Revoke(s)
  BY DEF LateRevoke, Revocable, PendingInv, LateInserts, TypeOK, Statement
<1>2. /\ share' \in [ShareIds -> Row \cup {None}]
      /\ \A r \in ShareIds : r # s => share'[r] = share[r]
      /\ share'[s] # None /\ share'[s].revoked
      /\ share'[s].file = share[s].file /\ share'[s].expires = share[s].expires
  BY <1>1, RevokeEffect
<1>3. TypeOK'
  BY <1>1, <1>2 DEF TypeOK, files, local, history
<1>4. ASSUME NEW q \in ShareIds, NEW r, Works(q, r) PROVE Works(q, r)'
  BY <1>1, <1>2, <1>4 DEF Works, files, history
<1>5. CreateInv'
  BY <1>1, <1>4 DEF CreateInv, Pending, Creating, LateInserts, TypeOK, local, history
<1>6. GrantedInv'
  BY <1>1, <1>4 DEF GrantedInv, TypeOK, history
<1> USE DEF LateRevoke, Revocable, Revoke, files, local, history
<1>7. NoDanglingLink'
  BY DEF NoDanglingLink, FileListed, TypeOK
<1>8. ClosedForGood'
  BY DEF ClosedForGood, TypeOK
<1>9. PendingInv'
  BY DEF PendingInv, Pending, Creating, LateInserts, TypeOK
<1>10. UsedInv'
  BY DEF UsedInv, TypeOK
<1>11. RevokeInv'
  BY DEF RevokeInv, Pending, Creating, LateInserts, TypeOK
<1>12. FollowInv'
  BY DEF FollowInv, Dead, Expired, TypeOK
<1> QED
  BY <1>3, <1>5, <1>6, <1>7, <1>8, <1>9, <1>10, <1>11, <1>12

\* A late statement comes to nothing.
LEMMA LateDropStep ==
  ASSUME IInv, NEW t \in late, LateDrop(t)
  PROVE  IInv'
<1> USE DEF IInv, LateDrop, files, local, history
<1>1. TypeOK'
  BY DEF TypeOK, Row, Stages
<1>2. NoDanglingLink'
  BY DEF NoDanglingLink, FileListed, TypeOK
<1>3. ClosedForGood'
  BY DEF ClosedForGood, TypeOK
<1>4. PendingInv'
  BY DEF PendingInv, Pending, Creating, LateInserts, TypeOK
<1>5. UsedInv'
  BY DEF UsedInv, TypeOK
<1>6. CreateInv'
  BY DEF CreateInv, Works, Pending, Creating, LateInserts, TypeOK
<1>7. GrantedInv'
  BY DEF GrantedInv, Works, TypeOK
<1>8. RevokeInv'
  BY DEF RevokeInv, Pending, Creating, LateInserts, TypeOK
<1>9. FollowInv'
  BY DEF FollowInv, Dead, Expired, TypeOK
<1> QED
  BY <1>1, <1>2, <1>3, <1>4, <1>5, <1>6, <1>7, <1>8, <1>9

\* The clock advances: what is dead stays dead.
LEMMA TickStep ==
  ASSUME IInv, Tick
  PROVE  IInv'
<1> USE DEF IInv, Tick, files, local, history
<1>1. TypeOK'
  BY DEF TypeOK, Row, Stages
<1>2. NoDanglingLink'
  BY DEF NoDanglingLink, FileListed, TypeOK
<1>3. ClosedForGood'
  BY DEF ClosedForGood, TypeOK
<1>4. PendingInv'
  BY DEF PendingInv, Pending, Creating, LateInserts, TypeOK
<1>5. UsedInv'
  BY DEF UsedInv, TypeOK
<1>6. CreateInv'
  BY DEF CreateInv, Works, Pending, Creating, LateInserts, TypeOK
<1>7. GrantedInv'
  BY DEF GrantedInv, Works, TypeOK
<1>8. RevokeInv'
  BY DEF RevokeInv, Pending, Creating, LateInserts, TypeOK
<1>9. FollowInv'
  BY DEF FollowInv, Dead, Expired, TypeOK, Row
<1> QED
  BY <1>1, <1>2, <1>3, <1>4, <1>5, <1>6, <1>7, <1>8, <1>9

\* A step that changes nothing.
LEMMA StutterStep ==
  ASSUME IInv, UNCHANGED vars
  PROVE  IInv'
<1> USE DEF IInv, vars, files, history
<1>1. NoDanglingLink' /\ ClosedForGood' /\ UsedInv' /\ GrantedInv'
  BY TableUnchanged
<1>2. TypeOK'
  BY DEF TypeOK
<1>3. PendingInv'
  BY DEF PendingInv, Pending, Creating, LateInserts
<1>4. CreateInv' /\ RevokeInv'
  BY DEF CreateInv, RevokeInv, Works, Pending, Creating, LateInserts
<1>5. FollowInv'
  BY DEF FollowInv, Dead, Expired
<1> QED
  BY <1>1, <1>2, <1>3, <1>4, <1>5

\* IInv holds before anything has happened.
LEMMA InitInv == Init => IInv
<1> SUFFICES ASSUME Init PROVE IInv
  OBVIOUS
<1> USE DEF Init, Life!Init
<1>1. TypeOK
  BY DEF TypeOK, Stages
<1>2. NoDanglingLink /\ ClosedForGood /\ UsedInv /\ GrantedInv
  BY DEF NoDanglingLink, ClosedForGood, UsedInv, GrantedInv
<1>3. PendingInv
  BY DEF PendingInv, Pending, Creating, LateInserts
<1>4. CreateInv /\ RevokeInv /\ FollowInv
  BY DEF CreateInv, RevokeInv, FollowInv
<1> QED
  BY <1>1, <1>2, <1>3, <1>4 DEF IInv

\* Every step keeps IInv.
LEMMA NextInv == IInv /\ [Next]_vars => IInv'
<1> SUFFICES ASSUME IInv, [Next]_vars PROVE IInv'
  OBVIOUS
<1>1. ASSUME NEW f \in FileIds, Files(f) PROVE IInv'
  BY <1>1, FileUploadedStep, FileDeleteAskedStep, FileErasedStep DEF Files
<1>2. ASSUME NEW w \in Workers, Create(w) PROVE IInv'
  BY <1>2, CreateLookupStep, ShareInsertStep, ShareInsertRefusedStep, CreateAnsweredStep
     DEF Create
<1>3. ASSUME NEW w \in Workers, Revocation(w) PROVE IInv'
  BY <1>3, RevokeSendStep, ShareRevokeStep, ShareRevokeNoRowsStep, RevokeAnsweredStep
     DEF Revocation
<1>4. ASSUME NEW w \in Workers, Follow(w) PROVE IInv'
  BY <1>4, LinkFollowedStep, LinkLookupStep, LinkUnknownStep, LinkRefusedStep,
     LinkAdmittedStep, LinkServedStep, LinkFileGoneStep, LinkDoneStep DEF Follow
<1>5. ASSUME NEW t \in late, LateStatement(t) PROVE IInv'
  BY <1>5, LateInsertStep, LateRevokeStep, LateDropStep DEF LateStatement
<1> QED
  BY <1>1, <1>2, <1>3, <1>4, <1>5, GiveUpStep, TickStep, StutterStep DEF Next

\* The inductive invariant holds in every state the service reaches.
THEOREM Invariance == Spec => []IInv
  BY InitInv, NextInv, PTL DEF Spec

\* Type correctness.
THEOREM TypeCorrect == Spec => []TypeOK
<1>1. IInv => TypeOK
  BY DEF IInv
<1> QED
  BY <1>1, Invariance, PTL

\* Every row of the shares table has its file, whatever deletes and late INSERTs
\* do (handler.go, CreateShare; shares.file_id).
THEOREM LinksDoNotDangle == Spec => []NoDanglingLink
<1>1. IInv => NoDanglingLink
  BY DEF IInv
<1> QED
  BY <1>1, Invariance, PTL

\* A download that arrives after its link was revoked, has expired or has gone
\* with its file is not served (handler.go, PublicDownload).
THEOREM DeadLinksAreNotServed == Spec => []NoServiceFromDeadLink
<1>1. IInv => NoServiceFromDeadLink
  BY DEF IInv, FollowInv, NoServiceFromDeadLink
<1> QED
  BY <1>1, Invariance, PTL

\* A revocation answered 204 is final (repository.go, RevokeShare).
THEOREM RevocationIsFinal == Spec => []ClosedForGood
<1>1. IInv => ClosedForGood
  BY DEF IInv
<1> QED
  BY <1>1, Invariance, PTL

\* A link answered 201 is ended by its expiry, its file's owner or the deletion of
\* its file, and by nothing else (repository.go, RevokeShare and DeleteFile).
THEOREM GrantedLinksKeepWorking == Spec => []GrantedLinksWork
<1>1. IInv => GrantedLinksWork
  BY DEF IInv, GrantedInv, Works, GrantedLinksWork
<1> QED
  BY <1>1, Invariance, PTL
=============================================================================
