---------------------------- MODULE ShareLinksInv ----------------------------
(***************************************************************************)
(* The inductive invariant behind the safety properties of ShareLinks.     *)
(*                                                                         *)
(* Its idea: an id is Pending while its INSERT may still execute, in a     *)
(* worker or late.  A pending id is nobody's business: it has no row, was  *)
(* not answered and not closed.  What is true of the row of an id that is  *)
(* not pending then lasts: None stays None, revoked stays revoked, and a   *)
(* dead link stays dead.                                                   *)
(***************************************************************************)
EXTENDS ShareLinks

LateInserts == {t \in late : t.op = "insert"}

Creating == {w \in Workers : pc[w] = "creating"}

Pending == {target[w] : w \in Creating} \cup {t.id : t \in LateInserts}

\* What GrantedLinksWork says of a row r of id s.
Works(s, r) ==
  /\ share[s] = None => life[r.file] = "deleted"
  /\ share[s] # None =>
       /\ share[s].file = r.file /\ share[s].expires = r.expires
       /\ share[s].revoked => <<s, Owner[r.file]>> \in asked

PendingInv ==
  /\ Pending \subseteq used
  /\ \A s \in Pending : share[s] = None /\ granted[s] = None /\ s \notin closed
  /\ \A v, w \in Creating : target[v] = target[w] => v = w
  /\ \A t \in LateInserts, w \in Creating : t.id # target[w]
  /\ \A t, u \in LateInserts : t.id = u.id => t = u
  /\ \A t \in LateInserts : t.row \in Row /\ ~ t.row.revoked
  /\ \A t \in late \ LateInserts : <<t.id, t.user>> \in asked

UsedInv == \A s \in ShareIds : share[s] # None \/ granted[s] # None \/ s \in closed => s \in used

CreateInv ==
  \A w \in Workers :
    /\ pc[w] \in {"creating", "created"} => ~ row[w].revoked
    /\ pc[w] = "created" => target[w] \in used \ Pending /\ Works(target[w], row[w])

GrantedInv ==
  \A s \in ShareIds : granted[s] # None => Works(s, granted[s])

RevokeInv ==
  \A w \in Workers :
    /\ pc[w] \in {"revoking", "revoked"} => target[w] \in used /\ <<target[w], caller[w]>> \in asked
    /\ pc[w] = "revoked" =>
         target[w] \notin Pending /\ (share[target[w]] = None \/ share[target[w]].revoked)

FollowInv ==
  \A w \in Workers :
    /\ pc[w] \in {"token", "row", "admitted", "serving"} => granted[target[w]] # None
    /\ pc[w] = "token" /\ stale[w] => Dead(target[w])
    /\ pc[w] = "row" /\ stale[w] => row[w].revoked \/ Expired(row[w])
    /\ pc[w] \in {"admitted", "serving"} => ~ stale[w]

IInv == /\ TypeOK /\ NoDanglingLink /\ ClosedForGood
        /\ PendingInv /\ UsedInv /\ CreateInv /\ GrantedInv /\ RevokeInv /\ FollowInv
=============================================================================
