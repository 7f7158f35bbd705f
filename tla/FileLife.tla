------------------------------ MODULE FileLife ------------------------------
(***************************************************************************)
(* What the file service promises about the life of one file, with no      *)
(* mention of requests, statements, blobs or crashes.  A file becomes      *)
(* listed, stays listed until its owner has asked for its deletion, and a  *)
(* deleted file never comes back.  Answering an upload with 201 is a       *)
(* promise about a file that is (or has been) listed.                      *)
(*                                                                         *)
(* FileStore implements this specification (FileStore!Life).               *)
(***************************************************************************)
CONSTANT FileIds

VARIABLES
  life,      \* [FileIds -> {"absent", "listed", "deleted"}]
  promised,  \* the files whose upload was answered 201
  doomed     \* the files whose owner has asked for the deletion

vars == <<life, promised, doomed>>

Init ==
  /\ life = [id \in FileIds |-> "absent"]
  /\ promised = {}
  /\ doomed = {}

Become(id, from, to) ==
  /\ life[id] = from
  /\ life' = [life EXCEPT ![id] = to]

Appear(id) ==
  /\ Become(id, "absent", "listed")
  /\ UNCHANGED <<promised, doomed>>

Promise(id) ==
  /\ life[id] # "absent"
  /\ promised' = promised \cup {id}
  /\ UNCHANGED <<life, doomed>>

AskDelete(id) ==
  /\ life[id] = "listed"
  /\ doomed' = doomed \cup {id}
  /\ UNCHANGED <<life, promised>>

Erase(id) ==
  /\ id \in doomed
  /\ Become(id, "listed", "deleted")
  /\ UNCHANGED <<promised, doomed>>

Next == \E id \in FileIds : Appear(id) \/ Promise(id) \/ AskDelete(id) \/ Erase(id)

Spec == Init /\ [][Next]_vars
=============================================================================
