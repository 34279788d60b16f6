------------------------------ MODULE MCBatch ------------------------------
(***************************************************************************)
(* A small instance of Batch: up to MaxMembers members, at most one of     *)
(* them svm_mine and one a call.                                           *)
(***************************************************************************)
EXTENDS Batch

CONSTANTS a, b, MaxMembers

MCSenders == {a, b}

Sends == [kind : {"send"}, from : MCSenders]
Read == [kind |-> "read", from |-> NoSender]
Mine == [kind |-> "mine", from |-> NoSender]

Few(members, m) == Cardinality({i \in DOMAIN members : members[i] = m}) <= 1

MCBatches ==
  {members \in UNION {[1..n -> Sends \cup {Read, Mine}] : n \in 1..MaxMembers} :
     Few(members, Read) /\ Few(members, Mine)}
=============================================================================
