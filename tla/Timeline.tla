------------------------------ MODULE Timeline ------------------------------
(***************************************************************************)
(* What susybraid promises about its chain, whatever goes on inside: a     *)
(* list of blocks that only grows at its end, marks (snapshots) that       *)
(* remember the chain as it was, and a rewind that brings back exactly     *)
(* the marked chain and forgets that mark and every later one.  A block    *)
(* is the sequence of its transactions, records with at least the fields   *)
(* from and nonce, and the transactions of an account appear on the chain  *)
(* with the nonces 0, 1, 2, ... in that order.                             *)
(* A restart keeps the chain and forgets the marks; a restart that         *)
(* interrupts a rewind keeps some chain between the two ends of it.        *)
(* Ledger.tla is shown to implement this module.                           *)
(***************************************************************************)
EXTENDS Naturals, Sequences, FiniteSets

VARIABLES
  chain,                  \* sequence of blocks, the first one is genesis
  marks                   \* sequence of remembered chains

vars == <<chain, marks>>

(* The number of transactions account a has on chain c. *)
SentBy(a, c) ==
  Cardinality({p \in UNION {{i} \X DOMAIN c[i] : i \in DOMAIN c} :
                  c[p[1]][p[2]].from = a})

(* A block may extend chain c when each of its transactions carries the next
   nonce of its account. *)
NoncesContinue(block, c) ==
  \A i \in DOMAIN block :
    block[i].nonce = SentBy(block[i].from, c)
                     + Cardinality({j \in 1..(i - 1) : block[j].from = block[i].from})

IsPrefixOf(s, t) == Len(s) <= Len(t) /\ s = SubSeq(t, 1, Len(s))
-----------------------------------------------------------------------------
Init ==
  /\ chain = << <<>> >>
  /\ marks = <<>>

Extend ==
  /\ Len(chain') = Len(chain) + 1
  /\ IsPrefixOf(chain, chain')
  /\ NoncesContinue(chain'[Len(chain')], chain)
  /\ UNCHANGED marks

Mark ==
  /\ marks' = Append(marks, chain)
  /\ UNCHANGED chain

Rewind ==
  \E k \in DOMAIN marks :
    /\ chain' = marks[k]
    /\ marks' = SubSeq(marks, 1, k - 1)

Restart ==
  /\ marks' = <<>>
  /\ IsPrefixOf(chain', chain)
  /\ chain' = chain \/ \E k \in DOMAIN marks : IsPrefixOf(marks[k], chain')

Next == Extend \/ Mark \/ Rewind \/ Restart

Spec == Init /\ [][Next]_vars
=============================================================================
