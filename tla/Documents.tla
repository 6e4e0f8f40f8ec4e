------------------------------ MODULE Documents -----------------------------
(***************************************************************************)
(* What a collection promises: documents that can be inserted in parts and *)
(* deleted.  A document without a vector and without metadata is not there.*)
(***************************************************************************)
CONSTANTS Docs, Vecs, Metas, NoVec, NoMeta

VARIABLE docs   \* document -> vector and metadata

Absent == [vec |-> NoVec, meta |-> NoMeta]

Init == docs = [d \in Docs |-> Absent]

\* A part that is not given is left as it was.
Put(d, v, m) ==
  docs' = [docs EXCEPT ![d] = [vec |-> IF v = NoVec THEN @.vec ELSE v,
                               meta |-> IF m = NoMeta THEN @.meta ELSE m]]

Remove(d) == docs' = [docs EXCEPT ![d] = Absent]

Next == \E d \in Docs :
          \/ \E v \in Vecs \cup {NoVec}, m \in Metas \cup {NoMeta} : Put(d, v, m)
          \/ Remove(d)

Spec == Init /\ [][Next]_docs
=============================================================================
