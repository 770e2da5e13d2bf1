--------------------------- MODULE ElementSequence ---------------------------
(***************************************************************************)
(* What array_gt promises its owner, without memory: a sequence of         *)
(* elements that grows at the end, shrinks at the end and can be cleared.  *)
(* Reserving capacity is invisible at this level.                          *)
(***************************************************************************)
EXTENDS Naturals, Sequences

CONSTANTS Values, MaxLen

VARIABLE contents

Init == contents = << >>

Push(v) == contents' = Append(contents, v)

AppendAll(s) == contents' = contents \o s

Pop(n) == n \in 1 .. Len(contents) /\ contents' = SubSeq(contents, 1, Len(contents) - n)

Clear == contents' = << >>

Next ==
  \/ \E v \in Values : Push(v)
  \/ \E s \in UNION {[1 .. k -> Values] : k \in 1 .. MaxLen} : AppendAll(s)
  \/ \E n \in 1 .. MaxLen : Pop(n)
  \/ Clear

Spec == Init /\ [][Next]_contents
=============================================================================
