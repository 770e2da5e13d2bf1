-------------------------- MODULE ReplyEncoderProofs --------------------------
(***************************************************************************)
(* Proofs about the reply encoder of ReplyEncoder.tla (reply.hpp:41-96)    *)
(* for every set of request ids, bodies, error codes and messages.         *)
(*                                                                         *)
(* iovecs_length is a recursive function over 0 .. Len(iovecs); the        *)
(* provers do not derive its equations, so for the two array lengths the   *)
(* encoder fills, 5 and 7, a lemma exhibits the running sums as a function *)
(* that satisfies them and reads the total off it.  The invariant then     *)
(* says that the iovecs and the returned length are those of the last fill *)
(* call.                                                                   *)
(***************************************************************************)
EXTENDS ReplyEncoder, TLAPS

USE SizesAssumption

(* The running sum of five lengths is their total.                         *)
LEMMA IovecsLength5 ==
  ASSUME NEW v, Len(v) = 5, \A i \in 1 .. 5 : v[i].iov_len \in Nat
  PROVE  iovecs_length(v) =
           v[1].iov_len + v[2].iov_len + v[3].iov_len + v[4].iov_len + v[5].iov_len
<1>. DEFINE l(i) == v[i].iov_len
            Added(f) == f = [i \in 0 .. 5 |-> IF i = 0 THEN 0 ELSE f[i - 1] + l(i)]
<1>1. \E f : Added(f)
  <2>. DEFINE w == [i \in 0 .. 5 |->
                      IF i = 0 THEN 0
                      ELSE IF i = 1 THEN l(1)
                      ELSE IF i = 2 THEN l(1) + l(2)
                      ELSE IF i = 3 THEN l(1) + l(2) + l(3)
                      ELSE IF i = 4 THEN l(1) + l(2) + l(3) + l(4)
                      ELSE l(1) + l(2) + l(3) + l(4) + l(5)]
  <2>1. Added(w)
    OBVIOUS
  <2>. QED
    BY <2>1
<1>2. PICK g : Added(g) /\ iovecs_length(v) = g[5]
  BY <1>1 DEF iovecs_length
<1>. QED
  BY <1>2

(* The running sum of seven lengths is their total.                        *)
LEMMA IovecsLength7 ==
  ASSUME NEW v, Len(v) = 7, \A i \in 1 .. 7 : v[i].iov_len \in Nat
  PROVE  iovecs_length(v) =
           v[1].iov_len + v[2].iov_len + v[3].iov_len + v[4].iov_len
           + v[5].iov_len + v[6].iov_len + v[7].iov_len
<1>. DEFINE l(i) == v[i].iov_len
            Added(f) == f = [i \in 0 .. 7 |-> IF i = 0 THEN 0 ELSE f[i - 1] + l(i)]
<1>1. \E f : Added(f)
  <2>. DEFINE w == [i \in 0 .. 7 |->
                      IF i = 0 THEN 0
                      ELSE IF i = 1 THEN l(1)
                      ELSE IF i = 2 THEN l(1) + l(2)
                      ELSE IF i = 3 THEN l(1) + l(2) + l(3)
                      ELSE IF i = 4 THEN l(1) + l(2) + l(3) + l(4)
                      ELSE IF i = 5 THEN l(1) + l(2) + l(3) + l(4) + l(5)
                      ELSE IF i = 6 THEN l(1) + l(2) + l(3) + l(4) + l(5) + l(6)
                      ELSE l(1) + l(2) + l(3) + l(4) + l(5) + l(6) + l(7)]
  <2>1. Added(w)
    OBVIOUS
  <2>. QED
    BY <2>1
<1>2. PICK g : Added(g) /\ iovecs_length(v) = g[7]
  BY <1>1 DEF iovecs_length
<1>3. g[4] = l(1) + l(2) + l(3) + l(4)
  BY <1>2
<1>. QED
  BY <1>2, <1>3

(* fill_with_content returns what iovecs_length sums over its iovecs.      *)
LEMMA ContentSum ==
  ASSUME NEW id \in RequestIds, NEW body \in Bodies, NEW comma \in BOOLEAN
  PROVE  fill_with_content(id, body, comma).length
           = iovecs_length(fill_with_content(id, body, comma).iovecs)
<1>1. Len(id) \in Nat /\ Len(body) \in Nat /\ Bit(comma) \in Nat
  BY SizesAssumption DEF Bit
<1>2. /\ Len(fill_with_content(id, body, comma).iovecs) = 5
      /\ fill_with_content(id, body, comma).iovecs[1].iov_len = 22
      /\ fill_with_content(id, body, comma).iovecs[2].iov_len = Len(id)
      /\ fill_with_content(id, body, comma).iovecs[3].iov_len = 10
      /\ fill_with_content(id, body, comma).iovecs[4].iov_len = Len(body)
      /\ fill_with_content(id, body, comma).iovecs[5].iov_len = 1 + Bit(comma)
  BY DEF fill_with_content, Iovec
<1>3. ASSUME NEW i \in 1 .. 5
      PROVE  fill_with_content(id, body, comma).iovecs[i].iov_len \in Nat
  <2>1. i = 1 \/ i = 2 \/ i = 3 \/ i = 4 \/ i = 5
    OBVIOUS
  <2>. QED
    BY <1>1, <1>2, <2>1, SMTT(60)
<1>4. fill_with_content(id, body, comma).length
        = 22 + Len(id) + 10 + Len(body) + (1 + Bit(comma))
  BY DEF fill_with_content, Iovec
<1>5. iovecs_length(fill_with_content(id, body, comma).iovecs)
        = 22 + Len(id) + 10 + Len(body) + (1 + Bit(comma))
  <2>. DEFINE v == fill_with_content(id, body, comma).iovecs
  <2>1. iovecs_length(v) = v[1].iov_len + v[2].iov_len + v[3].iov_len + v[4].iov_len
                           + v[5].iov_len
    BY <1>2, <1>3, IovecsLength5
  <2>. QED
    BY <1>2, <2>1
<1>. QED
  BY <1>4, <1>5

(* fill_with_error's return value, written out from the argument sizes at *)
(* reply.hpp:87, is what iovecs_length sums over its seven iovecs.        *)
LEMMA ErrorSum ==
  ASSUME NEW id \in RequestIds, NEW code \in ErrorCodes,
         NEW message \in ErrorMessages, NEW comma \in BOOLEAN
  PROVE  fill_with_error(id, code, message, comma).length
           = iovecs_length(fill_with_error(id, code, message, comma).iovecs)
<1>1. Len(id) \in Nat /\ Len(code) \in Nat /\ Len(message) \in Nat /\ Bit(comma) \in Nat
  BY SizesAssumption DEF Bit
<1>2. /\ Len(fill_with_error(id, code, message, comma).iovecs) = 7
      /\ fill_with_error(id, code, message, comma).iovecs[1].iov_len = 22
      /\ fill_with_error(id, code, message, comma).iovecs[2].iov_len = Len(id)
      /\ fill_with_error(id, code, message, comma).iovecs[3].iov_len = 17
      /\ fill_with_error(id, code, message, comma).iovecs[4].iov_len = Len(code)
      /\ fill_with_error(id, code, message, comma).iovecs[5].iov_len = 12
      /\ fill_with_error(id, code, message, comma).iovecs[6].iov_len = Len(message)
      /\ fill_with_error(id, code, message, comma).iovecs[7].iov_len = 3 + Bit(comma)
  BY DEF fill_with_error, Iovec
<1>3. ASSUME NEW i \in 1 .. 7
      PROVE  fill_with_error(id, code, message, comma).iovecs[i].iov_len \in Nat
  <2>1. i = 1 \/ i = 2 \/ i = 3 \/ i = 4 \/ i = 5 \/ i = 6 \/ i = 7
    OBVIOUS
  <2>. QED
    BY <1>1, <1>2, <2>1, SMTT(60)
<1>4. fill_with_error(id, code, message, comma).length
        = 22 + Len(id) + 17 + Len(code) + 12 + Len(message) + 3 + Bit(comma)
  BY DEF fill_with_error
<1>5. iovecs_length(fill_with_error(id, code, message, comma).iovecs)
        = 22 + Len(id) + 17 + Len(code) + 12 + Len(message) + (3 + Bit(comma))
  <2>. DEFINE v == fill_with_error(id, code, message, comma).iovecs
  <2>1. iovecs_length(v) = v[1].iov_len + v[2].iov_len + v[3].iov_len + v[4].iov_len
                           + v[5].iov_len + v[6].iov_len + v[7].iov_len
    BY <1>2, <1>3, IovecsLength7
  <2>. QED
    BY <1>2, <2>1
<1>. QED
  BY <1>1, <1>4, <1>5

-----------------------------------------------------------------------------
(* The iovecs and the returned length are those of the last fill call.    *)
Filled ==
  request # NoRequest =>
    \/ \E id \in RequestIds, body \in Bodies, comma \in BOOLEAN :
         /\ iovecs = fill_with_content(id, body, comma).iovecs
         /\ returned = fill_with_content(id, body, comma).length
    \/ \E id \in RequestIds, code \in ErrorCodes, message \in ErrorMessages,
          comma \in BOOLEAN :
         /\ iovecs = fill_with_error(id, code, message, comma).iovecs
         /\ returned = fill_with_error(id, code, message, comma).length

LEMMA InitFilled == Init => Filled
BY DEF Init, Filled

LEMMA NextFilled == Filled /\ [Next]_vars => Filled'
<1>. SUFFICES ASSUME Filled, [Next]_vars PROVE Filled'
  OBVIOUS
<1>1. ASSUME NEW id \in RequestIds, NEW body \in Bodies, NEW comma \in BOOLEAN,
             FillContent(id, body, comma)
      PROVE  Filled'
  BY <1>1 DEF FillContent, Filled
<1>2. ASSUME NEW id \in RequestIds, NEW code \in ErrorCodes,
             NEW message \in ErrorMessages, NEW comma \in BOOLEAN,
             FillError(id, code, message, comma)
      PROVE  Filled'
  BY <1>2 DEF FillError, Filled
<1>3. CASE Copy
  BY <1>3 DEF Copy, Filled
<1>4. CASE UNCHANGED vars
  BY <1>4 DEF vars, Filled
<1>. QED
  BY <1>1, <1>2, <1>3, <1>4 DEF Next

LEMMA FilledSum == Filled => ReturnedIsSum
<1>. SUFFICES ASSUME Filled, request # NoRequest
              PROVE  returned = iovecs_length(iovecs)
  BY DEF ReturnedIsSum
<1>1. CASE \E id \in RequestIds, body \in Bodies, comma \in BOOLEAN :
             /\ iovecs = fill_with_content(id, body, comma).iovecs
             /\ returned = fill_with_content(id, body, comma).length
  BY <1>1, ContentSum
<1>2. CASE \E id \in RequestIds, code \in ErrorCodes, message \in ErrorMessages,
              comma \in BOOLEAN :
             /\ iovecs = fill_with_error(id, code, message, comma).iovecs
             /\ returned = fill_with_error(id, code, message, comma).length
  BY <1>2, ErrorSum
<1>. QED
  BY <1>1, <1>2 DEF Filled

(* Whatever sequence of fills and copies the reactor makes, and for every *)
(* request id, body, error code and message, the length a fill call       *)
(* returns is the sum iovecs_length takes over the iovecs it filled: the  *)
(* hand-written total of fill_with_error (reply.hpp:87) counts the comma  *)
(* of a batched reply exactly as the seventh iovec does (reply.hpp:86).   *)
THEOREM ReturnedIsIovecsLength == Spec => []ReturnedIsSum
<1>1. Init => Filled
  BY InitFilled
<1>2. Filled /\ [Next]_vars => Filled'
  BY NextFilled
<1>3. Filled => ReturnedIsSum
  BY FilledSum
<1>. QED
  BY <1>1, <1>2, <1>3, PTL DEF Spec
=============================================================================
