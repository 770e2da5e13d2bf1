-------------------------- MODULE HttpHeaderProofs --------------------------
(***************************************************************************)
(* Proof that patching the Content-Length field (reply.hpp:30-37) never    *)
(* changes a byte of the header outside the 9-byte field, whatever lengths *)
(* the reactor passes, however often, on a fresh copy of the template or  *)
(* on a buffer patched before.  The argument needs nothing about the     *)
(* digits themselves: std::to_chars writes only when the digit count     *)
(* fits between first and last, and then only from first on.  The         *)
(* strengthening is that the header keeps the template's 78 offsets.       *)
(***************************************************************************)
EXTENDS HttpHeader, TLAPS

USE LengthsAssumption

IInv == DOMAIN header = 0 .. http_header_size_k - 1 /\ TemplateIntact

(* ToChars keeps the buffer's offsets and every byte outside              *)
(* [first, last).                                                         *)
LEMMA ToCharsContained ==
  ASSUME NEW h, NEW first \in Nat, NEW last \in Nat, NEW value
  PROVE  /\ DOMAIN ToChars(h, first, last, value) = DOMAIN h
         /\ \A i \in DOMAIN h :
              i \in Nat /\ i \notin first .. last - 1
                => ToChars(h, first, last, value)[i] = h[i]
<1>1. CASE ToCharsFits(first, last, value)
  <2>1. \A i \in Nat : i \in first .. first + Len(Decimal[value]) - 1
                       => i \in first .. last - 1
    BY <1>1 DEF ToCharsFits
  <2>. QED
    BY <1>1, <2>1 DEF ToChars
<1>2. CASE ~ToCharsFits(first, last, value)
  BY <1>2 DEF ToChars
<1>. QED
  BY <1>1, <1>2

LEMMA InitIInv == Init => IInv
BY DEF Init, IInv, TemplateIntact, http_header_k, http_header_size_k

LEMMA NextIInv == IInv /\ [Next]_vars => IInv'
<1>. SUFFICES ASSUME IInv, [Next]_vars PROVE IInv'
  OBVIOUS
<1>1. CASE \E n \in Lengths, h \in {header, http_header_k} :
             set_http_content_length(h, n)
  <2>1. PICK n \in Lengths, h \in {header, http_header_k} :
          set_http_content_length(h, n)
    BY <1>1
  <2>. DEFINE first == http_header_length_offset_k
              last == first + http_header_length_capacity_k
  <2>2. header' = ToChars(h, first, last, n)
    BY <2>1 DEF set_http_content_length
  <2>3. first \in Nat /\ last \in Nat /\ first .. last - 1 = 33 .. 41
    BY DEF http_header_length_offset_k, http_header_length_capacity_k
  <2>4. /\ DOMAIN h = 0 .. 77
        /\ \A i \in 0 .. 77 : i \notin 33 .. 41 => h[i] = http_header_k[i]
    BY DEF IInv, TemplateIntact, http_header_k, http_header_size_k,
           http_header_length_offset_k, http_header_length_capacity_k
  <2>5. DOMAIN header' = DOMAIN h
    BY <2>2, <2>3, ToCharsContained
  <2>6. \A i \in DOMAIN h : i \in Nat /\ i \notin 33 .. 41 => header'[i] = h[i]
    BY <2>2, <2>3, ToCharsContained
  <2>. QED
    BY <2>4, <2>5, <2>6 DEF IInv, TemplateIntact, http_header_size_k,
                           http_header_length_offset_k, http_header_length_capacity_k
<1>2. CASE UNCHANGED vars
  BY <1>2 DEF vars, IInv, TemplateIntact
<1>. QED
  BY <1>1, <1>2 DEF Next

(* Across any sequence of set_http_content_length calls, with any content  *)
(* lengths, too long ones included, the status line, the "\r\n" ending    *)
(* the Content-Length line and the Content-Type line keep the template's   *)
(* bytes: to_chars never writes past the 9-byte field (reply.hpp:31-32).   *)
THEOREM HeaderTemplateIntact == Spec => []TemplateIntact
<1>1. Init => IInv
  BY InitIInv
<1>2. IInv /\ [Next]_vars => IInv'
  BY NextIInv
<1>. QED
  BY <1>1, <1>2, PTL DEF Spec, IInv
=============================================================================
