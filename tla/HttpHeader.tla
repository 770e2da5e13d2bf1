----------------------------- MODULE HttpHeader -----------------------------
(***************************************************************************)
(* The HTTP response header of src/src/helpers/reply.hpp:24-37: a fixed    *)
(* 78-byte template whose Content-Length field is the 9 bytes at offset    *)
(* 33, patched in place by set_http_content_length through std::to_chars.  *)
(*                                                                         *)
(* A byte of the header is a decimal digit 0..9, a space, or a byte of the *)
(* template's fixed text, which no property tells apart.  The header is    *)
(* the caller's buffer: a fresh copy of the template or, outside the       *)
(* spec's contract, the previous reply's buffer again; content_len comes  *)
(* from a small set that reaches every digit count up to the field's      *)
(* limit.                                                                  *)
(*                                                                         *)
(* std::to_chars leaves the range's contents unspecified when the value    *)
(* does not fit; libstdc++ and libc++ both measure the digits first and    *)
(* write nothing then, which is what is modelled.                          *)
(***************************************************************************)
EXTENDS Integers, Sequences

CONSTANT Lengths   \* the content_len values the reactor passes

ASSUME LengthsAssumption == Lengths \subseteq Nat

Space == -1   \* the byte ' '
Text == -2    \* any other byte of the template
Bytes == -2 .. 9

http_header_size_k == 78
http_header_length_offset_k == 33
http_header_length_capacity_k == 9

(* The template http_header_k: "Content-Length:" is followed by ten spaces *)
(* (offsets 32 .. 41), every other byte is fixed text.                     *)
http_header_k == [i \in 0 .. http_header_size_k - 1 |->
                    IF i \in 32 .. 41 THEN Space ELSE Text]

(* The decimal digits of n, most significant first, as to_chars writes.   *)
Decimal[n \in Nat] == IF n < 10 THEN <<n>> ELSE Decimal[n \div 10] \o <<n % 10>>

(* std::to_chars(first, last, value) on the buffer h: the digits written   *)
(* from first when they fit in [first, last), the buffer unchanged and     *)
(* errc::value_too_large otherwise.                                        *)
ToCharsFits(first, last, value) == Len(Decimal[value]) <= last - first
ToChars(h, first, last, value) ==
  IF ToCharsFits(first, last, value)
    THEN [i \in DOMAIN h |->
            IF i \in first .. first + Len(Decimal[value]) - 1
              THEN Decimal[value][i - first + 1]
              ELSE h[i]]
    ELSE h

VARIABLES
  header,    \* the header buffer of the last reply
  length,    \* the content_len of the last call
  ok,        \* what the last call returned
  fresh      \* the last call was given a fresh copy of http_header_k

vars == <<header, length, ok, fresh>>

Init ==
  /\ header = http_header_k
  /\ length = 0
  /\ ok = FALSE
  /\ fresh = TRUE

(* Plausible slips in set_http_content_length: the field's capacity taken  *)
(* as 10 (it runs into the "\r\n" that ends the line), as 8, and the      *)
(* field's offset taken as 32, the space after "Content-Length:".          *)
set_http_content_length_cap10(headers, content_len) ==
  /\ LET first == http_header_length_offset_k
         last == first + 10
     IN  /\ header' = ToChars(headers, first, last, content_len)
         /\ ok' = ToCharsFits(first, last, content_len)
  /\ length' = content_len

set_http_content_length_cap8(headers, content_len) ==
  /\ LET first == http_header_length_offset_k
         last == first + 8
     IN  /\ header' = ToChars(headers, first, last, content_len)
         /\ ok' = ToCharsFits(first, last, content_len)
  /\ length' = content_len

set_http_content_length_at32(headers, content_len) ==
  /\ LET first == http_header_length_offset_k - 1
         last == first + http_header_length_capacity_k
     IN  /\ header' = ToChars(headers, first, last, content_len)
         /\ ok' = ToCharsFits(first, last, content_len)
  /\ length' = content_len

(* set_http_content_length(headers, content_len): to_chars into the 9      *)
(* bytes at offset 33 of headers, true unless the digits do not fit.       *)
set_http_content_length(headers, content_len) ==
  /\ LET first == http_header_length_offset_k
         last == first + http_header_length_capacity_k
     IN  /\ header' = ToChars(headers, first, last, content_len)
         /\ ok' = ToCharsFits(first, last, content_len)
  /\ length' = content_len

(* A reply patches either a fresh copy of the template, as spec section    *)
(* 4.3 has the caller pass, or the buffer of the previous reply again.     *)
Next == \E n \in Lengths :
          \/ set_http_content_length(http_header_k, n) /\ fresh' = TRUE
          \/ set_http_content_length(header, n) /\ fresh' = FALSE

Spec == Init /\ [][Next]_vars

-----------------------------------------------------------------------------
(* The bytes of the Content-Length field as a receiver reads them.         *)
Field == [i \in 0 .. http_header_length_capacity_k - 1 |->
            header[http_header_length_offset_k + i]]

(* The field a fresh template would hold after writing n: its digits, then *)
(* the template's spaces.                                                  *)
FieldOf(n) == [i \in 0 .. http_header_length_capacity_k - 1 |->
                 IF i < Len(Decimal[n]) THEN Decimal[n][i + 1] ELSE Space]

(* However many replies patch the header, to_chars never writes outside    *)
(* the 9-byte field: the status line, the "\r\n" after the field and the   *)
(* Content-Type line stay as in the template.                              *)
TemplateIntact ==
  \A i \in 0 .. http_header_size_k - 1 :
    i \notin http_header_length_offset_k ..
             http_header_length_offset_k + http_header_length_capacity_k - 1
      => header[i] = http_header_k[i]

(* A call succeeds exactly for the lengths below 10^9 (spec section 7,     *)
(* "content-length overflow ... reported via a boolean"), leaves the       *)
(* digits of the length at the start of the field when it does, and        *)
(* leaves the buffer it was given untouched when it does not.              *)
LengthWritten ==
  [][ \A n \in Lengths, h \in {header, http_header_k} :
        set_http_content_length(h, n) =>
          /\ ok' = (n < 10 ^ http_header_length_capacity_k)
          /\ ok' => \A i \in 1 .. Len(Decimal[n]) : Field'[i - 1] = Decimal[n][i]
          /\ ~ok' => header' = h ]_vars

(* After a successful call on a fresh copy of the template, the field     *)
(* reads as the content length that was passed: its digits left-aligned at *)
(* offset 33 and "the remaining reserved width left as the original        *)
(* padding characters" (spec section 4.3), so the receiver reads the body  *)
(* length the reactor sends.  On a reused buffer a shorter length keeps   *)
(* the previous one's trailing digits; the spec's caller never does that. *)
HeaderMatches == ok /\ fresh => Field = FieldOf(length)
=============================================================================
