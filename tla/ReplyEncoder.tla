---------------------------- MODULE ReplyEncoder ----------------------------
(***************************************************************************)
(* The scatter-gather reply encoder of src/src/helpers/reply.hpp:15-16 and *)
(* 41-104.  fill_with_content and fill_with_error point five and seven     *)
(* iovecs at static protocol fragments and at the caller's bytes, with     *)
(* hand-counted lengths, and return the total; iovecs_length sums the      *)
(* lengths and iovecs_memcpy joins the ranges for transports without      *)
(* vectored writes.                                                        *)
(*                                                                         *)
(* Byte strings are TLA+ strings, which are sequences of characters; an    *)
(* iovec is the string its iov_base points at and its iov_len, and         *)
(* copying it takes the first iov_len characters.  The reactor's use is a  *)
(* loop: it fills the iovecs for a request, then copies them out (spec     *)
(* section 2).                                                             *)
(***************************************************************************)
EXTENDS Naturals, Sequences

CONSTANTS
  RequestIds,      \* request_id byte strings
  Bodies,          \* serialised result bodies
  ErrorCodes,      \* error_code byte strings
  ErrorMessages    \* error_message byte strings

(* Every argument is a byte string with a size, as string_view::size()    *)
(* gives one.                                                              *)
ASSUME SizesAssumption ==
  \A s \in RequestIds \cup Bodies \cup ErrorCodes \cup ErrorMessages : Len(s) \in Nat

iovecs_for_content_k == 5
iovecs_for_error_k == 7

Iovec(base, len) == [iov_base |-> base, iov_len |-> len]

(* bool converted to size_t in 1 + append_comma.                           *)
Bit(b) == IF b THEN 1 ELSE 0

(* A plausible slip in fill_with_content: the suffix length fixed at 1,    *)
(* so a batched reply loses its separating comma.                          *)
fill_with_content_no_comma(request_id, body, append_comma) ==
  LET buffers == << Iovec("{\"jsonrpc\":\"2.0\",\"id\":", 22),
                    Iovec(request_id, Len(request_id)),
                    Iovec(",\"result\":", 10),
                    Iovec(body, Len(body)),
                    Iovec("},", 1) >>
  IN  [iovecs |-> buffers,
       length |-> buffers[1].iov_len + buffers[2].iov_len + buffers[3].iov_len
                  + buffers[4].iov_len + buffers[5].iov_len]

(* fill_with_content: the five iovecs and the sum of their lengths.        *)
fill_with_content(request_id, body, append_comma) ==
  LET buffers == << Iovec("{\"jsonrpc\":\"2.0\",\"id\":", 22),
                    Iovec(request_id, Len(request_id)),
                    Iovec(",\"result\":", 10),
                    Iovec(body, Len(body)),
                    Iovec("},", 1 + Bit(append_comma)) >>
  IN  [iovecs |-> buffers,
       length |-> buffers[1].iov_len + buffers[2].iov_len + buffers[3].iov_len
                  + buffers[4].iov_len + buffers[5].iov_len]

(* A plausible slip in fill_with_error: the separately written return      *)
(* expression without the trailing comma.                                  *)
fill_with_error_no_comma(request_id, error_code, error_message, append_comma) ==
  [iovecs |-> << Iovec("{\"jsonrpc\":\"2.0\",\"id\":", 22),
                 Iovec(request_id, Len(request_id)),
                 Iovec(",\"error\":{\"code\":", 17),
                 Iovec(error_code, Len(error_code)),
                 Iovec(",\"message\":\"", 12),
                 Iovec(error_message, Len(error_message)),
                 Iovec("\"}},", 3 + Bit(append_comma)) >>,
   length |-> 22 + Len(request_id) + 17 + Len(error_code) + 12
              + Len(error_message) + 3]

(* fill_with_error: the seven iovecs, and a return value computed from the *)
(* argument sizes rather than from the iovecs (reply.hpp:87).              *)
fill_with_error(request_id, error_code, error_message, append_comma) ==
  [iovecs |-> << Iovec("{\"jsonrpc\":\"2.0\",\"id\":", 22),
                 Iovec(request_id, Len(request_id)),
                 Iovec(",\"error\":{\"code\":", 17),
                 Iovec(error_code, Len(error_code)),
                 Iovec(",\"message\":\"", 12),
                 Iovec(error_message, Len(error_message)),
                 Iovec("\"}},", 3 + Bit(append_comma)) >>,
   length |-> 22 + Len(request_id) + 17 + Len(error_code) + 12
              + Len(error_message) + 3 + Bit(append_comma)]

(* iovecs_length: the running sum of iov_len over the iovecs.              *)
iovecs_length(iovecs) ==
  LET added[i \in 0 .. Len(iovecs)] ==
        IF i = 0 THEN 0 ELSE added[i - 1] + iovecs[i].iov_len
  IN  added[Len(iovecs)]

(* iovecs_memcpy: each range copied after the previous one.                *)
iovecs_memcpy(iovecs) ==
  LET output[i \in 0 .. Len(iovecs)] ==
        IF i = 0 THEN ""
        ELSE output[i - 1] \o SubSeq(iovecs[i].iov_base, 1, iovecs[i].iov_len)
  IN  output[Len(iovecs)]

-----------------------------------------------------------------------------
VARIABLES
  request,   \* the arguments of the last fill call
  iovecs,    \* the caller's struct iovec array
  returned,  \* what the fill call returned
  output     \* the contiguous buffer iovecs_memcpy wrote, "" before any

vars == <<request, iovecs, returned, output>>

NoRequest == [kind |-> "none"]

Init ==
  /\ request = NoRequest
  /\ iovecs = << >>
  /\ returned = 0
  /\ output = ""

FillContent(id, body, comma) ==
  LET r == fill_with_content(id, body, comma)
  IN  /\ request' = [kind |-> "result", id |-> id, body |-> body, comma |-> comma]
      /\ iovecs' = r.iovecs
      /\ returned' = r.length
      /\ UNCHANGED output

FillError(id, code, message, comma) ==
  LET r == fill_with_error(id, code, message, comma)
  IN  /\ request' = [kind |-> "error", id |-> id, code |-> code,
                     message |-> message, comma |-> comma]
      /\ iovecs' = r.iovecs
      /\ returned' = r.length
      /\ UNCHANGED output

(* The copy path: iovecs_memcpy of the array just filled.                  *)
Copy ==
  /\ request # NoRequest
  /\ output' = iovecs_memcpy(iovecs)
  /\ UNCHANGED <<request, iovecs, returned>>

Next ==
  \/ \E id \in RequestIds, body \in Bodies, comma \in BOOLEAN :
       FillContent(id, body, comma)
  \/ \E id \in RequestIds, code \in ErrorCodes, message \in ErrorMessages,
        comma \in BOOLEAN :
       FillError(id, code, message, comma)
  \/ Copy

Spec == Init /\ [][Next]_vars

-----------------------------------------------------------------------------
(* The wire format of spec section 6: the JSON-RPC 2.0 success and error   *)
(* objects, each with a trailing comma when it is followed by another one  *)
(* of a batch.                                                             *)
Comma(b) == IF b THEN "," ELSE ""
Envelope(r) ==
  IF r.kind = "result"
    THEN "{\"jsonrpc\":\"2.0\",\"id\":" \o r.id \o ",\"result\":" \o r.body
         \o "}" \o Comma(r.comma)
    ELSE "{\"jsonrpc\":\"2.0\",\"id\":" \o r.id \o ",\"error\":{\"code\":" \o r.code
         \o ",\"message\":\"" \o r.message \o "\"}}" \o Comma(r.comma)

(* The hand-counted iov_len of every static fragment is the length of the  *)
(* literal it points at, so joining the filled iovecs gives exactly the    *)
(* JSON-RPC envelope of the request, with or without the batch comma.      *)
EnvelopeExact == request # NoRequest => iovecs_memcpy(iovecs) = Envelope(request)

(* The length a fill call returns, computed in fill_with_error from the    *)
(* argument sizes and not from the iovecs, is what iovecs_length sums and  *)
(* how many bytes iovecs_memcpy writes: a caller sizing its copy buffer,   *)
(* or its Content-Length, from either gets the other.                      *)
ReturnedIsSum == request # NoRequest => returned = iovecs_length(iovecs)
ReturnedIsLength ==
  /\ ReturnedIsSum
  /\ request # NoRequest => returned = Len(iovecs_memcpy(iovecs))
=============================================================================
