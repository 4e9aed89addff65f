----------------------------- MODULE FwdBuffer ------------------------------
(***************************************************************************)
(* The byte buffers of the forward server, fwd_buffer.c.                   *)
(*                                                                         *)
(* A fwd_buffer is a piece of memory with four pointers, head <= rd <= wr  *)
(* <= tail.  What lies between rd and wr is unread (`data'); what lies     *)
(* before rd has been read and is lost room (`trash') until the unread     *)
(* bytes are moved to the front.                                           *)
(*                                                                         *)
(* fwd_buffer_refresh moves them with memcpy, and source and destination   *)
(* overlap when more is unread than trash: undefined in C.  The build      *)
(* (-Os, x86) copies with ascending addresses, which is right because the  *)
(* destination is the lower one; that outcome is the one modelled here.    *)
(***************************************************************************)
EXTENDS Naturals, Sequences

\* The buffers that hold elements of S.
Buffer(S) == [trash : Nat, data : Seq(S)]

EmptyBuffer == [trash |-> 0, data |-> <<>>]

\* The macros buf_len and buf_left, for a buffer of `size'.
BufLen(b) == Len(b.data)
BufLeft(b, size) == size - b.trash - Len(b.data)

\* The first k elements of a sequence, and the others.
Front(s, k) == SubSeq(s, 1, k)
Rest(s, k) == SubSeq(s, k + 1, Len(s))

\* The lesser of two numbers.
Least(a, b) == IF a <= b THEN a ELSE b

\* Bytes are stored behind the unread ones, and fwd_buffer_seek_wr moves wr.
\* The callers look at buf_left first.
Stored(b, s) == [b EXCEPT !.data = @ \o s]

\* fwd_buffer_seek_rd from the current place: k bytes have been read.
Drained(b, k) == [trash |-> b.trash + k, data |-> Rest(b.data, k)]

\* fwd_buffer_refresh: the unread bytes move to the front.
Refreshed(b) == [b EXCEPT !.trash = 0]

=============================================================================
