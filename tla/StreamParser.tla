---------------------------- MODULE StreamParser ----------------------------
(***************************************************************************)
(* The host's frame parser: how a buffer of bytes, from which an arbitrary *)
(* run may be missing, is cut into frames.                                 *)
(*                                                                         *)
(* A byte is a token.  A frame's header is the two bytes of the magic and  *)
(* one token for the rest, whose checksum is right when it comes after     *)
(* them; each token of the payload stands for some bytes of it.  A token's *)
(* frame, f, is what the sender knows and the parser never looks at.       *)
(***************************************************************************)
EXTENDS Integers, Sequences, SequencesExt, FiniteSets, FiniteSetsExt

HEADER_LEN == 3
Modulus == 65536
\* How far ahead of a frame that lost its tail the next one may be.
Window == 64

\* encode_frame
Encode(f, kind, seq, payload) ==
  <<[t |-> "magic0", f |-> f], [t |-> "magic1", f |-> f],
    [t |-> "rest", f |-> f, kind |-> kind, seq |-> seq % Modulus,
     len |-> Len(payload)]>> \o payload

MagicAt(buf, p) ==
  p + 1 <= Len(buf) /\ buf[p].t = "magic0" /\ buf[p + 1].t = "magic1"

\* A whole header at p, its checksum right.
HeaderAt(buf, p) ==
  MagicAt(buf, p) /\ p + 2 <= Len(buf) /\ buf[p + 2].t = "rest"

\* Where the frame at the head ends, by its own header.
End(buf) == HEADER_LEN + buf[3].len

\* decode_frame
Whole(buf) == HeaderAt(buf, 1) /\ Len(buf) >= End(buf)

\* _continues: a header at p numbered up to `window` ahead of seq.
Continues(buf, p, seq, window) ==
  HeaderAt(buf, p) /\ (buf[p + 2].seq - seq) % Modulus \in 1 .. window

\* _inner_header_at: where headers begin inside the payload of a whole frame.
InnerHeaders(buf) ==
  {p \in HEADER_LEN + 1 .. End(buf) : Continues(buf, p, buf[3].seq, Window)}

\* With a header inside, what starts at the declared end is waited for.
Undecided(buf) ==
  InnerHeaders(buf) # {} /\ Len(buf) < End(buf) + HEADER_LEN

\* Nothing to be done before more bytes come.
Waits(buf) ==
  \/ Len(buf) < HEADER_LEN
  \/ HeaderAt(buf, 1) /\ Len(buf) < End(buf)
  \/ Whole(buf) /\ Undecided(buf)

\* The frame at the head lost its tail: one that followed it starts inside it,
\* and not the very next one where it says it ends.
\* mutant: any later frame that starts there will do
LostTailUnlessAnyFollows(buf) ==
  /\ Whole(buf) /\ InnerHeaders(buf) # {}
  /\ Len(buf) >= End(buf) + HEADER_LEN
  /\ ~Continues(buf, End(buf) + 1, buf[3].seq, Window)
LostTail(buf) ==
  /\ Whole(buf) /\ InnerHeaders(buf) # {}
  /\ Len(buf) >= End(buf) + HEADER_LEN
  /\ ~Continues(buf, End(buf) + 1, buf[3].seq, 1)

\* _discard_one_byte_and_resync: to the next magic, or to what may be its first
\* byte.
Resynced(buf) ==
  LET magics == {p \in 2 .. Len(buf) : MagicAt(buf, p)}
  IN  CASE magics # {} -> SubSeq(buf, Min(magics), Len(buf))
        [] magics = {} /\ Len(buf) > 1 /\ Last(buf).t = "magic0" -> <<Last(buf)>>
        [] OTHER -> <<>>

\* One turn of _try_one that does not deliver a frame.
Skipped(buf) ==
  IF LostTail(buf) THEN SubSeq(buf, Min(InnerHeaders(buf)), Len(buf))
                   ELSE Resynced(buf)

Delivers(buf) == Whole(buf) /\ ~Undecided(buf) /\ ~LostTail(buf)

\* The frame at the head, and what is left when it is taken.
HeadFrame(buf) ==
  [f |-> buf[3].f, kind |-> buf[3].kind, seq |-> buf[3].seq,
   payload |-> SubSeq(buf, HEADER_LEN + 1, End(buf))]
Rest(buf) == SubSeq(buf, End(buf) + 1, Len(buf))

=============================================================================
