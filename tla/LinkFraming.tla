---------------------------- MODULE LinkFraming ----------------------------
(***************************************************************************)
(* The request framing of net/link.cpp.  A packet is a list of blocks     *)
(* "<len>\n<body>\n" ended by a blank line.  Link::recv parses the input  *)
(* buffer: it skips leading newlines, then reads blocks until the blank   *)
(* line.  It returns the records and how many bytes they used, or nothing *)
(* yet when the packet is incomplete, or an error (NULL) on a malformed   *)
(* head.  Bytes are one-character strings; the RESP ("*") branch and the  *)
(* buffer's growth limit are not modelled.                                *)
(***************************************************************************)
EXTENDS Integers, Sequences

CONSTANTS
    MAX_PACKET_SIZE     \* the largest packet recv accepts (32 MiB in the code)

DigitValue == [c \in {"0", "1", "2", "3", "4", "5", "6", "7", "8", "9"} |->
                 CHOOSE n \in 0 .. 9 : <<"0", "1", "2", "3", "4", "5", "6", "7", "8", "9">>[n + 1] = c]
Digits == DOMAIN DigitValue

\* atoi: the value of the leading digits, ignoring whatever follows them.
RECURSIVE AtoiFrom(_, _, _)
AtoiFrom(s, i, acc) ==
    IF i > Len(s) \/ s[i] \notin Digits THEN acc
    ELSE AtoiFrom(s, i + 1, 10 * acc + DigitValue[s[i]])
Atoi(s) == AtoiFrom(s, 1, 0)

\* memchr(head, '\n', size): the index of the first newline at or after i.
NextNewline(b, i) ==
    LET js == {j \in i .. Len(b) : b[j] = "\n"}
    IN IF js = {} THEN 0 ELSE CHOOSE j \in js : \A k \in js : j <= k

Incomplete == [kind |-> "none"]
ParseError == [kind |-> "error"]

\* Variant of Body that starts one byte early, at the head's newline.
BodyFromNewline(b, nl, bl) == SubSeq(b, nl, nl + bl - 1)

\* The record whose head's newline is at nl and whose length is bl.
Body(b, nl, bl) == SubSeq(b, nl + 1, nl + bl)

\* Where the next block starts after a body ending at e: past "\n" or
\* "\r\n", or 0 when neither follows yet.
AfterBody(b, e) ==
    IF e + 1 <= Len(b) /\ b[e + 1] = "\n" THEN e + 2
    ELSE IF e + 2 <= Len(b) /\ b[e + 1] = "\r" /\ b[e + 2] = "\n" THEN e + 3
    ELSE 0

\* A record parsed ahead of the rest of the packet.
Prepend(rec, r) == IF r.kind = "req" THEN [r EXCEPT !.req = <<rec>> \o @] ELSE r

\* The block loop of Link::recv: the parse of b from the head at each index,
\* giving the records from there on and where the packet ends.
ParseBlocks(b) ==
    LET P[i \in 1 .. Len(b) + 1] ==
            LET nl == NextNewline(b, i)
                hl == nl - i + 1
                bl == Atoi(SubSeq(b, i, nl - 1))
                next == AfterBody(b, nl + bl)
            IN IF nl = 0 THEN Incomplete
               ELSE IF hl = 1 \/ (hl = 2 /\ b[i] = "\r")
                    THEN [kind |-> "req", req |-> <<>>, used |-> nl]
               ELSE IF b[i] \notin Digits \/ hl > 19 THEN ParseError
               ELSE IF nl + bl > Len(b) \/ next = 0 THEN Incomplete
               ELSE IF next - 1 > MAX_PACKET_SIZE THEN ParseError
               ELSE Prepend(Body(b, nl, bl), P[next])
    IN P

\* Link::recv: nothing on an empty buffer, else skip the leading newlines.
Recv(b) ==
    LET heads == {j \in 1 .. Len(b) : b[j] \notin {"\n", "\r"}}
    IN IF heads = {} THEN Incomplete
       ELSE ParseBlocks(b)[CHOOSE j \in heads : \A k \in heads : j <= k]

\* The buffer after recv consumed a packet of used bytes (input->decr).
Consume(b, used) == SubSeq(b, used + 1, Len(b))

\* Link::send / Buffer::append_record: each record as "<len>\n<body>\n",
\* then "\n".  Record lengths here are below 10, one digit.
DigitChar(n) == CHOOSE c \in Digits : DigitValue[c] = n
RECURSIVE Encode(_)
Encode(recs) ==
    IF recs = <<>> THEN <<"\n">>
    ELSE <<DigitChar(Len(Head(recs))), "\n">> \o Head(recs) \o <<"\n">> \o Encode(Tail(recs))

=============================================================================
