------------------------------- MODULE MemStream -------------------------------
(***************************************************************************)
(* A stream that reads and writes memory, apue.3e/exercises/fmemopen.c: the  *)
(* four functions fmemopen gives to funopen, called in any order, with a     *)
(* buffer of the caller or one of its own.  A character is a small number,   *)
(* 0 ends a string.                                                         *)
(***************************************************************************)
EXTENDS Integers, Sequences

CONSTANTS
    Size,       \* of the buffer
    Chars       \* the characters written, none is 0

VARIABLES
    open,       \* the stream is open
    buf, vsize, curpos,
    flags,      \* what type_to_flags returns, and MYBUF
    file,       \* history: the file the stream stands for
    got,        \* history: what the last read returned, and its place
    wrote       \* history: something has been written to the stream

vars == <<open, buf, vsize, curpos, flags, file, got, wrote>>

Buffer == [0 .. Size - 1 -> Chars \cup {0}]
NoRead == [at |-> 0, what |-> <<>>]

Init ==
    /\ open = FALSE
    /\ buf \in Buffer
    /\ vsize = 0 /\ curpos = 0
    /\ flags = {}
    /\ file = <<>>
    /\ got = NoRead
    /\ wrote = FALSE

\* type_to_flags: "r", "w", "a" and the same with "+".
TypeToFlags ==
    {{"READ"}, {"WRITE", "TRUNCATE"}, {"APPEND"},
     {"READ", "WRITE"}, {"READ", "WRITE", "TRUNCATE"}, {"READ", "WRITE", "APPEND"}}

\* find_end: the first 0, or the end of the buffer.
FindEnd(b) ==
    CHOOSE n \in 0 .. Size :
        (n = Size \/ b[n] = 0) /\ \A m \in 0 .. n - 1 : b[m] # 0

ReadWrite == {"READ", "WRITE"} \subseteq flags
WriteOnly == flags \cap {"WRITE", "APPEND"} # {} /\ "READ" \notin flags

Least(a, b) == IF a < b THEN a ELSE b

\* n characters of a buffer from place at on.
Piece(b, at, n) == [k \in 1 .. n |-> b[at + k - 1]]
-----------------------------------------------------------------------------
\* fmemopen, with the buffer as it is or, for reading and writing, one from malloc.
Fmemopen(f, own) ==
    /\ ~open
    /\ own => {"READ", "WRITE"} \subseteq f
    /\ open' = TRUE
    /\ flags' = IF own THEN f \cup {"MYBUF"} ELSE f
    /\ IF own THEN buf' \in Buffer ELSE UNCHANGED buf
    /\ curpos' = IF "APPEND" \in f /\ ~own THEN FindEnd(buf) ELSE 0
    /\ vsize' = IF "APPEND" \in f THEN curpos'
                ELSE IF "TRUNCATE" \in f THEN 0
                ELSE Size
    /\ file' = Piece(buf', 0, vsize')
    /\ got' = NoRead
    /\ wrote' = FALSE

\* mstream_read, of len characters.
MstreamRead(len) ==
    /\ open /\ "READ" \in flags
    /\ LET nr == IF curpos >= vsize THEN 0 ELSE Least(len, vsize - curpos) IN
       /\ got' = [at |-> curpos, what |-> Piece(buf, curpos, nr)]
       /\ curpos' = curpos + nr
    /\ UNCHANGED <<open, buf, vsize, flags, file, wrote>>

\* Mutant: a stream opened for appending writes at its position.
WriteAtPosition == curpos

WriteOffset == IF "APPEND" \in flags THEN vsize ELSE curpos

\* The zeros that mstream_write puts behind the data, or on its last character.
Terminate(b, pos) ==
    LET grown == pos > vsize
        zeros == { n \in 0 .. Size - 1 :
                      \/ grown /\ ReadWrite /\ n = pos
                      \/ WriteOnly /\ n = Least(pos, Size - 1) }
    IN [n \in 0 .. Size - 1 |-> IF n \in zeros THEN 0 ELSE b[n]]

\* The same on a file.
Overwrite(f, at, s) ==
    SubSeq(f, 1, at) \o s \o SubSeq(f, at + Len(s) + 1, Len(f))

\* mstream_write, of the characters s.
MstreamWrite(s) ==
    /\ open /\ flags \cap {"APPEND", "WRITE"} # {}
    /\ LET off == WriteOffset
           nw == Least(Len(s), Size - off)
           pos == off + nw
           copied == [n \in 0 .. Size - 1 |->
                         IF n \in off .. pos - 1 THEN s[n - off + 1] ELSE buf[n]]
       IN
       /\ buf' = Terminate(copied, pos)
       /\ curpos' = pos
       /\ vsize' = IF pos > vsize THEN pos ELSE vsize
       /\ file' = LET at == IF "APPEND" \in flags THEN Len(file) ELSE curpos IN
                  Overwrite(file, at, SubSeq(s, 1, Least(Len(s), Size - at)))
    /\ wrote' = TRUE
    /\ got' = NoRead
    /\ UNCHANGED <<open, flags>>

\* mstream_seek from the start, the position or the end; anything else fails.
MstreamSeek(base, pos) ==
    /\ open
    /\ LET off == base + pos IN
       /\ 0 <= off /\ off <= vsize
       /\ curpos' = off
    /\ got' = NoRead
    /\ UNCHANGED <<open, buf, vsize, flags, file, wrote>>

\* mstream_close
MstreamClose ==
    /\ open
    /\ open' = FALSE
    /\ got' = NoRead
    /\ UNCHANGED <<buf, vsize, curpos, flags, file, wrote>>

Next ==
    \/ \E f \in TypeToFlags, own \in BOOLEAN : Fmemopen(f, own)
    \/ \E len \in 1 .. Size : MstreamRead(len)
    \/ \E len \in 1 .. 2 : \E s \in [1 .. len -> Chars] : MstreamWrite(s)
    \/ \E base \in {0, curpos, vsize}, pos \in -1 .. 1 : MstreamSeek(base, pos)
    \/ MstreamClose

Spec == Init /\ [][Next]_vars
-----------------------------------------------------------------------------
\* The stream behaves as a file of at most Size characters: a stream that can be
\* read holds, and returns, what the calls before left in the file; one that cannot
\* differs from the file only where it has put a zero.  What has been written is a
\* string: a zero follows the data if there is room, and a stream that is only
\* written always has one (mstream_read, mstream_write and mstream_seek).
StreamIsFile ==
    open =>
        /\ curpos \in 0 .. vsize /\ vsize = Len(file) /\ vsize <= Size
        /\ "READ" \in flags => Piece(buf, 0, vsize) = file
        /\ WriteOnly => \A n \in 0 .. vsize - 1 : buf[n] \in {file[n + 1], 0}
        /\ got.what = SubSeq(file, got.at + 1, got.at + Len(got.what))
        /\ wrote /\ ReadWrite => vsize = Size \/ buf[vsize] = 0
        /\ wrote /\ WriteOnly => \E n \in 0 .. Size - 1 : buf[n] = 0
-----------------------------------------------------------------------------
(* The invariant from which StreamIsFile follows.                           *)

Content == Chars \cup {0}

\* The buffer is the file, or the file with zeros in a stream that cannot be read.
Faithful ==
    /\ "READ" \in flags => \A n \in 0 .. vsize - 1 : buf[n] = file[n + 1]
    /\ WriteOnly => \A n \in 0 .. vsize - 1 : buf[n] \in {file[n + 1], 0}

\* A zero follows the data, unless a new stream is empty.
Terminated ==
    /\ ReadWrite => vsize = Size \/ buf[vsize] = 0 \/ (vsize = 0 /\ ~wrote)
    /\ wrote /\ WriteOnly => \E n \in 0 .. Size - 1 : buf[n] = 0

Returned ==
    /\ got.at \in Nat /\ got.what \in Seq(Content)
    /\ got.what = SubSeq(file, got.at + 1, got.at + Len(got.what))

StreamInv ==
    /\ buf \in Buffer
    /\ open =>
        /\ vsize \in 0 .. Size /\ curpos \in 0 .. vsize
        /\ file \in Seq(Content) /\ Len(file) = vsize
        /\ "READ" \in flags /\ flags \cap {"APPEND", "WRITE"} # {} => "WRITE" \in flags
        /\ Faithful
        /\ Terminated
        /\ Returned
=============================================================================
