----------------------------- MODULE PrinterStatus -----------------------------
(***************************************************************************)
(* How the print spooler reads the printer's answer: printer_status and      *)
(* readmore of apue.3e/printer/printd.c.  The answer is a sequence of tokens: *)
(* a status line, the Content-Length field, the three characters that end    *)
(* the HTTP header, and the two fields of the IPP header the daemon looks    *)
(* at.  TCP delivers them in pieces of any length.                          *)
(***************************************************************************)
EXTENDS Naturals, Sequences

CONSTANTS
    Jobs,       \* the job numbers
    Job         \* the job that was sent to the printer

VARIABLES
    answer,     \* what the printer has sent and was not read yet
    verdict,    \* what it says of the job: "ok", "bad", or "other" of another job
    bp,         \* the buffer, "junk" where nothing was read
    datsz,
    i,          \* cp - bp
    pc,
    success,
    failed      \* a read failed: a timeout, or the printer has gone

vars == <<answer, verdict, bp, datsz, i, pc, success, failed>>

Room == 0 .. 30     \* readmore makes the buffer larger when it is full

Header == <<"Content-Length", "\n", "\r", "\n">>
len == 2            \* the value of Content-Length

Init ==
    /\ \E http \in {"200", "500"}, ipp \in {"OK", "ERROR"}, id \in Jobs, info \in BOOLEAN :
          /\ answer = (IF info THEN <<"100">> ELSE <<>>)
                      \o <<http>> \o Header \o <<ipp, id>>
          /\ verdict = IF http = "500" \/ ipp = "ERROR" THEN "bad"
                       ELSE IF id = Job THEN "ok"
                       ELSE "other"
    /\ bp = [n \in Room |-> "junk"]
    /\ datsz = 0
    /\ i = 0
    /\ pc = "read"
    /\ success = FALSE
    /\ failed = FALSE

\* n tokens arrive and are put at place off.
Arrives(off, n) ==
    /\ n \in 1 .. Len(answer)
    /\ bp' = [k \in Room |-> IF k \in off .. off + n - 1 THEN answer[k - off + 1] ELSE bp[k]]
    /\ answer' = SubSeq(answer, n + 1, Len(answer))

\* readmore: it returns the offset of the end of the data, and the caller adds that
\* to the size.
Readmore(n) ==
    /\ Arrives(i, n)
    /\ datsz' = datsz + (i + n)

Goto(label) == pc' = label

\* tread returns 0 or -1.
ReadFails ==
    /\ pc \in {"read", "more length", "more end", "more body", "more header"}
    /\ failed' = TRUE
    /\ Goto("out")
    /\ UNCHANGED <<answer, verdict, bp, datsz, i, success>>

\* The first read of an answer: the status line.
FirstRead ==
    /\ pc = "read"
    /\ \E n \in 1 .. Len(answer) : Arrives(0, n) /\ datsz' = n
    /\ i' = 1
    /\ Goto(IF bp'[0] = "200" THEN "length"
            ELSE IF bp'[0] = "500" THEN "out"
            ELSE "read")
    /\ UNCHANGED <<verdict, success, failed>>
-----------------------------------------------------------------------------
\* The next place in the data with the Content-Length field, or the end of the data.
FindLength ==
    /\ pc = "length"
    /\ \E n \in i .. (IF i > datsz THEN i ELSE datsz) :
          /\ \A k \in i .. n - 1 : bp[k] # "Content-Length"
          /\ n < datsz => bp[n] = "Content-Length"
          /\ IF n < datsz THEN i' = n + 1 /\ Goto("after length")
             ELSE i' = n /\ Goto("more length")
    /\ UNCHANGED <<answer, verdict, bp, datsz, success, failed>>

MoreLength ==
    /\ pc = "more length"
    /\ \E n \in 1 .. Len(answer) : Readmore(n)
    /\ Goto("length")
    /\ UNCHANGED <<i, verdict, success, failed>>

AfterLength ==
    /\ pc = "after length"
    /\ Goto(IF i >= datsz THEN "more header" ELSE "end")
    /\ UNCHANGED <<answer, verdict, bp, datsz, i, success, failed>>

MoreHeader ==
    /\ pc = "more header"
    /\ \E n \in 1 .. Len(answer) : Readmore(n)
    /\ Goto("end")
    /\ UNCHANGED <<i, verdict, success, failed>>

EndsAt(k) == bp[k] = "\n" /\ bp[k + 1] = "\r" /\ bp[k + 2] = "\n"

\* The end of the HTTP header.  The inner loop stops two characters before the end
\* of the data, and more is read only at the end of the data: the outer loop goes
\* on for ever in between.
FindEnd ==
    /\ pc = "end"
    /\ IF \E k \in i .. 27 : k + 2 < datsz /\ EndsAt(k)
         THEN \E k \in i .. 27 :
                /\ k + 2 < datsz /\ EndsAt(k)
                /\ \A m \in i .. k - 1 : ~EndsAt(m)
                /\ i' = k + 3
                /\ Goto(IF k + 3 >= datsz THEN "more end" ELSE "body")
         ELSE UNCHANGED i /\ Goto("loops")
    /\ UNCHANGED <<answer, verdict, bp, datsz, success, failed>>

MoreEnd ==
    /\ pc = "more end"
    /\ \E n \in 1 .. Len(answer) : Readmore(n)
    /\ Goto("body")
    /\ UNCHANGED <<i, verdict, success, failed>>

Body ==
    /\ pc = "body"
    /\ Goto(IF datsz < i + len THEN "more body" ELSE "status")
    /\ UNCHANGED <<answer, verdict, bp, datsz, i, success, failed>>

MoreBody ==
    /\ pc = "more body"
    /\ \E n \in 1 .. Len(answer) : Readmore(n)
    /\ Goto("status")
    /\ UNCHANGED <<i, verdict, success, failed>>

\* The IPP status and the job number; memory that was not read can have any value.
IppStatus ==
    /\ pc = "status"
    /\ \/ success' = (bp[i] = "OK" /\ bp[i + 1] = Job)
       \/ "junk" \in {bp[i], bp[i + 1]} /\ success' \in BOOLEAN
    /\ Goto("out")
    /\ UNCHANGED <<answer, verdict, bp, datsz, i, failed>>

Next ==
    \/ ReadFails \/ FirstRead
    \/ FindLength \/ MoreLength \/ AfterLength \/ MoreHeader
    \/ FindEnd \/ MoreEnd \/ Body \/ MoreBody \/ IppStatus

Spec == Init /\ [][Next]_vars
-----------------------------------------------------------------------------
\* The daemon comes to the verdict the printer has sent, in however many pieces it
\* arrives: "They can be returned in multiple read attempts.  Use the
\* Content-Length specifier to determine how much to read." (printd.c:885-887).
VerdictRead ==
    /\ pc # "loops"
    /\ pc = "out" /\ ~failed => success = (verdict = "ok")
=============================================================================
