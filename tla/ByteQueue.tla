----------------------------- MODULE ByteQueue ------------------------------
(***************************************************************************)
(* What a synchronised block stream promises its callers: a queue of bytes *)
(* without any blocks in it.  A call takes bytes from the front, or looks  *)
(* at some, or waits; it is served in one step.                            *)
(***************************************************************************)
EXTENDS Integers, Sequences, SequencesExt

CONSTANTS
    Callers,
    Calls,          \* the calls, records with fields op, len and offset
    NoCall

VARIABLES
    bytes,          \* the bytes in the queue
    ended,          \* the end of the stream was announced
    call,           \* the call each caller is in
    result          \* the bytes its last call returned, none for NULL or 0

vars == <<bytes, ended, call, result>>

First(n) == SubSeq(bytes, 1, n)
After(n) == SubSeq(bytes, n + 1, Len(bytes))
AtMost(n) == IF n < Len(bytes) THEN n ELSE Len(bytes)

Init ==
    /\ bytes = <<>>
    /\ ended = FALSE
    /\ call = [c \in Callers |-> NoCall]
    /\ result = [c \in Callers |-> <<>>]

\* Bytes come in at either end ...
Put ==
    /\ IsPrefix(bytes, bytes') \/ IsSuffix(bytes, bytes')
    /\ UNCHANGED <<ended, call, result>>

\* ... and some from the front are given up.
Drop ==
    /\ IsSuffix(bytes', bytes)
    /\ UNCHANGED <<ended, call, result>>

End ==
    /\ ended' = TRUE
    /\ UNCHANGED <<bytes, call, result>>

Call(c, q) ==
    /\ call[c] = NoCall
    /\ call' = [call EXCEPT ![c] = q]
    /\ result' = [result EXCEPT ![c] = <<>>]
    /\ UNCHANGED <<bytes, ended>>

Return(c, s) ==
    /\ call' = [call EXCEPT ![c] = NoCall]
    /\ result' = [result EXCEPT ![c] = s]
    /\ UNCHANGED ended

\* As many bytes as there are, up to the length asked for.
Get(c) ==
    /\ call[c].op = "GetBytes"
    /\ bytes # <<>>
    /\ Return(c, First(AtMost(call[c].len)))
    /\ bytes' = After(AtMost(call[c].len))

\* Exactly the length asked for, or NULL.
GetExactly(c) ==
    /\ call[c].op \in {"GetBlock", "GetBlocks"}
    /\ bytes # <<>>
    /\ IF call[c].len > Len(bytes)
       THEN Return(c, <<>>) /\ UNCHANGED bytes
       ELSE Return(c, First(call[c].len)) /\ bytes' = After(call[c].len)

GetAll(c) ==
    /\ call[c].op = "ToBlock"
    /\ bytes # <<>>
    /\ Return(c, bytes)
    /\ bytes' = <<>>

\* Some bytes from the front, taken or only looked at.
GetSome(c) ==
    /\ call[c].op \in {"GetFront", "Front"}
    /\ \E n \in DOMAIN bytes :
          /\ Return(c, First(n))
          /\ bytes' = IF call[c].op = "Front" THEN bytes ELSE After(n)

\* What Get would return after offset bytes.
Peek(c) ==
    /\ call[c].op = "PeekBytes"
    /\ call[c].offset < Len(bytes)
    /\ Return(c, SubSeq(bytes, call[c].offset + 1,
                        AtMost(call[c].offset + call[c].len)))
    /\ UNCHANGED bytes

\* The byte behind offset others; none when these are all.
ByteAt(c) ==
    /\ call[c].op = "ByteAt"
    /\ call[c].offset <= Len(bytes)
    /\ Return(c, SubSeq(bytes, call[c].offset + 1, AtMost(call[c].offset + 1)))
    /\ UNCHANGED bytes

\* At the end a call may return nothing, and only for want of bytes.
GiveUp(c) ==
    /\ ended
    /\ call[c].offset >= Len(bytes)
    /\ Return(c, <<>>)
    /\ UNCHANGED bytes

Serve(c) ==
    /\ call[c] # NoCall
    /\ \/ Get(c)
       \/ GetExactly(c)
       \/ GetAll(c)
       \/ GetSome(c)
       \/ Peek(c)
       \/ ByteAt(c)
       \/ GiveUp(c)

Next ==
    \/ Put
    \/ Drop
    \/ End
    \/ \E c \in Callers : Serve(c) \/ \E q \in Calls : Call(c, q)

Spec == Init /\ [][Next]_vars
=============================================================================
