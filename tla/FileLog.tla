------------------------------ MODULE FileLog ------------------------------
(***************************************************************************)
(* What a write context promises its client: every file is a log.  Bytes   *)
(* are accepted in the order of the calls, a prefix of them has reached    *)
(* the sink (the write callback, or the open stream), the prefix only ever *)
(* grows, and nothing is missing once the context has been freed.          *)
(***************************************************************************)
EXTENDS Naturals, Sequences

CONSTANTS Names,      \* the names of the output files
          Bytes       \* what a file is made of

VARIABLES accepted,   \* accepted[f]: the bytes the client has written to f
          delivered,  \* delivered[f]: the bytes of f that reached the sink
          closed      \* the context has been freed

logVars == <<accepted, delivered, closed>>

Prefix(s, t) == Len(s) <= Len(t) /\ \A i \in 1..Len(s) : s[i] = t[i]

LogInit == /\ accepted = [f \in Names |-> <<>>]
           /\ delivered = [f \in Names |-> <<>>]
           /\ closed = FALSE

\* Only file f of log m grows, and only at its end.
Grows(m, mNext, f) == /\ mNext = [m EXCEPT ![f] = mNext[f]]
                      /\ Prefix(m[f], mNext[f])

Accept(f) == /\ ~closed
             /\ Grows(accepted, accepted', f)
             /\ UNCHANGED <<delivered, closed>>

\* What reaches a sink is the next bytes of the file, in order.
Deliver(f) == /\ ~closed
              /\ Grows(delivered, delivered', f)
              /\ Prefix(delivered'[f], accepted[f])
              /\ UNCHANGED <<accepted, closed>>

Close == /\ ~closed
         /\ delivered = accepted
         /\ closed' = TRUE
         /\ UNCHANGED <<accepted, delivered>>

LogNext == (\E f \in Names : Accept(f) \/ Deliver(f)) \/ Close

LogSpec == LogInit /\ [][LogNext]_logVars
=============================================================================
