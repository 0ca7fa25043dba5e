----------------------------- MODULE EventFeed -----------------------------
(***************************************************************************)
(* What the event stream of a job promises a reader: events are numbered   *)
(* 1, 2, 3, ... and read in that order with none left out; a reader that   *)
(* was cut off goes on at the start or after the last event it has seen.   *)
(***************************************************************************)
EXTENDS Naturals

VARIABLES last,  \* number of events published
          pos,   \* the event read last on this connection
          high   \* the highest event ever read

Init == last = 0 /\ pos = 0 /\ high = 0

Publish == last' = last + 1 /\ UNCHANGED <<pos, high>>

Read == /\ pos < last
        /\ pos' = pos + 1
        /\ high' = IF pos' > high THEN pos' ELSE high
        /\ UNCHANGED last

Resume == pos' \in {0, high} /\ UNCHANGED <<last, high>>

Next == Publish \/ Read \/ Resume

Spec == Init /\ [][Next]_<<last, pos, high>>
=============================================================================
