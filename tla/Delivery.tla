------------------------------ MODULE Delivery ------------------------------
(***************************************************************************)
(* What the platform promises of a job's artifacts: they are offered at    *)
(* once, all from one run of that job, with one file of every kind the     *)
(* job is to deliver, and what is offered never changes.                   *)
(***************************************************************************)
CONSTANTS Jobs, Runs, Files, KindOf(_)

VARIABLES wanted,  \* the kinds of file each job is to deliver
          offered  \* the files on offer, each with the run that wrote it

Kinds == {KindOf(f) : f \in Files}

Init == /\ wanted \in [Jobs -> SUBSET Kinds]
        /\ offered = [j \in Jobs |-> {}]

Publish(j) ==
    /\ offered[j] = {}
    /\ \E S \in SUBSET Files, r \in Runs :
          /\ wanted[j] \subseteq {KindOf(f) : f \in S}
          /\ offered' = [offered EXCEPT ![j] = {[file |-> f, job |-> j, run |-> r] : f \in S}]
    /\ UNCHANGED wanted

Next == \E j \in Jobs : Publish(j)

Spec == Init /\ [][Next]_<<wanted, offered>>
=============================================================================
