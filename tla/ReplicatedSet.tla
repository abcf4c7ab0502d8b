---------------------------- MODULE ReplicatedSet ----------------------------
(***************************************************************************)
(* What replication promises, with no server, no logs and no cursors: each *)
(* replica holds a set of operations that only grows.  A number of an      *)
(* origin names one operation for all replicas and for ever, a replica     *)
(* learns only what another one holds, and what may vanish, when a machine *)
(* loses power, is a replica's own writing that nobody else has seen.      *)
(***************************************************************************)
EXTENDS Naturals

CONSTANTS Replica, Operation

VARIABLES
    known,  \* the operations each replica has taken in
    kept    \* those among them that survive a loss of power

Init == /\ known = [r \in Replica |-> {}]
        /\ kept = [r \in Replica |-> {}]

Write(r) ==
    \E op \in Operation :
        /\ op.node = r
        /\ known' = [known EXCEPT ![r] = @ \cup {op}]
        /\ UNCHANGED kept
        /\ \A s \in Replica : \A o \in known[s] :
              ~ (o.node = r /\ o.seq = op.seq)

\* What travels is durable where it comes from, and durable on arrival.
Learn(r) ==
    \E s \in Replica \ {r} : \E K \in {kept[s], known[s]} :
        /\ \E S \in SUBSET K : known' = [known EXCEPT ![r] = @ \cup S]
        /\ kept' = [kept EXCEPT ![r] = known'[r], ![s] = K]

Flush(r) ==
    /\ kept' = [kept EXCEPT ![r] = known[r]]
    /\ UNCHANGED known

LosePower(r) ==
    \E S \in SUBSET (known[r] \ kept[r]) :
        /\ known' = [known EXCEPT ![r] = @ \ S]
        /\ UNCHANGED kept

Next == \E r \in Replica : Write(r) \/ Learn(r) \/ Flush(r) \/ LosePower(r)

Spec == Init /\ [][Next]_<<known, kept>>
=============================================================================
