---------------------------- MODULE MediaPromise ----------------------------
(***************************************************************************)
(* What the media service promises of one upload, whatever happens inside: *)
(* its output appears once and complete, stays the same while it is shown, *)
(* and once withdrawn nothing is ever shown for that upload again.         *)
(***************************************************************************)
CONSTANTS Jobs, Digests, Variants

VARIABLES
    shown,      \* the outputs a reader finds for an upload: none or one
    spent       \* the uploads that had their turn

promiseVars == <<shown, spent>>

PromiseInit ==
    /\ shown = [j \in Jobs |-> {}]
    /\ spent = {}

\* All variants of an output appear at once.
Show(j) ==
    /\ j \notin spent
    /\ \E d \in Digests : shown' = [shown EXCEPT ![j] = {[v \in Variants |-> d]}]
    /\ spent' = spent \cup {j}

Withdraw(j) ==
    /\ shown[j] # {}
    /\ shown' = [shown EXCEPT ![j] = {}]
    /\ UNCHANGED spent

PromiseNext == \E j \in Jobs : Show(j) \/ Withdraw(j)

PromiseSpec == PromiseInit /\ [][PromiseNext]_promiseVars
=============================================================================
