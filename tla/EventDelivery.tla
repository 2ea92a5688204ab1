---------------------------- MODULE EventDelivery ----------------------------
(***************************************************************************)
(* What the consumer group promises of the messages in Kafka: a message    *)
(* that can be read has its facts stored before anything else is written   *)
(* for it, a message that cannot is set aside, and the group's offset      *)
(* moves forward only over messages that are done with, one way or the     *)
(* other.                                                                  *)
(***************************************************************************)
EXTENDS Naturals

CONSTANTS Partitions, Size, Hidden, Poison

VARIABLES stored, written, dead, committed

Message == Partitions \X (1 .. Size)
Readable == Message \ (Hidden \cup Poison)

Done(p, n) == \A o \in 1 .. n - 1 : <<p, o>> \in Hidden \cup written \cup dead

Init ==
    /\ stored = {} /\ written = {} /\ dead = {}
    /\ committed = [p \in Partitions |-> 1]

\* The facts of some messages are stored, and what else is owed to them.
Store ==
    /\ \E S \in SUBSET Readable, T \in SUBSET Readable :
          /\ stored' = stored \cup S
          /\ T \subseteq stored' /\ written' = written \cup T
    /\ UNCHANGED <<dead, committed>>

SetAside ==
    /\ \E m \in Message \ Hidden : dead' = dead \cup {m}
    /\ UNCHANGED <<stored, written, committed>>

Commit(p) ==
    /\ \E n \in committed[p] .. Size + 1 : Done(p, n) /\ committed' = [committed EXCEPT ![p] = n]
    /\ UNCHANGED <<stored, written, dead>>

Next == Store \/ SetAside \/ \E p \in Partitions : Commit(p)

Spec == Init /\ [][Next]_<<stored, written, dead, committed>>
=============================================================================
