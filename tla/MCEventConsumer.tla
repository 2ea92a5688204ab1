--------------------------- MODULE MCEventConsumer ---------------------------
(***************************************************************************)
(* Instances of EventConsumer for TLC.                                     *)
(***************************************************************************)
EXTENDS EventConsumer, TLC

CONSTANTS events, objects

\* A message, one that does not parse, and a message.
OnePartition == {events}
PoisonSecond == {<<events, 2>>}

\* The object topic is transactional: a control record after each message.
BothTopics == {events, objects}
ObjectTopic == {objects}
PoisonEvent == {<<events, 1>>}
HiddenObject == {<<objects, 2>>}

None == {}
Symmetry == Permutations(Consumers)
=============================================================================
