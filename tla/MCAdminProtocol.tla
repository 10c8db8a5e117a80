-------------------------- MODULE MCAdminProtocol --------------------------
(* A byte has four values and a size two bytes; a text and an answer are   *)
(* empty, short, of a size with two digits, and longer than MaxBody.       *)
EXTENDS AdminProtocol

MCWeight == [k \in 0 .. SizeBytes |-> Base ^ (SizeBytes - k)]

MCMs1 == <<1, 2>>
MCMs2 == <<1, 3>>

MCTexts == {<<>>, <<1>>, <<2, 3>>, <<1, 0, 0, 2, 3>>, [i \in 1 .. 7 |-> 3]}

MCReply(t) == IF Len(t) = 2 THEN [i \in 1 .. 6 |-> 2] ELSE <<Len(t) % Base>>
=============================================================================
