------------------------------- MODULE MCCosim -------------------------------
(* Cosim on a small instance, with a capture that passes and one that runs   *)
(* out of tries, passes over a command and then finds a mismatch.            *)
EXTENDS Cosim

MCWrite(v)   == [op |-> "WRITE", inRange |-> TRUE, dat |-> v, timeOut |-> 0]
MCCompare(v) == [op |-> "RDnCMP", inRange |-> TRUE, dat |-> v, timeOut |-> 0]
MCSpin(v, n) == [op |-> "RDSPIN", inRange |-> TRUE, dat |-> v, timeOut |-> n]
Outside(cmd) == [cmd EXCEPT !.inRange = FALSE]

MCCaptures ==
  {<<MCWrite(1), MCSpin(1, 1), MCCompare(1)>>,
   <<MCSpin(1, 2), Outside(MCWrite(1)), MCSpin(1, 0), MCCompare(1)>>}
==============================================================================
