----------------------------- MODULE LockService -----------------------------
(***************************************************************************)
(* What the locks promise to the software on the cores: a lock a core      *)
(* believes it has is a lock no other core believes it has, until the core *)
(* gives it back.  Beliefs are all the state there is.                     *)
(***************************************************************************)
CONSTANTS
  Cores,          \* the processor cores
  Locks           \* the locks

VARIABLE
  held            \* held[c]: the locks core c has taken and not given back

Init == held = [c \in Cores |-> {}]

Take(c, l) ==
  /\ \A d \in Cores \ {c} : l \notin held[d]
  /\ held' = [held EXCEPT ![c] = @ \cup {l}]

GiveBack(c, l) ==
  /\ l \in held[c]
  /\ held' = [held EXCEPT ![c] = @ \ {l}]

Next == \E c \in Cores, l \in Locks : Take(c, l) \/ GiveBack(c, l)

Spec == Init /\ [][Next]_held
==============================================================================
