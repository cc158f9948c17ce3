------------------------------ MODULE WorkSet ------------------------------
(***************************************************************************)
(* What a task queue promises to the handlers that add keys to it and to   *)
(* the sync functions it calls: a set of keys to be worked on.  A key added*)
(* while it is worked on is worked on again, a key that failed comes back  *)
(* after a delay, and no key is worked on twice at a time.                 *)
(***************************************************************************)
CONSTANT Items

VARIABLES
  pending,   \* keys added since their last run began
  delayed,   \* keys that failed and wait for their back-off
  running,   \* keys being worked on
  closed     \* no more keys are taken

vars == <<pending, delayed, running, closed>>

Init ==
  /\ pending = {}
  /\ delayed = {}
  /\ running = {}
  /\ closed = FALSE

Add(k) ==
  /\ ~closed
  /\ pending' = pending \cup {k}
  /\ UNCHANGED <<delayed, running, closed>>

Begin(k) ==
  /\ k \in pending
  /\ k \notin running
  /\ pending' = pending \ {k}
  /\ running' = running \cup {k}
  /\ UNCHANGED <<delayed, closed>>

Fail(k) ==
  /\ k \in running
  /\ ~closed
  /\ delayed' = delayed \cup {k}
  /\ UNCHANGED <<pending, running, closed>>

End(k) ==
  /\ k \in running
  /\ running' = running \ {k}
  /\ UNCHANGED <<pending, delayed, closed>>

Ripen(k) ==
  /\ k \in delayed
  /\ ~closed
  /\ delayed' = delayed \ {k}
  /\ pending' = pending \cup {k}
  /\ UNCHANGED <<running, closed>>

Close ==
  /\ closed' = TRUE
  /\ UNCHANGED <<pending, delayed, running>>

Next ==
  \/ \E k \in Items : Add(k) \/ Begin(k) \/ Fail(k) \/ End(k) \/ Ripen(k)
  \/ Close

Spec == Init /\ [][Next]_vars
=============================================================================
