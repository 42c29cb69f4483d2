------------------------- MODULE AtomicTransaction -------------------------
(***************************************************************************)
(* What transaction.Execute promises a caller whose operations all go      *)
(* through it: the writes of one transaction become visible all at once,   *)
(* and only when every operation that joined has left and none of them     *)
(* failed; otherwise none ever does; and the reply tells which.            *)
(***************************************************************************)
CONSTANT Ops

VARIABLES
  outcome,   \* "active", "committed" or "aborted"
  active,    \* the operations that joined and have not left
  joined,    \* the operations that ever joined
  doomed,    \* an operation that joined has failed
  staged,    \* the operations whose writes await the outcome
  visible,   \* the operations whose writes everybody sees
  reply      \* "none", "ok" or "error"

avars == <<outcome, active, joined, doomed, staged, visible, reply>>

Init ==
  /\ outcome = "active"
  /\ active = {}
  /\ joined = {}
  /\ doomed = FALSE
  /\ staged = {}
  /\ visible = {}
  /\ reply = "none"

Join(o) ==
  /\ o \notin joined
  /\ outcome # "committed"
  /\ joined' = joined \union {o}
  /\ active' = active \union {o}
  /\ UNCHANGED <<outcome, doomed, staged, visible, reply>>

Stage(o) ==
  /\ o \in active
  /\ outcome = "active"
  /\ staged' = staged \union {o}
  /\ UNCHANGED <<outcome, active, joined, doomed, visible, reply>>

Fail(o) ==
  /\ o \in active
  /\ doomed' = TRUE
  /\ UNCHANGED <<outcome, active, joined, staged, visible, reply>>

Leave(o) ==
  /\ o \in active
  /\ active' = active \ {o}
  /\ UNCHANGED <<outcome, joined, doomed, staged, visible, reply>>

Commit ==
  /\ outcome = "active"
  /\ active = {}
  /\ ~doomed
  /\ outcome' = "committed"
  /\ visible' = staged
  /\ staged' = {}
  /\ UNCHANGED <<active, joined, doomed, reply>>

Abort ==
  /\ outcome = "active"
  /\ outcome' = "aborted"
  /\ staged' = {}
  /\ UNCHANGED <<active, joined, doomed, visible, reply>>

Reply ==
  /\ reply = "none"
  /\ \/ outcome = "committed" /\ reply' = "ok"
     \/ outcome = "aborted" /\ reply' = "error"
  /\ UNCHANGED <<outcome, active, joined, doomed, staged, visible>>

Next ==
  \/ \E o \in Ops : Join(o) \/ Stage(o) \/ Fail(o) \/ Leave(o)
  \/ Commit
  \/ Abort
  \/ Reply

Spec == Init /\ [][Next]_avars

=============================================================================
