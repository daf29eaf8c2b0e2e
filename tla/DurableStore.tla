---------------------------- MODULE DurableStore ----------------------------
(***************************************************************************)
(* What a persistent memory provider promises its callers: a write is      *)
(* acknowledged only once it would survive the process, and a restart      *)
(* brings back a state the store has been in, never an older one than any  *)
(* acknowledged write.  A state of the store is the number of writes it    *)
(* holds, in the order they were applied.                                  *)
(***************************************************************************)
EXTENDS Naturals

VARIABLES
  written,  \* writes the running store holds
  durable,  \* writes that would survive the process
  acked     \* the latest write any caller was told is stored

Init == written = 0 /\ durable = 0 /\ acked = 0

Write == written' = written + 1 /\ UNCHANGED <<durable, acked>>

Persist ==
  /\ durable' \in durable .. written
  /\ UNCHANGED <<written, acked>>

Acknowledge ==
  /\ acked' \in acked .. durable
  /\ UNCHANGED <<written, durable>>

Restart == written' = durable /\ UNCHANGED <<durable, acked>>

Next == Write \/ Persist \/ Acknowledge \/ Restart

Spec == Init /\ [][Next]_<<written, durable, acked>>
=============================================================================
