------------------------- MODULE MCPostgresLifetimes -------------------------
(* Small instances of PostgresLifetimes: one process observes, beside one that does anything. *)
EXTENDS MCPostgresProvider, PostgresLifetimes

CONSTANT Observer

\* One row of the default decay policy.
MCAgeing == {[NoRows EXCEPT ![i] = NewRow(tea, "time", 0)] : i \in Id}

ObserverObserves == LET c == calls'[Observer] IN
  c.op # "idle" => c.op = "observe" /\ c.rec.content = Tea /\ c.rec.decay = "time"

OthersSay == \A s \in Others(Observer) :
  LET c == calls'[s] IN /\ c.op = "observe" => c.rec.content # Tea
                        /\ c.op = "correct" => c.rec.content = tea

ObservedSpec ==
  /\ Init /\ cut = [s \in Session |-> {}]
  /\ [][(PromptTick \/ Steps) /\ Remembers /\ ObserverObserves /\ OthersSay]_lvars
=============================================================================
