-------------------------- MODULE PostgresLifetimes --------------------------
(***************************************************************************)
(* How long a row lives while calls overlap.  Most calls leave a memory at *)
(* least the time it had: an observation and a rating only renew it.  Two  *)
(* do not.  A correction that is merged into a row gives it the lifetime   *)
(* of the memory it corrects, and a batch that writes a row back keeps the *)
(* date it was created (src/providers/postgres-provider.ts): either may    *)
(* publish a row whose time is over.  What an observation promises has to  *)
(* say so, and `cut` remembers, for each observation, the rows that was    *)
(* done to behind its back.                                                *)
(***************************************************************************)
EXTENDS PostgresProvider

VARIABLE cut  \* rows whose life another call cut short since the session looked for expired ones

lvars == <<tvars, cut>>

Outlasts(new, old) ==
  new.decay = "none" \/ (old.decay # "none" /\ Anchor(old) <= Anchor(new))

Republishes(s) ==
  calls[s].op \in {"correct", "ingest"} /\ At(s, "commit") /\ calls'[s].op = "idle"

\* A correction or a batch commits a row with the date it was created that has run out,
\* and that row had another text before, or more time.
CutShort(i) ==
  /\ \E s \in Session : Republishes(s) /\ own[s][i] # None
  /\ rows[i] # None /\ Active(rows'[i])
  /\ rows'[i].decay = "time" /\ Expired(rows'[i], now)
  /\ ~(HasKey(rows[i], Key(rows'[i])) /\ Outlasts(rows'[i], rows[i]))

Remembers ==
  cut' = [s \in Session |->
            IF calls'[s].op = "observe" /\ calls'[s].at \in {"insert", "commit"}
            THEN cut[s] \cup {i \in Id : CutShort(i)} ELSE {}]

LifetimeSpec ==
  /\ Init /\ cut = [s \in Session |-> {}]
  /\ [][(PromptTick \/ Steps) /\ Remembers]_lvars

(***************************************************************************)
(* Properties.                                                             *)
(***************************************************************************)

\* No observation is answered with a memory that had expired when its transaction began:
\* the expired row that holds its text is archived and a new one takes its place, however
\* many observations, ratings and sweeps of it there are.  The exception is a row whose
\* life a correction or a batch cut short after the observation looked for expired ones.
ReusesVisible ==
  \A s \in Session : \A i \in Id \ cut[s] :
    At(s, "commit") /\ calls[s].op = "observe" /\ rows[i] # None /\ Active(own[s][i]) =>
      ~Expired(rows[i], calls[s].start)

\* The vector a row is searched by is that of its own text, whoever created the row.
VectorsCurrent == \A i \in Id : Active(rows[i]) => rows[i].vector = rows[i].content

\* Both.
RowsCurrent == ReusesVisible /\ VectorsCurrent
=============================================================================
