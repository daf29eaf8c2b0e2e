----------------------------- MODULE ExactStore -----------------------------
(***************************************************************************)
(* What the two atomic operations of MemoryProvider promise                *)
(* (src/provider.ts, ingestOrReinforceExact and supersedeWithReplacement): *)
(* each write of a shared store is one step of its table, whatever other   *)
(* processes do, and at most one active memory has a given text in a       *)
(* visibility locus.                                                       *)
(*                                                                         *)
(* A Content stands for a locus, a memory type and a text: NormKey is the  *)
(* key the five unique indexes enforce.                                    *)
(***************************************************************************)
EXTENDS Naturals, FiniteSets

CONSTANTS Id, Content, NormKey, DecayKind, TTL, None

VARIABLES
  rows,  \* committed rows of table memories, with their metadata links
  now    \* the database's clock

(***************************************************************************)
(* Rows.                                                                   *)
(***************************************************************************)
Row == [content: Content, decay: DecayKind, createdAt: Nat, seenAt: Nat,
        status: {"active", "superseded", "archived"},
        by: Id \cup {None},            \* metadata.supersededBy
        history: SUBSET Id,            \* metadata.supersessionHistory
        vector: Content \cup {None}]   \* text of its row in the embedding table

Rows == [Id -> Row \cup {None}]

ASSUME StoreConstants ==
  /\ None \notin Id \cup Content \cup Row
  /\ DecayKind \subseteq {"none", "time", "inactivity"}
  /\ TTL \in Nat

Key(r) == NormKey[r.content]
Active(r) == r # None /\ r.status = "active"
History(r) == IF r = None THEN {} ELSE r.history
HasKey(r, k) == Active(r) /\ Key(r) = k

Anchor(r) == IF r.decay = "inactivity" THEN r.seenAt ELSE r.createdAt
Expired(r, t) == r.decay # "none" /\ t > Anchor(r) + TTL

(***************************************************************************)
(* Steps of the table.  Before a row takes a key, the expired active row   *)
(* that still holds it is archived in the same step.                       *)
(***************************************************************************)
ArchivesExpired(i, k) ==
  /\ HasKey(rows[i], k) /\ Expired(rows[i], now)
  /\ rows'[i] = [rows[i] EXCEPT !.status = "archived"]

OnlyChanges(S, k) == \A i \in Id \ S : rows'[i] = rows[i] \/ ArchivesExpired(i, k)

Creates(i) == rows[i] = None /\ Active(rows'[i]) /\ rows'[i].by = None

\* A reused row keeps its text and its creation time, and is seen no earlier than before.
Reuses(i) ==
  /\ Active(rows[i]) /\ Active(rows'[i]) /\ rows'[i].by = rows[i].by
  /\ rows'[i].content = rows[i].content /\ rows'[i].vector = rows[i].vector
  /\ rows'[i].createdAt = rows[i].createdAt /\ rows'[i].seenAt >= rows[i].seenAt

Takes(i) ==
  /\ Creates(i) \/ Reuses(i)
  /\ \A j \in Id \ {i} : ~HasKey(rows'[j], Key(rows'[i]))

Observes ==
  \E i \in Id :
    /\ Takes(i)
    /\ rows'[i].history = History(rows[i])
    /\ rows[i] # None => rows'[i].decay = rows[i].decay
    /\ OnlyChanges({i}, Key(rows'[i]))

Corrects ==
  \E i, j \in Id :
    /\ i # j /\ Active(rows[i]) /\ Takes(j)
    /\ Key(rows'[j]) # Key(rows[i])
    /\ rows'[j].history = {i} \cup History(rows[j])
    /\ rows'[i] = [rows[i] EXCEPT !.status = "superseded", !.by = j]
    /\ OnlyChanges({i, j}, Key(rows'[j]))

Retires ==
  \E i \in Id : \E status \in {"superseded", "archived"} :
    /\ Active(rows[i])
    /\ rows' = [rows EXCEPT ![i].status = status]

Feedbacks ==
  \E i \in Id : Active(rows[i]) /\ \E t \in 0 .. now : rows' = [rows EXCEPT ![i].seenAt = t]

\* A sweep archives what is due, and what was superseded.
Sweeps ==
  \A i \in Id : rows'[i] # rows[i] =>
    /\ \/ rows[i] # None /\ rows[i].status = "superseded"
       \/ Active(rows[i]) /\ Expired(rows[i], now)
    /\ rows'[i] = [rows[i] EXCEPT !.status = "archived"]

TimePasses == now' > now /\ UNCHANGED rows

StoreInit == rows = [i \in Id |-> None] /\ now = 0

StoreNext ==
  \/ /\ Observes \/ Corrects \/ Retires \/ Feedbacks \/ Sweeps
     /\ now' = now
  \/ TimePasses

StoreSpec == StoreInit /\ [][StoreNext]_<<rows, now>>

\* At most one active memory has a given text in a given locus.
OneActivePerKey ==
  \A i, j \in Id :
    Active(rows[i]) /\ Active(rows[j]) /\ Key(rows[i]) = Key(rows[j]) => i = j
=============================================================================
