----------------------------- MODULE AgentTools -----------------------------
(***************************************************************************)
(* The tools an agent corrects and forgets memories with                   *)
(* (src/integrations/tools.ts), over a memory service that may be remote   *)
(* and older than the tools: without the atomic correction, the read by id *)
(* or the status route, in which case a correction is several calls.       *)
(*                                                                         *)
(* A call may fail before or after it took effect; the tool then throws.   *)
(* Ranking, hence the downranking feedback, is left out but for the        *)
(* failure it may cause.  Agents have one identity and see each other's    *)
(* memories; each corrects or forgets one, so several stand for one agent  *)
(* that does so several times.  A provider writes exact texts in one step  *)
(* (ingestOrReinforceExact); one without it is MemoryService's.            *)
(***************************************************************************)
EXTENDS Integers, FiniteSetsExt

CONSTANTS
  Agent,
  Wording,  \* texts, by normalizeKey()
  MaxId,    \* bound on the memories stored
  NoId

VARIABLES
  service,   \* its routes, what its provider can do, and whether it extracts
  memories,  \* id -> status, text, and the id it was superseded by
  uses       \* the tool each agent runs, or its result

toolVars == <<service, memories, uses>>

Id == 1 .. MaxId

ASSUME ToolsConstants == MaxId \in Nat /\ NoId \notin Id

Active(m) == memories[m].status = "active"
Pending == {"first", "write", "ingest", "downrank", "retire"}
Use(tool, m, t) ==
  [tool |-> tool, m |-> m, t |-> t, newId |-> NoId, at |-> "first", result |-> "none", stored |-> FALSE]

Go(a, at) == uses' = [uses EXCEPT ![a].at = at]

Answer(a, result) == uses' = [uses EXCEPT ![a].at = "replied", ![a].result = result]
Throw(a) == uses' = [uses EXCEPT ![a] = [Use("none", 1, "none") EXCEPT !.at = "thrown"]]

(***************************************************************************)
(* The service, as the tools' calls find it.                               *)
(***************************************************************************)
DuplicateOf(t) == {m \in Id : Active(m) /\ memories[m].text = t}
Free == {m \in Id : memories[m].status = "absent"}

\* What an observation is stored as: itself or, with an extractor, any texts or none.
Observations(t) == IF service.extracts THEN SUBSET Wording ELSE {{t}}

\* Each text reinforces a duplicate of it or is created, in the order of ids.
PutTexts(texts, at) ==
  /\ \A t \in texts : at[t] \in IF DuplicateOf(t) = {} THEN Free ELSE DuplicateOf(t)
  /\ \A t, u \in texts : at[t] = at[u] => t = u
  /\ \A t \in texts : at[t] \in Free => \A m \in Free : m < at[t] => \E u \in texts : at[u] = m
  /\ memories' = [m \in Id |->
       IF m \in Free /\ \E t \in texts : at[t] = m
       THEN [status |-> "active", text |-> CHOOSE t \in texts : at[t] = m, by |-> NoId]
       ELSE memories[m]]

\* ingest() answers with the ids created, then those reinforced; a tool takes the first.
\* Between its writes others may write, as if its first ones were a call of their own.
IngestAnswers(t, id) ==
  \E texts \in Observations(t) : \E at \in [texts -> Id] :
    /\ PutTexts(texts, at)
    /\ \/ texts = {} /\ id = NoId
       \/ \E u \in texts : id = at[u] /\ (id \in Free \/ \A v \in texts : at[v] \notin Free)

RetireMemory(m, status, by) ==
  memories' = [memories EXCEPT ![m].status = status, ![m].by = by]

(***************************************************************************)
(* supersede.                                                              *)
(***************************************************************************)
SupersedeStarts(a) ==
  /\ uses[a].at = "unused"
  /\ \E m \in Id, t \in Wording : uses' = [uses EXCEPT ![a] = Use("supersede", m, t)]
  /\ UNCHANGED <<service, memories>>

Asking(a, tool, at) == uses[a].tool = tool /\ uses[a].at = at

\* mutant: what retire() answers is not looked at
RetiresUnasked(a) ==
  /\ memories' = IF Active(uses[a].m) THEN
                   [memories EXCEPT ![uses[a].m].status = "superseded", ![uses[a].m].by = uses[a].newId]
                 ELSE memories
  /\ Answer(a, "replaced")
RetiresFor(a) ==
  IF Active(uses[a].m)
  THEN RetireMemory(uses[a].m, "superseded", uses[a].newId) /\ Answer(a, "replaced")
  ELSE Answer(a, "partial") /\ UNCHANGED memories

\* supersedeMemory() of the service: it reads the memory,
CorrectionReads(a) ==
  LET m == uses[a].m IN
  /\ Asking(a, "supersede", "first") /\ service.corrects # "no"
  /\ IF ~Active(m) THEN Answer(a, "not_found")
     ELSE IF memories[m].text = uses[a].t THEN Answer(a, "identical")
     ELSE Go(a, "write")
  /\ UNCHANGED <<service, memories>>

\* and stores the replacement, in one step with the retirement where the provider can,
Replace(a, id) ==
  LET m == uses[a].m
      t == uses[a].t
  IN
  memories' = [memories EXCEPT
    ![id] = IF id \in Free THEN [status |-> "active", text |-> t, by |-> NoId] ELSE @,
    ![m] = IF service.corrects = "transaction" THEN [@ EXCEPT !.status = "superseded", !.by = id] ELSE @]

CorrectionWrites(a) ==
  LET t == uses[a].t IN
  /\ Asking(a, "supersede", "write")
  /\ IF service.corrects = "transaction" /\ ~Active(uses[a].m)
     THEN Answer(a, "raced") /\ UNCHANGED memories
     ELSE \E id \in IF DuplicateOf(t) = {} THEN Free ELSE DuplicateOf(t) :
            /\ Replace(a, id)
            /\ uses' = [uses EXCEPT ![a].newId = id, ![a].stored = TRUE,
                 ![a].at = IF service.corrects = "transaction" THEN "replied" ELSE "retire",
                 ![a].result = IF service.corrects = "transaction" THEN "replaced" ELSE @]
  /\ UNCHANGED service

\* or by a call of its own, which may fail before or after it took effect.
CorrectionRetires(a) ==
  LET m == uses[a].m IN
  /\ Asking(a, "supersede", "retire") /\ service.corrects = "calls"
  /\ \/ RetiresFor(a)
     \/ Answer(a, "failed") /\ UNCHANGED memories
     \/ Active(m) /\ RetireMemory(m, "superseded", uses[a].newId) /\ Answer(a, "failed")
  /\ UNCHANGED service

AnswerLost(a) ==
  /\ uses[a].at \in Pending
  /\ Throw(a)
  /\ UNCHANGED <<service, memories>>

\* An older service: the memory is read, or else probed by a negative feedback.
LegacyRead(a) ==
  LET m == uses[a].m IN
  /\ Asking(a, "supersede", "first") /\ service.corrects = "no"
  /\ IF ~Active(m) THEN Answer(a, "not_found")
     ELSE IF service.read /\ memories[m].text = uses[a].t THEN Answer(a, "identical")
     ELSE Go(a, "ingest")
  /\ UNCHANGED <<service, memories>>

LegacyIngest(a) ==
  /\ Asking(a, "supersede", "ingest")
  /\ \E id \in Id \cup {NoId} :
       /\ IngestAnswers(uses[a].t, id)
       /\ uses' = [uses EXCEPT ![a].newId = id, ![a].stored = TRUE,
                               ![a].at = IF service.read THEN "downrank" ELSE "retire"]
  /\ UNCHANGED service

LegacyDownrank(a) ==
  /\ Asking(a, "supersede", "downrank")
  /\ Go(a, "retire")
  /\ UNCHANGED <<service, memories>>

LegacyRetire(a) ==
  /\ Asking(a, "supersede", "retire") /\ service.corrects = "no"
  /\ IF service.status THEN RetiresFor(a) ELSE Answer(a, "downranked") /\ UNCHANGED memories
  /\ UNCHANGED service

(***************************************************************************)
(* forget.                                                                 *)
(***************************************************************************)
ForgetStarts(a) ==
  /\ uses[a].at = "unused"
  /\ \E m \in Id : uses' = [uses EXCEPT ![a] = Use("forget", m, "none")]
  /\ UNCHANGED <<service, memories>>

\* Feedback first, which only an active memory takes.  A service without the status route
\* leaves it at that, or, where only the client knows the route, fails.
ForgetDownranks(a) ==
  /\ Asking(a, "forget", "first")
  /\ IF service.status THEN Go(a, "retire")
     ELSE Answer(a, IF Active(uses[a].m) THEN "downranked" ELSE "not_found")
  /\ UNCHANGED <<service, memories>>

ForgetRetires(a) ==
  /\ Asking(a, "forget", "retire")
  /\ IF Active(uses[a].m)
     THEN RetireMemory(uses[a].m, "archived", NoId) /\ Answer(a, "forgotten")
     ELSE Answer(a, "not_found") /\ UNCHANGED memories
  /\ UNCHANGED service

(***************************************************************************)
(* remember, by any agent: it needs no answer.                             *)
(***************************************************************************)
Remember ==
  /\ \E t \in Wording, id \in Id \cup {NoId} : IngestAnswers(t, id)
  /\ UNCHANGED <<service, uses>>

ToolsInit ==
  /\ service \in {s \in [corrects : {"no", "calls", "transaction"}, read : BOOLEAN,
                         status : BOOLEAN, extracts : BOOLEAN] :
                   s.corrects # "no" => s.read /\ s.status}
  /\ memories = [m \in Id |-> [status |-> "absent", text |-> "none", by |-> NoId]]
  /\ uses = [a \in Agent |-> [Use("none", 1, "none") EXCEPT !.at = "unused"]]

ToolsNext ==
  \/ Remember
  \/ \E a \in Agent :
    \/ SupersedeStarts(a) \/ AnswerLost(a)
    \/ CorrectionReads(a) \/ CorrectionWrites(a) \/ CorrectionRetires(a)
    \/ LegacyRead(a) \/ LegacyIngest(a) \/ LegacyDownrank(a) \/ LegacyRetire(a)
    \/ ForgetStarts(a) \/ ForgetDownranks(a) \/ ForgetRetires(a)

ToolsSpec == ToolsInit /\ [][ToolsNext]_toolVars

(***************************************************************************)
(* Properties.                                                             *)
(***************************************************************************)

\* What a tool tells the agent is so, whatever the other agents' calls did in between: a
\* memory it says it replaced is retired in favour of the id it names, one it forgot is gone;
\* after a refusal, or a correction that was overtaken, it stored nothing; one that came to
\* nothing or half way because the memory changed was overtaken by somebody else; and where
\* it names a replacement, were it for a retirement that failed, that memory holds the new
\* text.  And no memory is retired in favour of itself or of a text never stored.  Excepted
\* is a service without the correction that extracts, which may store other texts or none,
\* or cannot be read.
ToolsTellTruth ==
  /\ \A a \in Agent : uses[a].at = "replied" =>
       LET u == uses[a]
           old == memories[u.m]
       IN
       /\ u.result = "replaced" => old.status = "superseded" /\ old.by = u.newId
       /\ u.result \in {"not_found", "identical", "raced"} => ~u.stored
       /\ u.result = "forgotten" => old.status = "archived"
       /\ u.result \in {"raced", "partial"} => old.status \in {"superseded", "archived"}
       /\ u.stored /\ (service.corrects # "no" \/ ~service.extracts) =>
            u.newId # NoId /\ memories[u.newId].text = u.t
  /\ (service.corrects # "no" \/ (service.read /\ ~service.extracts)) =>
       \A m \in Id : memories[m].status = "superseded" =>
         memories[m].by \notin {m, NoId} /\ memories[memories[m].by].text # memories[m].text
=============================================================================
