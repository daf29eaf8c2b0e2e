---------------------------- MODULE DeadlineHttp ----------------------------
(***************************************************************************)
(* Calls under a deadline.  To a hosted model: postJson() of               *)
(* src/retrieval/http.ts and the same loop in OpenAiChatClient of          *)
(* src/extraction/llm.ts, which also asks again after an empty completion  *)
(* and gives up JSON mode for all calls when the endpoint refuses it.  To  *)
(* this service: MemoryCoreClient of src/client.ts, which tries once.      *)
(*                                                                         *)
(* A timer fires no later than due: the event loop is not blocked.  The    *)
(* random part of the back-off is a choice among Delays.                   *)
(***************************************************************************)
EXTENDS Integers

CONSTANTS
  Post,        \* calls in flight at once
  MaxRetries,
  Timeout,     \* timeoutMs, the whole operation's
  Delays,      \* back-offs and Retry-After delays, capped by maxRetryAfterMs
  MaxEmpty,    \* maxEmptyRetries
  MaxPosts,    \* bound on the calls of a run
  MaxInstant   \* bound on the clock

VARIABLES
  posts,     \* each call
  jsonMode,  \* jsonModeSupported
  started,   \* calls so far
  instant

httpVars == <<posts, jsonMode, started, instant>>

ASSUME HttpConstants ==
  /\ MaxRetries \in Nat /\ Timeout \in Nat /\ Delays \subseteq Nat /\ MaxEmpty \in Nat
  /\ MaxPosts \in Nat /\ MaxInstant \in Nat

Ended == {"unused", "answered", "failed"}
Unused == [at |-> "unused"]

InFlight(c) == posts[c].at \notin Ended
Remaining(c) == posts[c].deadline - instant

Set(c, call) == posts' = [posts EXCEPT ![c] = call]
\* Of how it failed, only whether the client kept a refusal to itself is remembered.
Fail(c, why) ==
  Set(c, [at |-> "failed", hides |-> posts[c].kind = "client" /\ ~posts[c].ok /\ why = "body"])
LastAttempt(c) == posts[c].attempt = MaxRetries

(***************************************************************************)
(* An attempt.                                                             *)
(***************************************************************************)
DeadlineAt == instant + Timeout

PostStarts(c) ==
  /\ ~InFlight(c) /\ started < MaxPosts
  /\ started' = started + 1
  /\ \E kind \in {"json", "chat"} :
       Set(c, [at |-> "fetching", attempt |-> 0, deadline |-> DeadlineAt, empties |-> 0,
               ok |-> TRUE, kind |-> kind, format |-> kind = "chat" /\ jsonMode, begun |-> instant, wakes |-> 0])
  /\ UNCHANGED <<jsonMode, instant>>

\* A request of the client: no attempt follows its first.
ClientRequests(c) ==
  /\ ~InFlight(c) /\ started < MaxPosts
  /\ started' = started + 1
  /\ Set(c, [at |-> "fetching", attempt |-> MaxRetries, deadline |-> DeadlineAt, empties |-> 0,
             ok |-> TRUE, kind |-> "client", format |-> FALSE, begun |-> instant, wakes |-> 0])
  /\ UNCHANGED <<jsonMode, instant>>

\* The loop's next round, or its end.
Attempt(c) ==
  IF Remaining(c) <= 0 THEN Fail(c, "deadline")
  ELSE Set(c, [posts[c] EXCEPT !.at = "fetching", !.attempt = @ + 1, !.wakes = 0])

\* mutant: the sleep is not held against the deadline
SleepsAnyway(c) ==
  \E delay \in Delays : Set(c, [posts[c] EXCEPT !.at = "sleeping", !.wakes = instant + delay])
SleepWithinDeadline(c) ==
  \E delay \in Delays :
    IF delay >= Remaining(c) THEN Fail(c, "deadline")
    ELSE Set(c, [posts[c] EXCEPT !.at = "sleeping", !.wakes = instant + delay])

FetchFails(c) ==
  /\ posts[c].at = "fetching"
  /\ IF LastAttempt(c) THEN Fail(c, "network") ELSE SleepWithinDeadline(c)
  /\ UNCHANGED <<jsonMode, started, instant>>

HeadersArrive(c) ==
  /\ posts[c].at = "fetching"
  /\ \E ok \in BOOLEAN : Set(c, [posts[c] EXCEPT !.at = "reading", !.ok = ok])
  /\ UNCHANGED <<jsonMode, started, instant>>

\* The body ends early, is too long, or is not JSON: no second attempt.  The client reports
\* a refusal by its status all the same.
UnreadBody(c) == IF posts[c].kind = "client" /\ ~posts[c].ok THEN "status" ELSE "body"

BodyFails(c) ==
  /\ posts[c].at = "reading"
  /\ Fail(c, UnreadBody(c))
  /\ UNCHANGED <<jsonMode, started, instant>>

Answered(c) ==
  /\ posts[c].at = "reading" /\ posts[c].ok
  /\ Set(c, [at |-> "answered"])
  /\ UNCHANGED <<jsonMode, started, instant>>

\* A completion without text is asked for again, under a deadline of its own.
AnsweredEmpty(c) ==
  /\ posts[c].at = "reading" /\ posts[c].ok /\ posts[c].kind = "chat"
  /\ IF posts[c].empties = MaxEmpty THEN Fail(c, "empty")
     ELSE Set(c, [posts[c] EXCEPT !.at = "fetching", !.attempt = 0, !.empties = @ + 1,
                                  !.deadline = DeadlineAt, !.format = jsonMode])
  /\ UNCHANGED <<jsonMode, started, instant>>

\* The downgrade costs an attempt and waits for nothing.
RefusesJsonMode(c) ==
  /\ posts[c].at = "reading" /\ ~posts[c].ok /\ posts[c].format
  /\ jsonMode' = FALSE
  /\ IF LastAttempt(c) THEN Fail(c, "exhausted")
     ELSE IF Remaining(c) <= 0 THEN Fail(c, "deadline")
     ELSE Set(c, [posts[c] EXCEPT !.at = "fetching", !.attempt = @ + 1, !.format = FALSE])
  /\ UNCHANGED <<started, instant>>

\* A status other than 2xx.
Rejected(c) ==
  /\ posts[c].at = "reading" /\ ~posts[c].ok
  /\ \E retryable \in BOOLEAN :
       IF ~retryable \/ LastAttempt(c) THEN Fail(c, "status")
       ELSE SleepWithinDeadline(c)
  /\ UNCHANGED <<jsonMode, started, instant>>

SleepEnds(c) ==
  /\ posts[c].at = "sleeping" /\ instant >= posts[c].wakes
  /\ Attempt(c)
  /\ UNCHANGED <<jsonMode, started, instant>>

\* The timer that races the fetch and the reading of the body.
DeadlineFires(c) ==
  /\ posts[c].at \in {"fetching", "reading"} /\ Remaining(c) <= 0
  /\ Fail(c, "deadline")
  /\ UNCHANGED <<jsonMode, started, instant>>

Due(c) == IF posts[c].at = "sleeping" THEN posts[c].wakes ELSE posts[c].deadline

InstantPasses ==
  /\ instant < MaxInstant
  /\ \A c \in Post : InFlight(c) => Due(c) > instant
  /\ instant' = instant + 1
  /\ UNCHANGED <<posts, jsonMode, started>>

HttpInit ==
  /\ posts = [c \in Post |-> Unused]
  /\ jsonMode = TRUE
  /\ started = 0
  /\ instant = 0

HttpNext ==
  \/ InstantPasses
  \/ \E c \in Post :
       \/ PostStarts(c) \/ ClientRequests(c) \/ FetchFails(c) \/ HeadersArrive(c)
       \/ BodyFails(c) \/ Answered(c) \/ AnsweredEmpty(c) \/ RefusesJsonMode(c)
       \/ Rejected(c) \/ SleepEnds(c) \/ DeadlineFires(c)

HttpSpec == HttpInit /\ [][HttpNext]_httpVars

(***************************************************************************)
(* Properties.                                                             *)
(***************************************************************************)

\* A call is over by its deadline, whatever it was doing: retries, back-offs, Retry-After and
\* a body that trickles share it, and no back-off is begun that the deadline cuts short.  A
\* completion that keeps coming back empty is over after as many deadlines as it may ask.
CallsEndInTime ==
  \A c \in Post : InFlight(c) =>
    /\ instant <= posts[c].deadline
    /\ Due(c) <= posts[c].deadline
    /\ posts[c].attempt <= MaxRetries
    /\ posts[c].deadline <= posts[c].begun + (MaxEmpty + 1) * Timeout

\* The same, and a caller of the client is told the status of a refusal whose body nobody
\* could read: adapters fall back on an older route by it.
CallsEndWell ==
  /\ CallsEndInTime
  /\ \A c \in Post : posts[c].at = "failed" => ~posts[c].hides
=============================================================================
