------------------------------ MODULE MCServer ------------------------------
(***************************************************************************)
(* Small instances of what a request meets on its way to the store, of the *)
(* indexes and caches in process, of the tools of agents, and of the       *)
(* campaign that disturbs a running service.  The modules share no state,  *)
(* so each behaviour exercises one of them, named by part.                 *)
(***************************************************************************)
EXTENDS RateLimiter, HttpAccess, Context, Extraction, Reranking, DeadlineHttp, DualLayer,
        Retrieval, AgentTools, Campaign, PostgresSearch, EnhancedProvider, TLC

CONSTANTS t1, t2, app1, app2, ann, bob, team, padded, blank, talk

VARIABLE part

componentVars == <<vars, breakerVars, httpVars, dualVars, retrieverVars, toolVars>>
otherVars == <<campaignVars, searchVars, enhancedVars, embedVars>>
ruleVars == <<accessed, granted, prompted, extracting>>
serverVars == <<componentVars, otherVars, ruleVars, part>>

(***************************************************************************)
(* MemoryAccess: two tenants, two apps, two actors, a shared space, the    *)
(* same one padded, a space named as an actor, a blank name, a thread.     *)
(***************************************************************************)
MCTrim == [n \in Name |-> CASE n = padded -> team [] n = blank -> None [] OTHER -> n]

SampleRecords ==
  {NormalizeRecordSpace(r) : r \in {x \in
     [tenantId : {t1, t2}, spaceId : {None, team, padded, ann}, appId : {app1, app2},
      actorId : {ann, bob}, threadId : {None, talk}, scope : Scope] : Storable(x)}}

SampleFilters ==
  [tenantId : {t1}, spaceId : {None, team, padded, ann, blank}, appId : {app1},
   actorId : {None, blank, ann}, threadId : {None, talk}, accessThreadId : {None, talk}]

SampleIdScopes ==
  [tenantId : {t1}, spaceId : {None, team, padded, ann, blank}, appId : {None, app1},
   actorId : {None, blank, ann}, accessThreadId : {None, talk}]

(***************************************************************************)
(* HttpAccess: keys of every kind over the same names.                     *)
(***************************************************************************)
Principal(key, actor, space) ==
  [key |-> key, tenantId |-> t1, spaceId |-> space, appId |-> app1, actorId |-> actor]

SampleCredentials ==
  [global : SUBSET Key, tenant : {[n \in Name |-> IF n = t1 THEN K ELSE {}] : K \in SUBSET Key},
   principal : SUBSET {Principal("key1", ann, team), Principal("key1", ann, padded),
                       Principal("key2", bob, None), Principal("key1", ann, None)}]

\* One observation or two of a tenant, the second outside of any thread.
SampleObservations ==
  {o \in [tenantId : {t1, t2}, spaceId : {None, team, padded, ann}, appId : {app1, app2},
          actorId : {ann, bob}, threadId : {None, talk}, scope : Scope] : Storable(o)}
SampleBatches ==
  {{o, p} : o \in SampleObservations,
            p \in {x \in SampleObservations : x.tenantId = t1 /\ x.threadId = None}}

(***************************************************************************)
(* Context: up to three hits for two places, four memories of an actor.    *)
(***************************************************************************)
MCSections == <<"preference", "fact">>

SampleRequests ==
  [hits : {<<>>, <<1>>, <<1, 2>>, <<1, 2, 3>>},
   own : {<<>>, <<4, 2, 1>>, <<3, 4, 1, 2>>},
   length : {[m \in 1 .. 4 |-> IF m \in long THEN 3 ELSE 1] : long \in SUBSET {1, 2, 3}},
   kind : {[m \in 1 .. 4 |-> IF m \in facts THEN "fact" ELSE "preference"] : facts \in {{}, {2, 4}}},
   unverified : {{}, {1}, {2, 3}},
   answers : {{}, {2}, {2, 3}},
   items : {0, 3},
   chars : {0, 10, 16}]

(***************************************************************************)
(* Extraction: three turns of one speaker or two, in batches of two; facts *)
(* that cite turns shown, shown as context, or unseen, and reuse words of  *)
(* a turn, a name or a date, or invent them.                               *)
(***************************************************************************)
MCOwnWords == [n \in 1 .. 3 |-> {2 * n, 2 * n + 1}]
MCLabelWords == [n \in 1 .. 3 |-> IF n = 3 THEN {12} ELSE {}]
MCNames == [A |-> {10}, B |-> {11}]

Fact(cites, words) == [cites |-> cites, words |-> words]
Facts == {Fact(c, w) : c \in {{}, {0}, {2}, {0, 1}, {1, 2}}, w \in {{2, 3}, {2, 4, 9}, {5, 6}, {9, 10}, {6, 8, 9, 12}}}
Reply(status, facts) == [status |-> status, facts |-> facts]
Replies ==
  {Reply("failed", <<>>), Reply("unusable", <<>>), Reply("ok", <<>>),
   Reply("ok", <<Fact({0}, {8, 9}), Fact({1}, {2, 3})>>)} \cup {Reply("ok", <<f>>) : f \in Facts}

SampleExtractions ==
  {[key |-> key, kind |-> kind, names |-> MCNames, raw |-> raw, passes |-> passes,
    replies |-> replies] :
     key \in {<<"A", "A", "A">>, <<"A", "A", "B">>, <<"A", "B", "A">>, <<"A", "B", "B">>},
     kind \in {"llm"}, raw \in BOOLEAN, passes \in {TRUE},
     replies \in {[at \in {"A", "B"} \X {0, 2} |->
                     IF at = <<"A", 0>> THEN first ELSE second] : first \in Replies, second \in Replies}}
  \cup
  [key : {<<"A", "B", "A">>}, kind : {"llm", "none", "throws"}, names : {MCNames},
   raw : BOOLEAN, passes : BOOLEAN,
   replies : {[at \in {"A", "B"} \X {0, 2} |-> reply] : reply \in Replies}]

(***************************************************************************)
(* Reranking: a provider that finds nothing, one hit or three.             *)
(***************************************************************************)
MCScore == [x1 |-> 2, x2 |-> 1, x3 |-> 0]
MCRankings == {<<>>, <<"x2">>, <<"x1", "x2", "x3">>}

Row(id, score) == [id |-> id, score |-> score]
MCRows ==
  {<<>>, <<Row("other", 1)>>, <<Row("x1", 0)>>, <<Row("x2", 1), Row("x1", 1), Row("x3", 1)>>,
   <<Row("x1", 1), Row("x1", 0), Row("x2", 1)>>, <<Row("x2", NaN), Row("x3", 1)>>,
   <<Row("x3", 1), Row("x3", 1), Row("x2", 0)>>}

(***************************************************************************)
(* DualLayer: memories of two near sentences each, one of an actor in the  *)
(* space that is searched, one of another space that the tenant sees.      *)
(***************************************************************************)
MCOwner == [m1 |-> "ann", m2 |-> "team"]
MCSpaceOf == [ann |-> "s1", team |-> "s2"]
MCFactsOf == [m1 |-> <<"cats", "felines">>, m2 |-> <<"cats">>]
MCNear == {{"cats", "felines"}, {"cats"}, {"felines"}, {"summary"}}

(***************************************************************************)
(* HybridRetriever: two documents, texts that share a term, an empty one.  *)
(***************************************************************************)
MCTexts == {[a |-> 2, b |-> 0], [a |-> 1, b |-> 1], [a |-> 0, b |-> 0]}

(***************************************************************************)
(* Embedding: calls that share texts, repeat one, and exceed the cache.    *)
(***************************************************************************)
MCTextLists == {<<"cats">>, <<"cats", "dogs">>, <<"tea", "cats", "tea">>, <<"dogs", "rye", "tea">>}

(***************************************************************************)
(* Campaign: the database is restarted before the frameworks are probed.   *)
(***************************************************************************)
MCServices == <<"memory-core", "db">>
MCSchedule == <<"db", "probe">>

(***************************************************************************)
(* PostgresSearch: what each ranker finds of three rows, and their priors. *)
(***************************************************************************)
MCFound == {ranking \in SeqOf(1 .. 3, 3) : IsInjective(ranking)}
SampleQueries ==
  [lex : MCFound, vec : MCFound,
   priors : {[row \in 1 .. 3 |-> IF row \in good THEN 30 ELSE 0] : good \in {{}, {1}, {2, 3}}},
   minScore : {20, 55}, limit : {1, 2}, cap : {2}]

(***************************************************************************)
(* The next-state relation.                                                *)
(***************************************************************************)
Part ==
  {"limiter", "breaker", "http", "dual", "retriever", "tools", "campaign", "postgres", "enhanced",
   "embedding", "access", "grants", "context", "extraction"}

ServerInit ==
  /\ part \in Part
  /\ Init /\ BreakerInit /\ HttpInit /\ DualInit /\ ToolsInit /\ CampaignInit /\ EnhancedInit
  /\ RetrieverInit /\ SearchInit /\ EmbeddingInit
  /\ AccessInit /\ GrantsInit /\ ContextInit /\ ExtractionInit
  \* One initial state for each module that a behaviour does not exercise.
  /\ part # "tools" => service.corrects = "calls" /\ service.extracts
  /\ part # "postgres" => provisioned
  /\ part # "embedding" => embedderKind = "local"

ComponentNext ==
  \/ part = "limiter"
     /\ UNCHANGED <<breakerVars, httpVars, dualVars, retrieverVars, toolVars>> /\ Next
  \/ part = "breaker"
     /\ UNCHANGED <<vars, httpVars, dualVars, retrieverVars, toolVars>> /\ BreakerNext
  \/ part = "http"
     /\ UNCHANGED <<vars, breakerVars, dualVars, retrieverVars, toolVars>> /\ HttpNext
  \/ part = "dual"
     /\ UNCHANGED <<vars, breakerVars, httpVars, retrieverVars, toolVars>> /\ DualNext
  \/ part = "retriever"
     /\ UNCHANGED <<vars, breakerVars, httpVars, dualVars, toolVars>> /\ RetrieverNext
  \/ part = "tools"
     /\ UNCHANGED <<vars, breakerVars, httpVars, dualVars, retrieverVars>> /\ ToolsNext

OtherNext ==
  \/ part = "campaign" /\ UNCHANGED <<searchVars, enhancedVars, embedVars>> /\ CampaignNext
  \/ part = "postgres" /\ UNCHANGED <<campaignVars, enhancedVars, embedVars>> /\ SearchNext
  \/ part = "enhanced" /\ UNCHANGED <<campaignVars, searchVars, embedVars>> /\ EnhancedNext
  \/ part = "embedding"
     /\ UNCHANGED <<campaignVars, searchVars, enhancedVars>> /\ EmbeddingNext

RuleNext ==
  \/ part = "access" /\ UNCHANGED <<granted, prompted, extracting>> /\ AccessNext
  \/ part = "grants" /\ UNCHANGED <<accessed, prompted, extracting>> /\ GrantsNext
  \/ part = "context" /\ UNCHANGED <<accessed, granted, extracting>> /\ ContextNext
  \/ part = "extraction" /\ UNCHANGED <<accessed, granted, prompted>> /\ ExtractionNext

ServerNext ==
  /\ UNCHANGED part
  /\ \/ UNCHANGED <<otherVars, ruleVars>> /\ ComponentNext
     \/ UNCHANGED <<componentVars, ruleVars>> /\ OtherNext
     \/ UNCHANGED <<componentVars, otherVars>> /\ RuleNext

ServerSpec == ServerInit /\ [][ServerNext]_serverVars
=============================================================================
