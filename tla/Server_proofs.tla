---------------------------- MODULE Server_proofs ----------------------------
(***************************************************************************)
(* What a request meets on its way to a store or to a model: the access    *)
(* rules and the grants of keys, calls under a deadline, the rate limiter, *)
(* the breaker before the reranker and the tools of agents.  The modules   *)
(* share no state; each has its invariant.                                 *)
(***************************************************************************)
EXTENDS HttpAccess, DeadlineHttp, RateLimiter, Reranking, AgentTools,
        FiniteSetTheorems, NaturalsInduction, WellFoundedInduction, TLAPS

(***************************************************************************)
(* The access rules agree, for all names, records, filters and id scopes;  *)
(* and no request takes a key out of its grants, for all credentials,      *)
(* requests and records.                                                   *)
(***************************************************************************)

\* Trimming yields a name or nothing, and once is enough.
LEMMA TrimmedType ==
  ASSUME NEW n \in Optional
  PROVE  /\ Trimmed(n) \in Optional
         /\ Trimmed(Trimmed(n)) = Trimmed(n)
BY NamesAssumption DEF Trimmed, Optional

\* A stored record has a space, the one its rules resolve it to.
LEMMA StoredSpace ==
  ASSUME NEW r \in Stored
  PROVE  /\ r \in Record
         /\ r.spaceId \in Name
         /\ ResolveSpaceId(r) = r.spaceId
         /\ r.scope = "thread" => r.threadId # None
<1>1. r \in Record /\ Storable(r) /\ NormalizeRecordSpace(r) = r
  BY DEF Stored
<1> DEFINE space == ResolveSpaceId(r)
<1>2. r.spaceId \in Optional /\ r.actorId \in Optional /\ r.appId \in Optional
  BY <1>1 DEF Record, Optional
<1>3. space # None /\ space \in Name
  <2>1. space \in {Trimmed(r.spaceId), Trimmed(r.actorId), Trimmed(r.appId)}
    BY DEF ResolveSpaceId, Or
  <2>2. space # None
    BY <1>1 DEF Storable
  <2> QED
    BY <1>2, <2>1, <2>2, TrimmedType DEF Optional
<1>4. r.spaceId = space
  <2>1. "spaceId" \in DOMAIN r
    BY <1>1 DEF Record
  <2>2. [r EXCEPT !.spaceId = space].spaceId = space
    BY <2>1
  <2> QED
    BY <1>1, <2>2 DEF NormalizeRecordSpace
<1> QED
  BY <1>1, <1>3, <1>4 DEF Storable, ValidScope

(***************************************************************************)
(* In process and in SQL.                                                  *)
(***************************************************************************)

\* A filter that names a space shows the same memories in process and in SQL.
LEMMA FiltersAgree ==
  ASSUME NEW r \in Stored, NEW f \in Filters
  PROVE  MemoryVisibleTo(r, f) <=> SqlFilter(r, f)
<1>1. r \in Record /\ ResolveSpaceId(r) = r.spaceId /\ (r.scope = "thread" => r.threadId # None)
  BY StoredSpace
<1>2. r.scope \in Scope /\ r.actorId # None
  BY <1>1, NamesAssumption DEF Record
<1> QED
  BY <1>1, <1>2 DEF MemoryVisibleTo, SqlFilter, Scope

\* An id scope reaches the same memories in process and in SQL.
LEMMA IdScopesAgree ==
  ASSUME NEW r \in Stored, NEW s \in IdScope
  PROVE  MemoryVisibleToIdScope(r, s) <=> IdScopeSql(r, s)
<1>1. r \in Record /\ ResolveSpaceId(r) = r.spaceId /\ (r.scope = "thread" => r.threadId # None)
  BY StoredSpace
<1>2. r.scope \in Scope /\ r.actorId # None /\ r.appId # None
  BY <1>1, NamesAssumption DEF Record
<1> QED
  BY <1>1, <1>2 DEF MemoryVisibleToIdScope, IdScopeSql, Scope

\* Whichever provider is configured, a caller sees the same memories (access.ts against
\* the SQL of postgres-provider.ts).
THEOREM EveryProviderAgrees ==
  ASSUME NEW r \in Stored, NEW f \in Filters, NEW s \in IdScope
  PROVE  ProvidersAgree(r, f, s)
BY FiltersAgree, IdScopesAgree DEF ProvidersAgree

(***************************************************************************)
(* By filter and by id.                                                    *)
(***************************************************************************)

\* With an actor, a filter and the id scope made of it are in the same space.
LEMMA SameSpace ==
  ASSUME NEW f \in Filters, Trimmed(f.actorId) # None
  PROVE  /\ ScopeSpace(IdScopeOf(f)) = ResolveSpaceId(f)
         /\ ScopeSpace(IdScopeOf(f)) # None
BY DEF ScopeSpace, IdScopeOf, ResolveSpaceId, Or

\* What a search shows an actor, the same identity reaches by id, and the other way round
\* (memoryVisibleTo() against memoryVisibleToIdScope()).
THEOREM EveryHitIsReachable ==
  ASSUME NEW r \in Stored, NEW f \in Filters
  PROVE  FoundIsReachable(r, f)
<1> SUFFICES ASSUME Trimmed(f.actorId) # None
             PROVE  /\ MemoryVisibleTo(r, f) => MemoryVisibleToIdScope(r, IdScopeOf(f))
                    /\ f.threadId = None /\ MemoryVisibleToIdScope(r, IdScopeOf(f))
                         => MemoryVisibleTo(r, f)
  BY DEF FoundIsReachable
<1>1. r \in Record /\ (r.scope = "thread" => r.threadId # None)
  BY StoredSpace
<1>2. /\ ScopeSpace(IdScopeOf(f)) = ResolveSpaceId(f)
      /\ ScopeSpace(IdScopeOf(f)) # None
  BY SameSpace
<1>3. /\ IdScopeOf(f).tenantId = f.tenantId /\ IdScopeOf(f).appId = f.appId
      /\ IdScopeOf(f).actorId = f.actorId /\ IdScopeOf(f).accessThreadId = AccessThread(f)
  BY DEF IdScopeOf
<1> QED
  BY <1>1, <1>2, <1>3 DEF MemoryVisibleTo, MemoryVisibleToIdScope

(***************************************************************************)
(* Duplicates.                                                             *)
(***************************************************************************)

\* The visibility key and the unique index of a scope tell the same records apart, and an
\* owner's memories of a scope share a key (memoryVisibilityKey() against 003's indexes).
THEOREM KeysAreIndexes ==
  ASSUME NEW r \in Stored, NEW q \in Stored
  PROVE  DuplicatesConflict(r, q)
<1>1. /\ r \in Record /\ q \in Record
      /\ ResolveSpaceId(r) = r.spaceId /\ ResolveSpaceId(q) = q.spaceId
  BY StoredSpace
<1>2. r.scope \in Scope /\ q.scope \in Scope
  BY <1>1 DEF Record
<1>3. VisibilityKey(r) = VisibilityKey(q) <=>
        /\ r.tenantId = q.tenantId /\ r.scope = q.scope
        /\ r.scope # "tenant" => r.spaceId = q.spaceId
        /\ r.scope = "app" => r.appId = q.appId
        /\ r.scope \in {"actor", "thread"} => r.actorId = q.actorId
        /\ r.scope = "thread" => r.threadId = q.threadId
  BY <1>1, <1>2 DEF VisibilityKey, Scope
<1>4. ExactConflict(r, q) <=>
        /\ r.tenantId = q.tenantId /\ r.scope = q.scope
        /\ r.scope # "tenant" => r.spaceId = q.spaceId
        /\ r.scope = "app" => r.appId = q.appId
        /\ r.scope \in {"actor", "thread"} => r.actorId = q.actorId
        /\ r.scope = "thread" => r.threadId = q.threadId
  <2>1. CASE r.scope = "tenant"
    BY <1>1, <2>1 DEF ExactConflict, ConflictColumns, Record
  <2>2. CASE r.scope = "workspace"
    BY <1>1, <2>2 DEF ExactConflict, ConflictColumns, Record
  <2>3. CASE r.scope = "app"
    BY <1>1, <2>3 DEF ExactConflict, ConflictColumns, Record
  <2>4. CASE r.scope = "actor"
    BY <1>1, <2>4 DEF ExactConflict, ConflictColumns, Record
  <2>5. CASE r.scope = "thread"
    BY <1>1, <2>5 DEF ExactConflict, ConflictColumns, Record
  <2> QED
    BY <1>2, <2>1, <2>2, <2>3, <2>4, <2>5 DEF Scope
<1>5. SameMemoryOwner(r, q) => VisibilityKey(r) = VisibilityKey(q)
  <2> SUFFICES ASSUME SameMemoryOwner(r, q)
               PROVE  VisibilityKey(r) = VisibilityKey(q)
    OBVIOUS
  <2>1. /\ r.spaceId = q.spaceId /\ r.tenantId = q.tenantId /\ r.appId = q.appId
        /\ r.actorId = q.actorId /\ r.scope = q.scope /\ r.threadId = q.threadId
    BY <1>1 DEF SameMemoryOwner
  <2> QED
    BY <1>3, <2>1
<1> QED
  BY <1>3, <1>4, <1>5 DEF DuplicatesConflict

\* Who sees one of two memories with one key sees the other, so folding one into the other
\* hides nothing (findDuplicate() against memoryVisibleTo()).
THEOREM DuplicatesHaveOneAudience ==
  ASSUME NEW r \in Stored, NEW q \in Stored, NEW f \in Filters
  PROVE  DuplicatesShareReaders(r, q, f)
<1> SUFFICES ASSUME VisibilityKey(r) = VisibilityKey(q), f.threadId = None
             PROVE  MemoryVisibleTo(r, f) <=> MemoryVisibleTo(q, f)
  BY DEF DuplicatesShareReaders
<1>1. ExactConflict(r, q)
  BY KeysAreIndexes DEF DuplicatesConflict
<1>2. /\ r \in Record /\ q \in Record
      /\ ResolveSpaceId(r) = r.spaceId /\ ResolveSpaceId(q) = q.spaceId
  BY StoredSpace
<1>3. /\ r.tenantId = q.tenantId /\ r.scope = q.scope /\ r.scope \in Scope
      /\ r.scope # "tenant" => r.spaceId = q.spaceId
      /\ r.scope = "app" => r.appId = q.appId
      /\ r.scope \in {"actor", "thread"} => r.actorId = q.actorId
      /\ r.scope = "thread" => r.threadId = q.threadId
  <2>1. CASE r.scope = "tenant"
    BY <1>1, <1>2, <2>1 DEF ExactConflict, ConflictColumns, Record
  <2>2. CASE r.scope = "workspace"
    BY <1>1, <1>2, <2>2 DEF ExactConflict, ConflictColumns, Record
  <2>3. CASE r.scope = "app"
    BY <1>1, <1>2, <2>3 DEF ExactConflict, ConflictColumns, Record
  <2>4. CASE r.scope = "actor"
    BY <1>1, <1>2, <2>4 DEF ExactConflict, ConflictColumns, Record
  <2>5. CASE r.scope = "thread"
    BY <1>1, <1>2, <2>5 DEF ExactConflict, ConflictColumns, Record
  <2> QED
    BY <1>2, <2>1, <2>2, <2>3, <2>4, <2>5 DEF Scope, Record
<1> QED
  BY <1>2, <1>3 DEF MemoryVisibleTo

(***************************************************************************)
(* One policy.                                                             *)
(***************************************************************************)

AccessInv == accessed \subseteq Memories

\* A record is seen alike by every provider, by filter and by id; dedupe follows the unique
\* indexes, and merges nothing across readers (src/access.ts and the SQL that repeats it).
THEOREM PolicyIsOne == AccessSpec => []OneLocus
<1>1. AccessInit => AccessInv  BY DEF AccessInit, AccessInv
<1>2. AccessInv /\ [AccessNext]_accessed => AccessInv'
  BY DEF AccessInv, AccessNext, Access, Accessed
<1>3. AccessInv => OneLocus
  <2> SUFFICES ASSUME AccessInv PROVE OneLocus  OBVIOUS
  <2>1. /\ \A r \in Memories : r \in Stored
        /\ \A f \in FiltersAsked : f \in Filters
        /\ \A s \in IdScopesAsked : s \in IdScope
        /\ \A r \in accessed : r \in Memories
    BY QuestionsAssumption DEF AccessInv
  <2>2. SeenAlike
    BY <2>1, EveryHitIsReachable, EveryProviderAgrees DEF SeenAlike
  <2>3. MergedAlike
    BY <2>1, KeysAreIndexes, DuplicatesHaveOneAudience DEF MergedAlike
  <2> QED
    BY <2>2, <2>3 DEF OneLocus
<1> QED
  BY <1>1, <1>2, <1>3, PTL DEF AccessSpec

(***************************************************************************)
(* Grants: what a key may do over HTTP, and that credentials which boot    *)
(* accepts give each key one kind.                                         *)
(***************************************************************************)
Grant ==
  [global : BOOLEAN, tenantIds : SUBSET Name,
   principals : SUBSET [tenantId : Name, spaceId : Name, appId : Name, actorId : Name]]

\* A caller whose identity a principal has is in that principal's space.
LEMMA PrincipalsSpace ==
  ASSUME NEW g, NEW id, IsPrincipal(g, id)
  PROVE  /\ ResolveSpaceId(id) = ScopeSpace(id)
         /\ \E p \in g.principals :
              /\ p.spaceId = ResolveSpaceId(id) /\ p.tenantId = id.tenantId
              /\ p.appId = id.appId /\ p.actorId = id.actorId
BY DEF IsPrincipal, ResolveSpaceId, ScopeSpace, Or

(***************************************************************************)
(* Writing.                                                                *)
(***************************************************************************)

\* What a key stores is in a tenant it administers or in its principals' own corner
\* (the ingest route and authorizeObservations()).
THEOREM KeysStoreWithinGrants ==
  ASSUME NEW g \in Grant, NEW batch \in SUBSET Record
  PROVE  StoresWithin(g, batch)
<1> SUFFICES ASSUME Ingests(g, batch), NEW o \in batch, ~Within(g, o)
             PROVE  Changes(g, NormalizeRecordSpace(o))
  BY DEF StoresWithin
<1>1. ~AdminOf(g, batch)
  BY DEF AdminOf, Within
<1>2. o.scope # "tenant" /\ IsPrincipal(g, o)
  BY <1>1 DEF Ingests, AuthorizeObservations, AuthorizePrincipals
<1>3. PICK p \in g.principals :
        p.spaceId = ResolveSpaceId(o) /\ p.tenantId = o.tenantId /\ p.actorId = o.actorId
  BY <1>2, PrincipalsSpace
<1>4. /\ NormalizeRecordSpace(o).spaceId = ResolveSpaceId(o)
      /\ NormalizeRecordSpace(o).tenantId = o.tenantId
      /\ NormalizeRecordSpace(o).actorId = o.actorId
      /\ NormalizeRecordSpace(o).scope = o.scope
  BY DEF NormalizeRecordSpace, Record
<1> QED
  BY <1>2, <1>3, <1>4 DEF Changes, Sees

(***************************************************************************)
(* Reading, rating and retiring.                                           *)
(***************************************************************************)

\* A search finds nothing outside of the key's grants (the search and context routes over
\* memoryVisibleTo()).
THEOREM KeysFindWithinGrants ==
  ASSUME NEW g \in Grant, NEW f \in Filters, NEW r \in Stored
  PROVE  FindsWithin(g, f, r)
<1> SUFFICES ASSUME Searches(g, f), MemoryVisibleTo(r, f), ~Within(g, r)
             PROVE  Sees(g, r)
  BY DEF FindsWithin
<1>1. r \in Record /\ ResolveSpaceId(r) = r.spaceId /\ r.scope \in Scope
  BY StoredSpace DEF Record
<1>2. r.tenantId = f.tenantId
  BY DEF MemoryVisibleTo
<1>3. IsPrincipal(g, f)
  BY <1>2 DEF Searches, AuthorizePrincipals, AdminOf, Within
<1>4. PICK p \in g.principals :
        /\ p.spaceId = ResolveSpaceId(f) /\ p.tenantId = f.tenantId
        /\ p.appId = f.appId /\ p.actorId = f.actorId
  BY <1>3, PrincipalsSpace
<1> QED
  BY <1>1, <1>4 DEF MemoryVisibleTo, Sees, Scope

\* Nor does an id reach anything there, and only an administrator retires what a whole
\* tenant sees (the get, feedback, status and supersede routes).
THEOREM KeysReachWithinGrants ==
  ASSUME NEW g \in Grant, NEW s \in IdScope, NEW r \in Stored
  PROVE  ReachesWithin(g, s, r)
<1>1. r \in Record /\ ResolveSpaceId(r) = r.spaceId /\ r.scope \in Scope
  BY StoredSpace DEF Record
<1>2. ASSUME ReachesById(g, s, r), ~Within(g, r)
      PROVE  Sees(g, r)
  <2>1. MemoryVisibleToIdScope(r, s) /\ r.tenantId = s.tenantId
    BY <1>2 DEF ReachesById, MemoryVisibleToIdScope
  <2>2. IsPrincipal(g, s)
    BY <1>2, <2>1 DEF ReachesById, AuthorizePrincipals, AdminOf, Within
  <2>3. PICK p \in g.principals :
          /\ p.spaceId = ScopeSpace(s) /\ p.tenantId = s.tenantId
          /\ p.appId = s.appId /\ p.actorId = s.actorId
    BY <2>2, PrincipalsSpace
  <2> QED
    BY <1>1, <2>1, <2>3 DEF MemoryVisibleToIdScope, Sees, Scope
<1>3. ASSUME Retires(g, s, r), ~Within(g, r)
      PROVE  Changes(g, r)
  <2>1. ReachesById(g, s, r)
    BY <1>3 DEF Retires
  <2>2. r.tenantId = s.tenantId
    BY <2>1 DEF ReachesById, MemoryVisibleToIdScope
  <2>3. r.scope # "tenant"
    BY <1>3, <2>2 DEF Retires, AuthorizeObservations, AdminOf, Within
  <2> QED
    BY <1>2, <1>3, <2>1, <2>3 DEF Changes
<1> QED
  BY <1>2, <1>3 DEF ReachesWithin

(***************************************************************************)
(* Boot.                                                                   *)
(***************************************************************************)

\* Credentials that config.ts accepts build grants, each of one kind
\* (assertCredentialSeparation() against buildApiKeyGrants()).
THEOREM EachKeyHasOneKind ==
  ASSUME NEW c \in Credentials
  PROVE  CredentialsSeparate(c)
<1> SUFFICES ASSUME Accepted(c)
             PROVE  /\ GrantsBuilt(c)
                    /\ \A k \in Key : Cardinality(KindsOf(GrantFor(c, k))) = IF Known(c, k) THEN 1 ELSE 0
  BY DEF CredentialsSeparate
<1> DEFINE holds(k) == \E p \in c.principal : p.key = k
<1>1. \A k \in Key : k \in TenantAdmin(c) <=> GrantFor(c, k).tenantIds # {}
  BY DEF TenantAdmin, GrantFor
<1>2. \A k \in Key : holds(k) <=> GrantFor(c, k).principals # {}
  BY DEF GrantFor
<1>3. \A k \in Key : GrantFor(c, k).global <=> k \in c.global
  BY DEF GrantFor
<1>4. /\ c.global \cap TenantAdmin(c) = {}
      /\ \A p \in c.principal : p.key \notin c.global /\ p.key \notin TenantAdmin(c)
  BY DEF Accepted, CredentialSeparation
<1>5. GrantsBuilt(c)
  <2>1. \A t \in Name : \A k \in c.tenant[t] : k \notin c.global
    BY <1>4 DEF TenantAdmin
  <2>2. ASSUME NEW p \in c.principal
        PROVE  ~GrantFor(c, p.key).global /\ GrantFor(c, p.key).tenantIds = {}
    <3>1. p.key \in Key
      BY DEF Credentials, PrincipalKey
    <3> QED
      BY <1>1, <1>3, <1>4, <3>1
  <2> QED
    BY <2>1, <2>2 DEF GrantsBuilt, Accepted
<1>6. ASSUME NEW k \in Key
      PROVE  Cardinality(KindsOf(GrantFor(c, k))) = IF Known(c, k) THEN 1 ELSE 0
  <2> DEFINE kinds == KindsOf(GrantFor(c, k))
  <2>1. /\ "global" \in kinds <=> k \in c.global
        /\ "tenant" \in kinds <=> k \in TenantAdmin(c)
        /\ "principal" \in kinds <=> holds(k)
        /\ kinds \subseteq {"global", "tenant", "principal"}
    BY <1>1, <1>2, <1>3 DEF KindsOf, Compacts
  <2>2. Known(c, k) <=> k \in c.global \/ k \in TenantAdmin(c) \/ holds(k)
    BY DEF Known
  <2>3. /\ ~(k \in c.global /\ k \in TenantAdmin(c))
        /\ (holds(k) => k \notin c.global /\ k \notin TenantAdmin(c))
    BY <1>4
  <2>4. CASE k \in c.global
    <3>1. kinds = {"global"}
      BY <2>1, <2>3, <2>4
    <3> QED
      BY <2>2, <2>4, <3>1, FS_Singleton
  <2>5. CASE k \in TenantAdmin(c)
    <3>1. kinds = {"tenant"}
      BY <2>1, <2>3, <2>5
    <3> QED
      BY <2>2, <2>5, <3>1, FS_Singleton
  <2>6. CASE holds(k)
    <3>1. kinds = {"principal"}
      BY <2>1, <2>3, <2>6
    <3> QED
      BY <2>2, <2>6, <3>1, FS_Singleton
  <2>7. CASE ~(k \in c.global \/ k \in TenantAdmin(c) \/ holds(k))
    <3>1. kinds = {}
      BY <2>1, <2>7
    <3> QED
      BY <2>2, <2>7, <3>1, FS_EmptySet
  <2> QED
    BY <2>4, <2>5, <2>6, <2>7
<1> QED
  BY <1>5, <1>6

(***************************************************************************)
(* The grants of an application that was built.                            *)
(***************************************************************************)

\* What the grants of a credential list allow is a grant.
LEMMA GrantsAreGrants ==
  ASSUME NEW c \in Credentials, NEW k \in Key
  PROVE  GrantFor(c, k) \in Grant
<1>1. ASSUME NEW p \in c.principal
      PROVE  /\ Or(Trimmed(p.spaceId), p.actorId) \in Name
             /\ p.tenantId \in Name /\ p.appId \in Name /\ p.actorId \in Name
  <2>1. p \in PrincipalKey
    BY DEF Credentials
  <2>2. p.spaceId \in Optional /\ p.tenantId \in Name /\ p.appId \in Name /\ p.actorId \in Name
    BY <2>1 DEF PrincipalKey
  <2> QED
    BY <2>2, TrimmedType DEF Or, Optional
<1>2. GrantFor(c, k).principals
        \subseteq [tenantId : Name, spaceId : Name, appId : Name, actorId : Name]
  BY <1>1 DEF GrantFor
<1>3. GrantFor(c, k).tenantIds \subseteq Name /\ GrantFor(c, k).global \in BOOLEAN
  BY DEF GrantFor
<1> QED
  BY <1>2, <1>3 DEF GrantFor, Grant

GrantsInv == granted \subseteq Grants

\* No request takes a key out of its grants, and credentials that boot accepts leave each key
\* a grant of one kind (the routes of src/http.ts over src/access.ts).
THEOREM GrantsAreConfining == GrantsSpec => []GrantsConfine
<1>1. GrantsInit => GrantsInv  BY DEF GrantsInit, GrantsInv
<1>2. GrantsInv /\ [GrantsNext]_granted => GrantsInv'
  BY DEF GrantsInv, GrantsNext, Authenticate, Respond
<1>3. GrantsInv => GrantsConfine
  <2> SUFFICES ASSUME GrantsInv PROVE GrantsConfine  OBVIOUS
  <2>1. /\ \A r \in Memories : r \in Stored
        /\ \A f \in FiltersAsked : f \in Filters
        /\ \A s \in IdScopesAsked : s \in IdScope
    BY QuestionsAssumption
  <2>2. /\ \A c \in Configured : c \in Credentials
        /\ \A batch \in Batched : batch \in SUBSET Record
    BY CredentialsAssumption
  <2>3. \A g \in granted : g \in Grant
    <3>1. \A g \in Grants : g \in Grant  BY <2>2, GrantsAreGrants DEF Grants
    <3> QED BY <3>1 DEF GrantsInv
  <2>4. WritesConfined
    BY <2>2, <2>3, KeysStoreWithinGrants DEF WritesConfined
  <2>5. ReadsConfined
    BY <2>1, <2>3, KeysFindWithinGrants, KeysReachWithinGrants DEF ReadsConfined
  <2>6. KeysSeparate
    BY <2>2, EachKeyHasOneKind DEF KeysSeparate
  <2> QED
    BY <2>4, <2>5, <2>6 DEF GrantsConfine
<1> QED
  BY <1>1, <1>2, <1>3, PTL DEF GrantsSpec

(***************************************************************************)
(* The least of a set of numbers.                                          *)
(***************************************************************************)

\* A non-empty set of numbers has a least one.
LEMMA LeastExists ==
  ASSUME NEW S \in SUBSET Nat, S # {}
  PROVE  \E x \in S : \A y \in S : x <= y
<1> DEFINE Less == OpToRel(<, Nat)
<1>1. \A x, y \in Nat : y < x => <<y, x>> \in Less
  BY Zenon DEF OpToRel
<1>2. IsWellFoundedOn(Less, Nat)
  BY NatLessThanWellFounded
<1> HIDE DEF Less
<1>3. PICK x \in S : \A y \in S : <<y, x>> \notin Less
  BY <1>2, WFMin
<1>4. \A y \in S : x <= y
  <2> TAKE y \in S
  <2>1. x \in Nat /\ y \in Nat
    OBVIOUS
  <2>2. ~(y < x)
    BY <1>1, <1>3, <2>1
  <2> QED BY <2>1, <2>2
<1> QED BY <1>4

\* It is the one Min chooses.
LEMMA LeastIsOne == ASSUME NEW S \in SUBSET Nat, S # {} PROVE Min(S) \in S
BY LeastExists DEF Min

(***************************************************************************)
(* Calls under a deadline.  A call in flight has not passed its deadline,  *)
(* sleeps to a moment before it, with an attempt left, and has asked again *)
(* no more often than the deadlines it was given.                          *)
(***************************************************************************)
Flight ==
  [at: {"fetching", "reading", "sleeping"}, attempt: 0 .. MaxRetries, deadline: Nat,
   empties: 0 .. MaxEmpty, ok: BOOLEAN, kind: {"json", "chat", "client"}, format: BOOLEAN,
   begun: Nat, wakes: Nat]

Over == {Unused, [at |-> "answered"], [at |-> "failed", hides |-> FALSE]}

InTime(p, t) ==
  /\ t <= p.deadline
  /\ p.at = "sleeping" => p.wakes < p.deadline /\ p.attempt < MaxRetries
  /\ p.deadline <= p.begun + (p.empties + 1) * Timeout

HttpInv ==
  /\ posts \in [Post -> Over \cup Flight]
  /\ jsonMode \in BOOLEAN /\ started \in Nat /\ instant \in Nat
  /\ \A c \in Post : posts[c] \in Flight => InTime(posts[c], instant)

\* Calls that are over are not in flight.
LEMMA Flying ==
  ASSUME HttpInv, NEW c \in Post
  PROVE  /\ InFlight(c) <=> posts[c] \in Flight
         /\ posts[c].at \in {"fetching", "reading", "sleeping"} => InFlight(c)
<1>1. \A p \in Over : p.at \in Ended
  BY DEF Over, Unused, Ended
<1>2. \A p \in Flight : p.at \notin Ended
  BY DEF Flight, Ended
<1>3. posts[c] \in Over \/ posts[c] \in Flight
  BY DEF HttpInv
<1> QED BY <1>1, <1>2, <1>3 DEF InFlight, Ended

\* What remains to be shown of a step that takes call c to p.
LEMMA PostMoves ==
  ASSUME HttpInv, NEW c \in Post, NEW p \in Over \cup Flight, Set(c, p),
         p \in Flight => InTime(p, instant),
         jsonMode' \in BOOLEAN, started' \in Nat, instant' = instant
  PROVE  HttpInv'
BY DEF HttpInv, Set

\* A call fails, and hides nothing: a client reports a refusal by its status.
LEMMA FailsInv ==
  ASSUME HttpInv, NEW c \in Post, InFlight(c), NEW why, Fail(c, why),
         why = "body" => ~(posts[c].kind = "client" /\ ~posts[c].ok),
         jsonMode' \in BOOLEAN, started' \in Nat, instant' = instant
  PROVE  HttpInv'
<1> DEFINE p == [at |-> "failed", hides |-> posts[c].kind = "client" /\ ~posts[c].ok /\ why = "body"]
<1>1. posts[c].ok \in BOOLEAN
  BY Flying DEF Flight
<1>2. (posts[c].kind = "client" /\ ~posts[c].ok /\ why = "body") = FALSE
  BY <1>1
<1>3. p = [at |-> "failed", hides |-> FALSE]
  BY <1>2
<1>4. p \in Over
  BY <1>3 DEF Over
<1>5. p \notin Flight
  BY <1>3 DEF Flight
<1>6. Set(c, p)
  BY DEF Fail
<1> HIDE DEF p
<1> QED BY <1>4, <1>5, <1>6, PostMoves

\* A product grows with its factor.
LEMMA ProductGrows ==
  ASSUME NEW a \in Nat, NEW b \in Nat, NEW t \in Nat, a <= b
  PROVE  a * t <= b * t
OBVIOUS

Asleep(q, t) == [q EXCEPT !.at = "sleeping", !.wakes = t]
Anew(q, d, f) == [q EXCEPT !.at = "fetching", !.attempt = 0, !.empties = @ + 1, !.deadline = d,
                           !.format = f]

\* A call that sleeps until t.
LEMMA Sleeping ==
  ASSUME NEW q \in Flight, NEW t \in Nat
  PROVE  LET p == Asleep(q, t) IN
         /\ p \in Flight /\ p.at = "sleeping" /\ p.wakes = t /\ p.deadline = q.deadline
         /\ p.attempt = q.attempt /\ p.begun = q.begun /\ p.empties = q.empties
<1> DEFINE p == Asleep(q, t)
<1>0. p = [q EXCEPT !.at = "sleeping", !.wakes = t]
  BY DEF Asleep
<1> HIDE DEF p
<1>1. p = [at |-> "sleeping", attempt |-> q.attempt, deadline |-> q.deadline, empties |-> q.empties,
           ok |-> q.ok, kind |-> q.kind, format |-> q.format, begun |-> q.begun, wakes |-> t]
  BY <1>0 DEF Flight
<1>2. /\ q.attempt \in 0 .. MaxRetries /\ q.deadline \in Nat /\ q.empties \in 0 .. MaxEmpty
      /\ q.ok \in BOOLEAN /\ q.kind \in {"json", "chat", "client"} /\ q.format \in BOOLEAN
      /\ q.begun \in Nat
  BY DEF Flight
<1>3. p \in Flight
  BY <1>1, <1>2 DEF Flight
<1> QED BY <1>1, <1>3 DEF p

\* A call that begins anew after an empty answer.
LEMMA Beginning ==
  ASSUME NEW q \in Flight, NEW d \in Nat, NEW f \in BOOLEAN, q.empties # MaxEmpty
  PROVE  LET p == Anew(q, d, f) IN
         /\ p \in Flight /\ p.at = "fetching" /\ p.deadline = d /\ p.begun = q.begun
         /\ p.empties = q.empties + 1
<1> DEFINE p == Anew(q, d, f)
<1>0. p = [q EXCEPT !.at = "fetching", !.attempt = 0, !.empties = @ + 1, !.deadline = d,
                    !.format = f]
  BY DEF Anew
<1> HIDE DEF p
<1>1. p = [at |-> "fetching", attempt |-> 0, deadline |-> d, empties |-> q.empties + 1, ok |-> q.ok,
           kind |-> q.kind, format |-> f, begun |-> q.begun, wakes |-> q.wakes]
  BY <1>0 DEF Flight
<1>2. /\ q.empties \in 0 .. MaxEmpty /\ q.ok \in BOOLEAN /\ q.kind \in {"json", "chat", "client"}
      /\ q.begun \in Nat /\ q.wakes \in Nat
  BY DEF Flight
<1>3. q.empties + 1 \in 0 .. MaxEmpty /\ 0 \in 0 .. MaxRetries
  BY <1>2, HttpConstants
<1>4. p \in Flight
  BY <1>1, <1>2, <1>3 DEF Flight
<1> QED BY <1>1, <1>4 DEF p

\* A back-off that the deadline would cut short is not begun.
LEMMA SleepsInv ==
  ASSUME HttpInv, NEW c \in Post, InFlight(c), SleepWithinDeadline(c), ~LastAttempt(c),
         jsonMode' \in BOOLEAN, started' \in Nat, instant' = instant
  PROVE  HttpInv'
<1>1. PICK delay \in Delays :
        IF delay >= Remaining(c) THEN Fail(c, "deadline")
        ELSE Set(c, [posts[c] EXCEPT !.at = "sleeping", !.wakes = instant + delay])
  BY DEF SleepWithinDeadline
<1>2. CASE delay >= Remaining(c)
  BY <1>1, <1>2, FailsInv
<1>3. CASE ~(delay >= Remaining(c))
  <2> DEFINE p == [posts[c] EXCEPT !.at = "sleeping", !.wakes = instant + delay]
  <2>1. posts[c] \in Flight /\ InTime(posts[c], instant) /\ instant \in Nat /\ delay \in Nat
    BY Flying, HttpConstants DEF HttpInv
  <2>2. instant + delay \in Nat
    BY <2>1
  <2>3. p \in Flight /\ p.at = "sleeping" /\ p.wakes = instant + delay
        /\ p.deadline = posts[c].deadline /\ p.attempt = posts[c].attempt
        /\ p.begun = posts[c].begun /\ p.empties = posts[c].empties
    <3>1. p = Asleep(posts[c], instant + delay)
      BY DEF Asleep
    <3> HIDE DEF p
    <3> QED BY <2>1, <2>2, <3>1, Sleeping
  <2>4. posts[c].attempt < MaxRetries
    BY <2>1, HttpConstants DEF LastAttempt, Flight
  <2>5. instant + delay < posts[c].deadline
    BY <1>3, <2>1 DEF Remaining, Flight
  <2> HIDE DEF p
  <2>6. InTime(p, instant)
    BY <2>1, <2>3, <2>4, <2>5 DEF InTime
  <2> QED BY <1>1, <1>3, <2>3, <2>6, PostMoves DEF p
<1> QED BY <1>2, <1>3

\* Every step keeps the calls in time.
LEMMA HttpStep == HttpInv /\ [HttpNext]_httpVars => HttpInv'
<1> SUFFICES ASSUME HttpInv, [HttpNext]_httpVars PROVE HttpInv'
  OBVIOUS
<1> USE HttpConstants
<1>0. /\ jsonMode \in BOOLEAN /\ started \in Nat /\ instant \in Nat
      /\ \A c \in Post : InFlight(c) => posts[c] \in Flight /\ InTime(posts[c], instant)
  BY Flying DEF HttpInv
<1>1. CASE InstantPasses
  <2>1. instant' = instant + 1 /\ UNCHANGED <<posts, jsonMode, started>>
    BY <1>1 DEF InstantPasses
  <2>2. ASSUME NEW c \in Post, posts[c] \in Flight PROVE InTime(posts[c], instant + 1)
    <3>1. InFlight(c) /\ InTime(posts[c], instant)
      BY <2>2, Flying DEF HttpInv
    <3>2. Due(c) > instant
      BY <1>1, <3>1 DEF InstantPasses
    <3>3. posts[c].deadline \in Nat /\ posts[c].wakes \in Nat
      BY <2>2 DEF Flight
    <3> QED BY <1>0, <3>1, <3>2, <3>3 DEF InTime, Due
  <2> QED BY <1>0, <2>1, <2>2 DEF HttpInv
<1>2. ASSUME NEW c \in Post, PostStarts(c) \/ ClientRequests(c) PROVE HttpInv'
  <2>1. PICK kind \in {"json", "chat", "client"}, attempt \in {0, MaxRetries}, format \in BOOLEAN :
          Set(c, [at |-> "fetching", attempt |-> attempt, deadline |-> DeadlineAt, empties |-> 0,
                  ok |-> TRUE, kind |-> kind, format |-> format, begun |-> instant, wakes |-> 0])
    <3>1. CASE ClientRequests(c)
      BY <3>1 DEF ClientRequests
    <3>2. CASE PostStarts(c)
      <4>1. PICK kind \in {"json", "chat"} :
              Set(c, [at |-> "fetching", attempt |-> 0, deadline |-> DeadlineAt, empties |-> 0, ok |-> TRUE,
                      kind |-> kind, format |-> kind = "chat" /\ jsonMode, begun |-> instant, wakes |-> 0])
        BY <3>2 DEF PostStarts
      <4> DEFINE format == kind = "chat" /\ jsonMode
      <4>2. format \in BOOLEAN /\ kind \in {"json", "chat", "client"} /\ 0 \in {0, MaxRetries}
        OBVIOUS
      <4>3. Set(c, [at |-> "fetching", attempt |-> 0, deadline |-> DeadlineAt, empties |-> 0, ok |-> TRUE,
                    kind |-> kind, format |-> format, begun |-> instant, wakes |-> 0])
        BY <4>1
      <4> HIDE DEF format
      <4> QED BY <4>2, <4>3
    <3> QED BY <1>2, <3>1, <3>2
  <2> DEFINE p == [at |-> "fetching", attempt |-> attempt, deadline |-> DeadlineAt, empties |-> 0,
                   ok |-> TRUE, kind |-> kind, format |-> format, begun |-> instant, wakes |-> 0]
  <2>2. p \in Flight
    BY <1>0 DEF Flight, DeadlineAt
  <2>3. InTime(p, instant)
    BY <1>0 DEF InTime, DeadlineAt
  <2>4. Set(c, p) /\ jsonMode' \in BOOLEAN /\ started' \in Nat /\ instant' = instant
    BY <1>0, <1>2, <2>1 DEF PostStarts, ClientRequests
  <2> HIDE DEF p
  <2> QED BY <2>2, <2>3, <2>4, PostMoves
<1>3. ASSUME NEW c \in Post, FetchFails(c) \/ Rejected(c) PROVE HttpInv'
  <2>1. InFlight(c) /\ jsonMode' \in BOOLEAN /\ started' \in Nat /\ instant' = instant
    BY <1>0, <1>3, Flying DEF FetchFails, Rejected
  <2>2. \/ Fail(c, "network") \/ Fail(c, "status")
        \/ ~LastAttempt(c) /\ SleepWithinDeadline(c)
    BY <1>3 DEF FetchFails, Rejected
  <2> QED BY <2>1, <2>2, FailsInv, SleepsInv
<1>4. ASSUME NEW c \in Post, HeadersArrive(c) PROVE HttpInv'
  <2>1. PICK ok \in BOOLEAN : Set(c, [posts[c] EXCEPT !.at = "reading", !.ok = ok])
    BY <1>4 DEF HeadersArrive
  <2> DEFINE p == [posts[c] EXCEPT !.at = "reading", !.ok = ok]
  <2>2. posts[c] \in Flight /\ InTime(posts[c], instant)
    BY <1>0, <1>4, Flying DEF HeadersArrive
  <2>3. /\ p \in Flight /\ p.at = "reading" /\ p.deadline = posts[c].deadline
        /\ p.begun = posts[c].begun /\ p.empties = posts[c].empties
    BY <2>2 DEF Flight
  <2>4. Set(c, p) /\ jsonMode' \in BOOLEAN /\ started' \in Nat /\ instant' = instant
    BY <1>0, <1>4, <2>1 DEF HeadersArrive
  <2> HIDE DEF p
  <2>5. InTime(p, instant)
    BY <2>2, <2>3 DEF InTime
  <2> QED BY <2>3, <2>4, <2>5, PostMoves
<1>5. ASSUME NEW c \in Post, BodyFails(c) PROVE HttpInv'
  <2>1. InFlight(c) /\ jsonMode' \in BOOLEAN /\ started' \in Nat /\ instant' = instant
    BY <1>0, <1>5, Flying DEF BodyFails
  <2>2. UnreadBody(c) = "body" => ~(posts[c].kind = "client" /\ ~posts[c].ok)
    BY DEF UnreadBody
  <2> QED BY <1>5, <2>1, <2>2, FailsInv DEF BodyFails
<1>6. ASSUME NEW c \in Post, Answered(c) PROVE HttpInv'
  <2>1. Set(c, [at |-> "answered"]) /\ UNCHANGED <<jsonMode, started, instant>>
    BY <1>6 DEF Answered
  <2>2. [at |-> "answered"] \in Over /\ [at |-> "answered"] \notin Flight
    BY DEF Over, Flight
  <2> QED BY <1>0, <2>1, <2>2, PostMoves
<1>7. ASSUME NEW c \in Post, AnsweredEmpty(c) PROVE HttpInv'
  <2>1. posts[c] \in Flight /\ InTime(posts[c], instant) /\ InFlight(c)
        /\ jsonMode' \in BOOLEAN /\ started' \in Nat /\ instant' = instant
    BY <1>0, <1>7, Flying DEF AnsweredEmpty
  <2>2. CASE posts[c].empties = MaxEmpty
    BY <1>7, <2>1, <2>2, FailsInv DEF AnsweredEmpty
  <2>3. CASE posts[c].empties # MaxEmpty
    <3> DEFINE p == [posts[c] EXCEPT !.at = "fetching", !.attempt = 0, !.empties = @ + 1,
                                     !.deadline = DeadlineAt, !.format = jsonMode]
    <3>1. posts[c].empties \in Nat /\ posts[c].empties + 1 \in 0 .. MaxEmpty
      BY <2>1, <2>3 DEF Flight
    <3>2. DeadlineAt = instant + Timeout /\ DeadlineAt \in Nat
      BY <1>0 DEF DeadlineAt
    <3>3. /\ p \in Flight /\ p.at = "fetching" /\ p.deadline = instant + Timeout
          /\ p.begun = posts[c].begun /\ p.empties = posts[c].empties + 1
      <4>1. p = Anew(posts[c], DeadlineAt, jsonMode)
        BY DEF Anew
      <4> HIDE DEF p
      <4> QED BY <1>0, <2>1, <2>3, <3>2, <4>1, Beginning
    <3>4. instant + Timeout <= posts[c].begun + (posts[c].empties + 2) * Timeout
      <4> DEFINE n == posts[c].empties
      <4>1. instant <= posts[c].begun + (n + 1) * Timeout
        BY <1>0, <2>1, <3>1 DEF InTime, Flight
      <4>2. posts[c].begun \in Nat /\ n \in Nat
        BY <2>1, <3>1 DEF Flight
      <4> HIDE DEF n
      <4>3. (n + 2) * Timeout = (n + 1) * Timeout + Timeout
        BY <4>2
      <4>4. (n + 1) * Timeout \in Nat
        BY <4>2
      <4>5. instant + Timeout <= posts[c].begun + (n + 2) * Timeout
        BY <1>0, <4>1, <4>2, <4>3, <4>4
      <4> QED BY <4>5 DEF n
    <3>5. Set(c, p)
      BY <1>7, <2>3 DEF AnsweredEmpty
    <3> HIDE DEF p
    <3>6. InTime(p, instant)
      BY <1>0, <3>1, <3>3, <3>4 DEF InTime
    <3> QED BY <2>1, <3>3, <3>5, <3>6, PostMoves
  <2> QED BY <2>2, <2>3
<1>8. ASSUME NEW c \in Post, RefusesJsonMode(c) \/ SleepEnds(c) PROVE HttpInv'
  <2> DEFINE p == [posts[c] EXCEPT !.at = "fetching", !.attempt = @ + 1, !.format = FALSE]
             q == [posts[c] EXCEPT !.at = "fetching", !.attempt = @ + 1, !.wakes = 0]
  <2>1. posts[c] \in Flight /\ InTime(posts[c], instant) /\ InFlight(c)
        /\ jsonMode' \in BOOLEAN /\ started' \in Nat /\ instant' = instant
    BY <1>0, <1>8, Flying DEF RefusesJsonMode, SleepEnds
  <2>2. \/ Fail(c, "deadline") \/ Fail(c, "exhausted")
        \/ posts[c].attempt # MaxRetries /\ (Set(c, p) \/ Set(c, q))
    <3>1. CASE RefusesJsonMode(c)
      BY <3>1 DEF RefusesJsonMode, LastAttempt
    <3>2. CASE SleepEnds(c)
      BY <2>1, <3>2 DEF SleepEnds, Attempt, InTime, Flight
    <3> QED BY <1>8, <3>1, <3>2
  <2>3. CASE posts[c].attempt # MaxRetries /\ (Set(c, p) \/ Set(c, q))
    <3>1. posts[c].attempt + 1 \in 0 .. MaxRetries
      BY <2>1, <2>3 DEF Flight
    <3>2. ASSUME NEW r \in {p, q}
          PROVE  r \in Flight /\ r.at = "fetching" /\ r.deadline = posts[c].deadline
                 /\ r.begun = posts[c].begun /\ r.empties = posts[c].empties
      <4>1. CASE r = p
        BY <2>1, <3>1, <4>1 DEF Flight
      <4>2. CASE r = q
        BY <2>1, <3>1, <4>2 DEF Flight
      <4> QED BY <3>2, <4>1, <4>2
    <3> HIDE DEF p, q
    <3>3. \A r \in {p, q} : InTime(r, instant)
      BY <2>1, <3>2 DEF InTime
    <3> QED BY <2>1, <2>3, <3>2, <3>3, PostMoves
  <2> QED BY <2>1, <2>2, <2>3, FailsInv
<1>9. ASSUME NEW c \in Post, DeadlineFires(c) PROVE HttpInv'
  <2>1. InFlight(c) /\ jsonMode' \in BOOLEAN /\ started' \in Nat /\ instant' = instant
    BY <1>0, <1>9, Flying DEF DeadlineFires
  <2> QED BY <1>9, <2>1, FailsInv DEF DeadlineFires
<1>10. CASE UNCHANGED httpVars
  BY <1>10 DEF httpVars, HttpInv
<1> QED BY <1>1, <1>2, <1>3, <1>4, <1>5, <1>6, <1>7, <1>8, <1>9, <1>10 DEF HttpNext

\* A call is over by its deadline, whatever its retries, back-offs and empty answers and
\* however many calls are in flight, and a client keeps no refusal to itself.
THEOREM CallsAreInTime == HttpSpec => []CallsEndWell
<1>1. HttpInit => HttpInv
  <2> SUFFICES ASSUME HttpInit PROVE HttpInv
    OBVIOUS
  <2>1. Unused \in Over /\ Unused \notin Flight
    BY DEF Over, Unused, Flight
  <2> QED BY <2>1 DEF HttpInit, HttpInv
<1>2. HttpInv => CallsEndWell
  <2> SUFFICES ASSUME HttpInv, NEW c \in Post
               PROVE  /\ InFlight(c) =>
                           /\ instant <= posts[c].deadline
                           /\ Due(c) <= posts[c].deadline
                           /\ posts[c].attempt <= MaxRetries
                           /\ posts[c].deadline <= posts[c].begun + (MaxEmpty + 1) * Timeout
                      /\ posts[c].at = "failed" => ~posts[c].hides
    BY DEF CallsEndWell, CallsEndInTime
  <2>1. ASSUME InFlight(c)
        PROVE  /\ instant <= posts[c].deadline
               /\ Due(c) <= posts[c].deadline
               /\ posts[c].attempt <= MaxRetries
               /\ posts[c].deadline <= posts[c].begun + (MaxEmpty + 1) * Timeout
    <3> DEFINE n == posts[c].empties
    <3>1. posts[c] \in Flight /\ InTime(posts[c], instant) /\ instant \in Nat
      BY <2>1, Flying DEF HttpInv
    <3>2. /\ n + 1 \in Nat /\ MaxEmpty + 1 \in Nat /\ n + 1 <= MaxEmpty + 1 /\ Timeout \in Nat
          /\ posts[c].attempt <= MaxRetries
          /\ posts[c].deadline \in Nat /\ posts[c].begun \in Nat /\ posts[c].wakes \in Nat
      BY <3>1, HttpConstants DEF Flight
    <3>3. posts[c].deadline <= posts[c].begun + (n + 1) * Timeout
      BY <3>1 DEF InTime
    <3> HIDE DEF n
    <3>4. (n + 1) * Timeout <= (MaxEmpty + 1) * Timeout
      BY <3>2, ProductGrows
    <3>5. (n + 1) * Timeout \in Nat /\ (MaxEmpty + 1) * Timeout \in Nat
      BY <3>2
    <3>6. posts[c].deadline <= posts[c].begun + (MaxEmpty + 1) * Timeout
      BY <3>2, <3>3, <3>4, <3>5
    <3>7. Due(c) <= posts[c].deadline
      BY <3>1, <3>2 DEF Due, InTime
    <3> QED BY <3>1, <3>2, <3>6, <3>7 DEF InTime
  <2>2. posts[c].at = "failed" => ~posts[c].hides
    BY DEF HttpInv, Over, Unused, Flight
  <2> QED BY <2>1, <2>2
<1> QED BY <1>1, <1>2, HttpStep, PTL DEF HttpSpec

(***************************************************************************)
(* The rate limiter.  Who was refused and has a bucket was told to come    *)
(* back no earlier than its window is over.                                *)
(***************************************************************************)
Slots == [Identity -> Bucket \cup {Absent}]

Waits(b, r) == \A id \in Identity : b[id] # Absent /\ r[id] # Absent => r[id] >= b[id].start + Window

LimiterInv ==
  /\ buckets \in Slots
  /\ now \in Time
  /\ retryAt \in [Identity -> Nat \cup {Absent}]
  /\ Waits(buckets, retryAt)

\* A client told to wait in whole seconds waits long enough.
LEMMA RoundsUp ==
  ASSUME NEW t \in Nat
  PROVE  RetryAfter(t) \in Nat /\ Second * RetryAfter(t) \in Nat /\ Second * RetryAfter(t) >= t
BY ConstantsAssumption, SMTT(30) DEF RetryAfter

\* The sweep only takes buckets out.
LEMMA SweptHeld ==
  ASSUME LimiterInv
  PROVE  Swept.held \in Slots /\ \A k \in Identity : Swept.held[k] \in {buckets[k], Absent}
<1>1. CASE Swept = [held |-> buckets, older |-> older]
  BY <1>1 DEF LimiterInv
<1>2. CASE Swept = Sweep([held |-> buckets, older |-> older])
  <2> DEFINE gone == {id \in Identity : buckets[id] # Absent /\ Stale(buckets[id])}
  <2>1. Swept.held = [id \in Identity |-> IF id \in gone THEN Absent ELSE buckets[id]]
    BY <1>2 DEF Sweep, Delete
  <2> HIDE DEF gone
  <2> QED BY <2>1 DEF LimiterInv, Slots
<1> QED BY <1>1, <1>2 DEF Swept

\* A window is opened: nobody else's bucket changes, but that one may go.
LEMMA OpensOne ==
  ASSUME LimiterInv, NEW id \in Identity, OpenWindow(id)
  PROVE  /\ buckets' \in Slots /\ buckets'[id].start = now
         /\ \A k \in Identity \ {id} : buckets'[k] \in {buckets[k], Absent}
         /\ retryAt' = [retryAt EXCEPT ![id] = Absent]
<1> DEFINE m == Swept
           gone == Evicted(m, id)
           d == [k \in Identity |-> IF k \in gone THEN Absent ELSE m.held[k]]
           b == [start |-> now, count |-> 1]
<1>1. m.held \in Slots /\ \A k \in Identity : m.held[k] \in {buckets[k], Absent}
  BY SweptHeld
<1>2. buckets' = [Delete(m, gone).held EXCEPT ![id] = b]
  BY DEF OpenWindow, MapIs, Put
<1>3. Delete(m, gone).held = d
  BY DEF Delete
<1>4. retryAt' = [retryAt EXCEPT ![id] = Absent]
  BY DEF OpenWindow, Admit
<1>5. b \in Bucket /\ b.start = now
  BY DEF LimiterInv, Bucket
<1> HIDE DEF m, gone, b
<1>6. buckets' = [d EXCEPT ![id] = b]
  BY <1>2, <1>3
<1>7. d \in Slots
  BY <1>1 DEF Slots
<1>8. \A k \in Identity : d[k] \in {m.held[k], Absent}
  OBVIOUS
<1> HIDE DEF d
<1> QED BY <1>1, <1>4, <1>5, <1>6, <1>7, <1>8 DEF Slots

\* A request is counted: its bucket's window is not over, and stays the same.
LEMMA CountsOne ==
  ASSUME LimiterInv, NEW id \in Identity, CountRequest(id)
  PROVE  /\ buckets' \in Slots /\ buckets[id] # Absent /\ buckets[id] \in Bucket
         /\ now - buckets[id].start < Window /\ buckets'[id].start = buckets[id].start
         /\ \A k \in Identity \ {id} : buckets'[k] \in {buckets[k], Absent}
         /\ \/ retryAt' = [retryAt EXCEPT ![id] = Absent]
            \/ retryAt' = [retryAt EXCEPT ![id] =
                             now + Second * RetryAfter(Window - (now - buckets[id].start))]
<1> DEFINE m == Swept
           counted == [m.held[id] EXCEPT !.count = @ + 1]
<1>1. m.held \in Slots /\ \A k \in Identity : m.held[k] \in {buckets[k], Absent}
  BY SweptHeld
<1>2. m.held[id] # Absent /\ ~Stale(m.held[id])
  BY DEF CountRequest, Opens
<1>3. m.held[id] = buckets[id] /\ buckets[id] \in Bucket
  BY <1>1, <1>2 DEF Slots
<1>4. now \in Nat /\ buckets[id].start \in Nat
  BY <1>3 DEF LimiterInv, Time, Bucket
<1>5. now - buckets[id].start < Window
  BY <1>2, <1>3, <1>4, ConstantsAssumption DEF Stale
<1>6. buckets' = [m.held EXCEPT ![id] = counted]
  BY DEF CountRequest, MapIs, Put
<1>7. counted.start = buckets[id].start /\ counted \in Bucket
  BY <1>3 DEF Bucket
<1>8. \/ retryAt' = [retryAt EXCEPT ![id] = Absent]
      \/ retryAt' = [retryAt EXCEPT ![id] =
                       now + Second * RetryAfter(Window - (now - counted.start))]
  BY DEF CountRequest, Admit, Refuse
<1> HIDE DEF m, counted
<1> QED BY <1>1, <1>2, <1>3, <1>5, <1>6, <1>7, <1>8 DEF Slots

\* Every step keeps them waiting.
LEMMA LimiterStep == LimiterInv /\ [Next]_vars => LimiterInv'
<1> SUFFICES ASSUME LimiterInv, [Next]_vars PROVE LimiterInv'
  OBVIOUS
<1>0. \A k \in Identity : /\ buckets[k] \in Bucket \cup {Absent}
                          /\ retryAt[k] \in Nat \cup {Absent}
                          /\ buckets[k] # Absent => buckets[k].start \in Nat
  BY DEF LimiterInv, Slots, Bucket, Time
<1>1. CASE Tick \/ UNCHANGED vars
  BY <1>1, ConstantsAssumption DEF Tick, vars, LimiterInv, Time
<1>2. ASSUME NEW id \in Identity, Request(id) PROVE LimiterInv'
  <2>1. CASE OpenWindow(id)
    BY <1>2, <2>1, OpensOne DEF Request, LimiterInv, Waits, Slots
  <2>2. CASE CountRequest(id)
    <3> DEFINE left == Window - (now - buckets[id].start)
               told == now + Second * RetryAfter(left)
    <3>1. now \in Nat /\ buckets[id].start \in Nat /\ left \in Nat
      BY <1>0, <2>2, CountsOne, ConstantsAssumption DEF LimiterInv, Time
    <3>2. told \in Nat /\ told >= buckets[id].start + Window
      <4>1. now + left = buckets[id].start + Window
        BY <3>1, ConstantsAssumption
      <4> HIDE DEF left
      <4>2. Second * RetryAfter(left) \in Nat /\ Second * RetryAfter(left) >= left
        BY <3>1, RoundsUp
      <4> QED BY <3>1, <4>1, <4>2, ConstantsAssumption
    <3> HIDE DEF left, told
    <3>3. retryAt' = [retryAt EXCEPT ![id] = Absent] \/ retryAt' = [retryAt EXCEPT ![id] = told]
      BY <2>2, CountsOne DEF left, told
    <3>4. /\ buckets' \in Slots /\ buckets'[id].start = buckets[id].start
          /\ \A k \in Identity \ {id} : buckets'[k] \in {buckets[k], Absent}
      BY <2>2, CountsOne
    <3>5. retryAt' \in [Identity -> Nat \cup {Absent}]
      BY <3>2, <3>3 DEF LimiterInv
    <3>6. Waits(buckets', retryAt')
      BY <3>2, <3>3, <3>4 DEF LimiterInv, Waits
    <3> QED BY <1>2, <3>4, <3>5, <3>6 DEF Request, LimiterInv
  <2> QED BY <1>2, <2>1, <2>2 DEF Request
<1> QED BY <1>1, <1>2 DEF Next

\* A client that comes back when it was told to is let through, however the sweep, the
\* renewal of its window and the evictions of others fell in between.
THEOREM WaitIsOver == Spec => RetryAfterHonoured
<1>1. Init => LimiterInv
  BY ConstantsAssumption DEF Init, LimiterInv, Slots, Waits, Time
<1>2. LimiterInv /\ [Next]_vars =>
        [\A id \in Identity :
           Asked(id) /\ retryAt[id] # Absent /\ now >= retryAt[id] => retryAt'[id] = Absent]_vars
  <2> SUFFICES ASSUME LimiterInv, Next, NEW id \in Identity, Asked(id), retryAt[id] # Absent,
                      now >= retryAt[id]
               PROVE  retryAt'[id] = Absent
    BY DEF vars
  <2>1. ~Tick
    BY DEF Tick, Asked
  <2>2. PICK k \in Identity : Request(k)
    BY <2>1 DEF Next
  <2>3. CASE k # id
    <3>1. buckets'[id] \in {buckets[id], Absent}
      BY <2>2, <2>3, OpensOne, CountsOne DEF Request
    <3> QED BY <3>1 DEF Asked
  <2>4. CASE k = id /\ OpenWindow(k)
    BY <2>4, OpensOne DEF LimiterInv
  <2>5. CASE k = id /\ CountRequest(k)
    <3>1. /\ buckets[id] # Absent /\ buckets[id] \in Bucket /\ now - buckets[id].start < Window
      BY <2>5, CountsOne
    <3>2. retryAt[id] >= buckets[id].start + Window
      BY <3>1 DEF LimiterInv, Waits
    <3>3. now \in Nat /\ retryAt[id] \in Nat /\ buckets[id].start \in Nat
      BY <3>1 DEF LimiterInv, Time, Bucket
    <3> QED BY <3>1, <3>2, <3>3, ConstantsAssumption
  <2> QED BY <2>2, <2>3, <2>4, <2>5 DEF Request
<1> QED BY <1>1, <1>2, LimiterStep, PTL DEF Spec, RetryAfterHonoured

(***************************************************************************)
(* The tools.  A text, once stored, stays; and what is not active any more *)
(* never changes: so what a tool has seen of its memory, or of the one it  *)
(* stored, stays so whatever the others do.                                *)
(***************************************************************************)
Statuses == {"absent", "active", "superseded", "archived"}
Memory == [status: Statuses, text: Wording \cup {"none"}, by: Id \cup {NoId}]
Routes == [corrects: {"no", "calls", "transaction"}, read: BOOLEAN, status: BOOLEAN, extracts: BOOLEAN]
ToolUses ==
  [tool: {"none", "supersede", "forget"}, m: Nat, t: Wording \cup {"none"}, newId: Id \cup {NoId},
   at: Pending \cup {"unused", "thrown", "replied"},
   result: {"none", "not_found", "identical", "raced", "replaced", "downranked", "partial", "failed",
            "forgotten"},
   stored: BOOLEAN]

HeldAs(ms, id, t) == id \in Id /\ ms[id].status # "absent" /\ ms[id].text = t

\* The service stores the texts it is given; and a correction is of what it was when read.
StoresText(sv) == sv.corrects # "no" \/ ~sv.extracts
ReadsText(sv) == sv.corrects # "no" \/ (sv.read /\ ~sv.extracts)

\* What holds of a use u, over a service sv and the memories ms.
Corrects(u, sv, ms) ==
  /\ ms[u.m].status # "absent"
  /\ sv.read => ms[u.m].text # u.t

HasStored(u, sv, ms) == StoresText(sv) => HeldAs(ms, u.newId, u.t)

Tells(u, ms) ==
  /\ u.result = "replaced" => ms[u.m].status = "superseded" /\ ms[u.m].by = u.newId
  /\ u.result \in {"not_found", "identical", "raced"} => ~u.stored
  /\ u.result = "forgotten" => ms[u.m].status = "archived"
  /\ u.result \in {"raced", "partial"} => ms[u.m].status \notin {"absent", "active"}

UseInv(u, sv, ms) ==
  /\ u \in ToolUses
  /\ u.at \in Pending => u.tool # "none"
  /\ u.tool # "none" => u.m \in Id
  /\ u.tool = "supersede" => u.t \in Wording
  /\ u.at = "replied" => u.tool # "none" /\ Tells(u, ms)
  /\ u.at \in {"first", "write"} \/ u.tool = "forget" => ~u.stored
  /\ u.at = "ingest" => sv.corrects = "no"
  /\ u.at = "write" => sv.corrects # "no"
  /\ u.tool = "supersede" /\ u.at \in {"write", "ingest", "downrank", "retire"} => Corrects(u, sv, ms)
  /\ u.tool = "supersede" /\ u.at \in {"downrank", "retire"} => u.stored
  /\ u.stored => HasStored(u, sv, ms)

\* A retired memory names one that has another text.
Succeeded(sv, ms) ==
  ReadsText(sv) =>
    \A m \in Id : ms[m].status = "superseded" =>
      /\ ms[m].by \in Id /\ ms[ms[m].by].status # "absent"
      /\ ms[ms[m].by].text # ms[m].text

ToolsInv ==
  /\ service \in Routes /\ (service.corrects # "no" => service.read /\ service.status)
  /\ memories \in [Id -> Memory]
  /\ DOMAIN uses = Agent
  /\ \A a \in Agent : UseInv(uses[a], service, memories)
  /\ Succeeded(service, memories)

\* From ms to ns no text changed, and nothing that was not active.
Keeps(ms, ns) ==
  \A m \in Id : ms[m].status # "absent" =>
    /\ ns[m].status # "absent" /\ ns[m].text = ms[m].text
    /\ ms[m].status # "active" => ns[m] = ms[m]

\* What holds of a use goes on holding.
LEMMA UseKept ==
  ASSUME NEW u, NEW sv, NEW ms, NEW ns, UseInv(u, sv, ms), Keeps(ms, ns)
  PROVE  UseInv(u, sv, ns)
<1>1. u \in ToolUses /\ (u.tool # "none" => u.m \in Id)
  BY DEF UseInv
<1>2. \A id, t : HeldAs(ms, id, t) => HeldAs(ns, id, t)
  BY DEF HeldAs, Keeps
<1>3. u.tool # "none" /\ Corrects(u, sv, ms) => Corrects(u, sv, ns)
  BY <1>1 DEF Corrects, Keeps
<1>4. HasStored(u, sv, ms) => HasStored(u, sv, ns)
  BY <1>2 DEF HasStored
<1>5. u.tool # "none" /\ Tells(u, ms) => Tells(u, ns)
  BY <1>1 DEF Tells, Keeps
<1> QED BY <1>3, <1>4, <1>5 DEF UseInv

\* What remains to be shown of a step of agent a.
LEMMA UseMoves ==
  ASSUME ToolsInv, NEW a \in Agent, NEW u, uses' = [uses EXCEPT ![a] = u],
         service' = service, memories' \in [Id -> Memory], Keeps(memories, memories'),
         UseInv(u, service, memories'), Succeeded(service, memories')
  PROVE  ToolsInv'
<1>1. \A b \in Agent : UseInv(uses[b], service, memories')
  BY UseKept DEF ToolsInv
<1>2. \A b \in Agent : uses'[b] = u \/ uses'[b] = uses[b]
  BY DEF ToolsInv
<1>3. \A b \in Agent : UseInv(uses'[b], service, memories')
  BY <1>1, <1>2
<1> QED BY <1>3 DEF ToolsInv

\* What remains to be shown of a step that leaves the memories alone.
LEMMA UseAlone ==
  ASSUME ToolsInv, NEW a \in Agent, NEW u, uses' = [uses EXCEPT ![a] = u],
         service' = service, memories' = memories, UseInv(u, service, memories)
  PROVE  ToolsInv'
<1>1. Keeps(memories, memories)
  BY DEF Keeps
<1> QED BY <1>1, UseMoves DEF ToolsInv

Added(ms, t, id) == [ms EXCEPT ![id] = [status |-> "active", text |-> t, by |-> NoId]]

\* A new memory is stored where there was none.
LEMMA NewMemory ==
  ASSUME NEW ms \in [Id -> Memory], NEW sv \in Routes, Succeeded(sv, ms), NEW id \in Id,
         ms[id].status = "absent", NEW t \in Wording, NEW ns, ns = Added(ms, t, id)
  PROVE  /\ ns \in [Id -> Memory] /\ Keeps(ms, ns) /\ HeldAs(ns, id, t) /\ Succeeded(sv, ns)
         /\ \A k \in Id : k # id => ns[k] = ms[k]
<1>1. [status |-> "active", text |-> t, by |-> NoId] \in Memory
  BY DEF Memory, Statuses
<1>2. ns \in [Id -> Memory]
  BY <1>1 DEF Added
<1>3. Keeps(ms, ns)
  BY DEF Keeps, Added
<1>4. ns[id] = [status |-> "active", text |-> t, by |-> NoId]
  BY DEF Added
<1>5. \A k \in Id : k # id => ns[k] = ms[k]
  BY DEF Added
<1>6. Succeeded(sv, ns)
  BY <1>4, <1>5 DEF Succeeded
<1> QED BY <1>2, <1>3, <1>4, <1>5, <1>6 DEF HeldAs

\* What is written for a set of texts.
LEMMA PuttingKeeps ==
  ASSUME ToolsInv, NEW texts \in SUBSET Wording, NEW at \in [texts -> Id], PutTexts(texts, at)
  PROVE  /\ memories' \in [Id -> Memory] /\ Keeps(memories, memories')
         /\ Succeeded(service, memories')
         /\ \A t \in texts : HeldAs(memories', at[t], t)
<1> DEFINE Fresh(m) == m \in Free /\ \E t \in texts : at[t] = m
           put(m) == [status |-> "active", text |-> CHOOSE t \in texts : at[t] = m, by |-> NoId]
           ns == memories'
<1>1. memories \in [Id -> Memory] /\ Succeeded(service, memories)
  BY DEF ToolsInv
<1>2. ns = [m \in Id |-> IF Fresh(m) THEN put(m) ELSE memories[m]]
  BY DEF PutTexts
<1> HIDE DEF ns
<1>3. \A m \in Id : Fresh(m) => put(m) \in Memory
  BY DEF Memory, Statuses
<1>4. ns \in [Id -> Memory]
  BY <1>1, <1>2, <1>3
<1>5. \A m \in Id : memories[m].status # "absent" => ns[m] = memories[m]
  BY <1>2 DEF Free
<1>6. Keeps(memories, ns)
  BY <1>5 DEF Keeps
<1>7. \A m \in Id : ns[m].status = "superseded" => ns[m] = memories[m]
  BY <1>2
<1>8. Succeeded(service, ns)
  BY <1>1, <1>5, <1>7 DEF Succeeded
<1>9. ASSUME NEW t \in texts PROVE HeldAs(ns, at[t], t)
  <2>1. at[t] \in Id
    OBVIOUS
  <2>2. CASE at[t] \in Free
    <3>1. \A u \in texts : at[u] = at[t] => u = t
      BY DEF PutTexts
    <3>2. (CHOOSE u \in texts : at[u] = at[t]) = t
      BY <3>1
    <3>3. ns[at[t]] = put(at[t])
      BY <1>2, <2>1, <2>2
    <3> QED BY <2>1, <3>2, <3>3 DEF HeldAs
  <2>3. CASE at[t] \notin Free
    <3>1. at[t] \in DuplicateOf(t)
      BY <2>3 DEF PutTexts
    <3>2. memories[at[t]].status = "active" /\ memories[at[t]].text = t
      BY <3>1 DEF DuplicateOf, Active
    <3> QED BY <1>5, <2>1, <3>2 DEF HeldAs
  <2> QED BY <2>2, <2>3
<1> QED BY <1>4, <1>6, <1>8, <1>9 DEF ns

RetiredIn(ms, m, st, by) == [ms EXCEPT ![m].status = st, ![m].by = by]

\* An active memory retires, in favour of one with another text or of none.
LEMMA RetiringKeeps ==
  ASSUME NEW ms \in [Id -> Memory], NEW sv \in Routes, Succeeded(sv, ms), NEW m \in Id,
         ms[m].status = "active", NEW st \in {"superseded", "archived"}, NEW by \in Id \cup {NoId},
         ReadsText(sv) /\ st = "superseded" =>
           by \in Id /\ ms[by].status # "absent" /\ ms[by].text # ms[m].text
  PROVE  LET ns == RetiredIn(ms, m, st, by) IN
         /\ ns \in [Id -> Memory] /\ Keeps(ms, ns) /\ Succeeded(sv, ns)
         /\ ns[m].status = st /\ ns[m].by = by /\ ns[m].text = ms[m].text
<1> DEFINE ns == RetiredIn(ms, m, st, by)
<1>0. ns = [ms EXCEPT ![m].status = st, ![m].by = by]
  BY DEF RetiredIn
<1> HIDE DEF ns
<1>1. ms[m] \in Memory
  OBVIOUS
<1>2. ns[m] = [status |-> st, text |-> ms[m].text, by |-> by]
  BY <1>0, <1>1 DEF Memory
<1>3. ns[m] \in Memory
  BY <1>1, <1>2 DEF Memory, Statuses
<1>4. ns \in [Id -> Memory]
  BY <1>0, <1>3
<1>5. \A k \in Id : k # m => ns[k] = ms[k]
  BY <1>0
<1>6. Keeps(ms, ns)
  BY <1>2, <1>5 DEF Keeps
<1>7. \A k \in Id : ms[k].status # "absent" => ns[k].status # "absent" /\ ns[k].text = ms[k].text
  BY <1>6 DEF Keeps
<1>8. Succeeded(sv, ns)
  BY <1>2, <1>5, <1>7 DEF Succeeded
<1> QED BY <1>2, <1>4, <1>6, <1>8 DEF ns

\* What an ingest may do to the memories, and what it answers.
LEMMA IngestingKeeps ==
  ASSUME ToolsInv, NEW t \in Wording, NEW id \in Id \cup {NoId}, IngestAnswers(t, id)
  PROVE  /\ memories' \in [Id -> Memory] /\ Keeps(memories, memories')
         /\ Succeeded(service, memories')
         /\ ~service.extracts => HeldAs(memories', id, t)
<1>1. PICK texts \in Observations(t) : \E at \in [texts -> Id] :
        /\ PutTexts(texts, at)
        /\ \/ texts = {} /\ id = NoId
           \/ \E u \in texts : id = at[u] /\ (id \in Free \/ \A v \in texts : at[v] \notin Free)
  BY DEF IngestAnswers
<1>2. PICK at \in [texts -> Id] :
        /\ PutTexts(texts, at)
        /\ texts = {} \/ \E u \in texts : id = at[u]
  BY <1>1
<1>3. texts \in SUBSET Wording /\ (~service.extracts => texts = {t})
  BY <1>1 DEF Observations
<1>4. /\ memories' \in [Id -> Memory] /\ Keeps(memories, memories')
      /\ Succeeded(service, memories')
      /\ \A u \in texts : HeldAs(memories', at[u], u)
  BY <1>2, <1>3, PuttingKeeps
<1>5. ~service.extracts => id = at[t] /\ t \in texts
  BY <1>2, <1>3
<1> QED BY <1>4, <1>5

Results ==
  {"none", "not_found", "identical", "raced", "replaced", "downranked", "partial", "failed", "forgotten"}
Told(u, r) == [u EXCEPT !.at = "replied", !.result = r]
Gone(u, at) == [u EXCEPT !.at = at]
Ingested(u, id, at) == [u EXCEPT !.newId = id, !.stored = TRUE, !.at = at]
Corrected(u, id) == [u EXCEPT !.newId = id, !.stored = TRUE, !.at = "replied", !.result = "replaced"]

\* A use that has answered.
LEMMA ToldFields ==
  ASSUME NEW u \in ToolUses, NEW r \in Results
  PROVE  /\ Told(u, r) = [tool |-> u.tool, m |-> u.m, t |-> u.t, newId |-> u.newId,
                       at |-> "replied", result |-> r, stored |-> u.stored]
         /\ Told(u, r) \in ToolUses
<1> DEFINE v == Told(u, r)
<1>0. v = [u EXCEPT !.at = "replied", !.result = r]
  BY DEF Told
<1> HIDE DEF v
<1>1. v = [tool |-> u.tool, m |-> u.m, t |-> u.t, newId |-> u.newId,
           at |-> "replied", result |-> r, stored |-> u.stored]
  BY <1>0 DEF ToolUses
<1>2. /\ u.tool \in {"none", "supersede", "forget"} /\ u.m \in Nat /\ u.t \in Wording \cup {"none"}
      /\ u.newId \in Id \cup {NoId} /\ u.result \in Results /\ u.stored \in BOOLEAN
  BY DEF ToolUses, Results
<1>3. v \in ToolUses
  BY <1>1, <1>2 DEF ToolUses, Results
<1> QED BY <1>1, <1>3 DEF v

\* A use that goes on to a next call.
LEMMA GoneFields ==
  ASSUME NEW u \in ToolUses, NEW at \in Pending \cup {"unused", "thrown", "replied"}
  PROVE  /\ Gone(u, at) = [tool |-> u.tool, m |-> u.m, t |-> u.t, newId |-> u.newId,
                        at |-> at, result |-> u.result, stored |-> u.stored]
         /\ Gone(u, at) \in ToolUses
<1> DEFINE v == Gone(u, at)
<1>0. v = [u EXCEPT !.at = at]
  BY DEF Gone
<1> HIDE DEF v
<1>1. v = [tool |-> u.tool, m |-> u.m, t |-> u.t, newId |-> u.newId,
           at |-> at, result |-> u.result, stored |-> u.stored]
  BY <1>0 DEF ToolUses
<1>2. /\ u.tool \in {"none", "supersede", "forget"} /\ u.m \in Nat /\ u.t \in Wording \cup {"none"}
      /\ u.newId \in Id \cup {NoId} /\ u.result \in Results /\ u.stored \in BOOLEAN
  BY DEF ToolUses, Results
<1>3. v \in ToolUses
  BY <1>1, <1>2 DEF ToolUses, Results
<1> QED BY <1>1, <1>3 DEF v

\* A use that has stored its text.
LEMMA IngestedFields ==
  ASSUME NEW u \in ToolUses, NEW id \in Id \cup {NoId},
         NEW at \in Pending \cup {"unused", "thrown", "replied"}
  PROVE  /\ Ingested(u, id, at) = [tool |-> u.tool, m |-> u.m, t |-> u.t, newId |-> id,
                                at |-> at, result |-> u.result, stored |-> TRUE]
         /\ Ingested(u, id, at) \in ToolUses
<1> DEFINE v == Ingested(u, id, at)
<1>0. v = [u EXCEPT !.newId = id, !.stored = TRUE, !.at = at]
  BY DEF Ingested
<1> HIDE DEF v
<1>1. v = [tool |-> u.tool, m |-> u.m, t |-> u.t, newId |-> id,
           at |-> at, result |-> u.result, stored |-> TRUE]
  BY <1>0 DEF ToolUses
<1>2. /\ u.tool \in {"none", "supersede", "forget"} /\ u.m \in Nat /\ u.t \in Wording \cup {"none"}
      /\ u.newId \in Id \cup {NoId} /\ u.result \in Results /\ u.stored \in BOOLEAN
  BY DEF ToolUses, Results
<1>3. v \in ToolUses
  BY <1>1, <1>2 DEF ToolUses, Results
<1> QED BY <1>1, <1>3 DEF v

\* A use that has made its correction.
LEMMA CorrectedFields ==
  ASSUME NEW u \in ToolUses, NEW id \in Id \cup {NoId}
  PROVE  /\ Corrected(u, id) = [tool |-> u.tool, m |-> u.m, t |-> u.t, newId |-> id,
                             at |-> "replied", result |-> "replaced", stored |-> TRUE]
         /\ Corrected(u, id) \in ToolUses
<1> DEFINE v == Corrected(u, id)
<1>0. v = [u EXCEPT !.newId = id, !.stored = TRUE, !.at = "replied", !.result = "replaced"]
  BY DEF Corrected
<1> HIDE DEF v
<1>1. v = [tool |-> u.tool, m |-> u.m, t |-> u.t, newId |-> id,
           at |-> "replied", result |-> "replaced", stored |-> TRUE]
  BY <1>0 DEF ToolUses
<1>2. /\ u.tool \in {"none", "supersede", "forget"} /\ u.m \in Nat /\ u.t \in Wording \cup {"none"}
      /\ u.newId \in Id \cup {NoId} /\ u.result \in Results /\ u.stored \in BOOLEAN
  BY DEF ToolUses, Results
<1>3. v \in ToolUses
  BY <1>1, <1>2 DEF ToolUses, Results
<1> QED BY <1>1, <1>3 DEF v

TellsSo(u, r, ms) ==
  /\ r = "replaced" => ms[u.m].status = "superseded" /\ ms[u.m].by = u.newId
  /\ r \in {"not_found", "identical", "raced"} => ~u.stored
  /\ r = "forgotten" => ms[u.m].status = "archived"
  /\ r \in {"raced", "partial"} => ms[u.m].status \notin {"absent", "active"}

\* A tool answers what is so.
LEMMA AnswersInv ==
  ASSUME ToolsInv, NEW a \in Agent, uses[a].at \in Pending, NEW r \in Results, Answer(a, r),
         service' = service, memories' \in [Id -> Memory], Keeps(memories, memories'),
         Succeeded(service, memories'), TellsSo(uses[a], r, memories')
  PROVE  ToolsInv'
<1> DEFINE u == uses[a]
           v == Told(u, r)
<1>1. u \in ToolUses /\ UseInv(u, service, memories) /\ u.tool # "none"
  BY DEF ToolsInv, UseInv
<1>2. uses' = [uses EXCEPT ![a] = v]
  BY DEF Answer, Told, ToolsInv
<1>3. v = [tool |-> u.tool, m |-> u.m, t |-> u.t, newId |-> u.newId,
           at |-> "replied", result |-> r, stored |-> u.stored] /\ v \in ToolUses
  BY <1>1, ToldFields
<1> HIDE DEF v
<1>4. Tells(v, memories')
  BY <1>3 DEF TellsSo, Tells
<1>5. v.stored => HasStored(v, service, memories')
  <2>1. u.stored => HasStored(u, service, memories')
    BY <1>1, UseKept DEF UseInv
  <2> QED BY <1>3, <2>1 DEF HasStored
<1>6. UseInv(v, service, memories')
  BY <1>1, <1>3, <1>4, <1>5 DEF UseInv, Pending
<1> QED BY <1>2, <1>6, UseMoves

\* A tool goes on to its next call.
LEMMA GoesInv ==
  ASSUME ToolsInv, NEW a \in Agent, uses[a].at \in Pending, NEW at \in {"write", "ingest", "retire"},
         Go(a, at), service' = service, memories' = memories,
         uses[a].tool = "supersede" => Corrects(uses[a], service, memories),
         uses[a].tool = "supersede" /\ at = "retire" => uses[a].stored,
         at = "write" => ~uses[a].stored /\ service.corrects # "no", at = "ingest" => service.corrects = "no"
  PROVE  ToolsInv'
<1> DEFINE u == uses[a]
           v == Gone(u, at)
<1>1. u \in ToolUses /\ UseInv(u, service, memories)
  BY DEF ToolsInv, UseInv
<1>2. uses' = [uses EXCEPT ![a] = v]
  BY DEF Go, Gone, ToolsInv
<1>3. v = [tool |-> u.tool, m |-> u.m, t |-> u.t, newId |-> u.newId,
           at |-> at, result |-> u.result, stored |-> u.stored] /\ v \in ToolUses
  BY <1>1, GoneFields DEF Pending
<1> HIDE DEF v
<1>4. UseInv(v, service, memories)
  BY <1>1, <1>3 DEF UseInv, Pending, Corrects, HasStored
<1> QED BY <1>2, <1>4, UseAlone

\* An agent begins to use a tool.
LEMMA StartsInv ==
  ASSUME ToolsInv, NEW a \in Agent, NEW tool \in {"supersede", "forget"}, NEW m \in Id,
         NEW t \in Wording \cup {"none"}, tool = "supersede" => t \in Wording,
         uses' = [uses EXCEPT ![a] = Use(tool, m, t)], UNCHANGED <<service, memories>>
  PROVE  ToolsInv'
<1> DEFINE v == Use(tool, m, t)
<1>1. v = [tool |-> tool, m |-> m, t |-> t, newId |-> NoId, at |-> "first", result |-> "none",
           stored |-> FALSE]
  BY DEF Use
<1> HIDE DEF v
<1>2. v \in ToolUses
  BY <1>1 DEF ToolUses, Pending, Id
<1>3. UseInv(v, service, memories)
  BY <1>1, <1>2 DEF UseInv
<1> QED BY <1>3, UseAlone DEF v

\* A tool that gets no answer throws.
LEMMA ThrowsInv ==
  ASSUME ToolsInv, NEW a \in Agent, AnswerLost(a)
  PROVE  ToolsInv'
<1> DEFINE w == Use("none", 1, "none")
           v == [w EXCEPT !.at = "thrown"]
<1>0. w = [tool |-> "none", m |-> 1, t |-> "none", newId |-> NoId, at |-> "first", result |-> "none",
           stored |-> FALSE]
  BY DEF Use
<1>01. v = [w EXCEPT !.at = "thrown"]
  OBVIOUS
<1> HIDE DEF w, v
<1>1. v = [tool |-> "none", m |-> 1, t |-> "none", newId |-> NoId, at |-> "thrown", result |-> "none",
           stored |-> FALSE]
  BY <1>0, <1>01
<1>2. uses' = [uses EXCEPT ![a] = v] /\ UNCHANGED <<service, memories>>
  BY DEF AnswerLost, Throw, w, v
<1>3. v \in ToolUses
  BY <1>1 DEF ToolUses
<1>4. UseInv(v, service, memories)
  BY <1>1, <1>3 DEF UseInv, Pending
<1> QED BY <1>2, <1>4, UseAlone

\* A memory is retired in favour of the one its use has stored.
LEMMA RetiringFor ==
  ASSUME ToolsInv, NEW a \in Agent, uses[a].tool = "supersede", uses[a].at = "retire",
         Active(uses[a].m), RetireMemory(uses[a].m, "superseded", uses[a].newId)
  PROVE  /\ memories' \in [Id -> Memory] /\ Keeps(memories, memories')
         /\ Succeeded(service, memories')
         /\ memories'[uses[a].m].status = "superseded" /\ memories'[uses[a].m].by = uses[a].newId
<1> DEFINE u == uses[a]
           ns == RetiredIn(memories, u.m, "superseded", u.newId)
<1>1. /\ u \in ToolUses /\ u.m \in Id /\ Corrects(u, service, memories)
      /\ HasStored(u, service, memories)
  BY DEF ToolsInv, UseInv
<1>2. memories' = ns
  BY DEF RetireMemory, RetiredIn
<1>3. u.newId \in Id \cup {NoId}
  BY <1>1 DEF ToolUses
<1>4. /\ memories \in [Id -> Memory] /\ Succeeded(service, memories) /\ service \in Routes
      /\ service.corrects # "no" => service.read
  BY DEF ToolsInv
<1>5. ReadsText(service) =>
        /\ u.newId \in Id /\ memories[u.newId].status # "absent"
        /\ memories[u.newId].text # memories[u.m].text
  BY <1>1, <1>4 DEF ReadsText, StoresText, Corrects, HasStored, HeldAs
<1>6. memories[u.m].status = "active"
  BY DEF Active
<1> HIDE DEF ns
<1>7. /\ ns \in [Id -> Memory] /\ Keeps(memories, ns) /\ Succeeded(service, ns)
      /\ ns[u.m].status = "superseded" /\ ns[u.m].by = u.newId
  BY <1>1, <1>3, <1>4, <1>5, <1>6, RetiringKeeps DEF ns
<1> QED BY <1>2, <1>7

\* The retirement of a correction of several calls, and what is answered to it.
LEMMA RetiresInv ==
  ASSUME ToolsInv, NEW a \in Agent, uses[a].tool = "supersede", uses[a].at = "retire",
         service' = service,
         \/ RetiresFor(a)
         \/ Answer(a, "failed") /\ UNCHANGED memories
         \/ /\ Active(uses[a].m) /\ RetireMemory(uses[a].m, "superseded", uses[a].newId)
            /\ Answer(a, "failed")
         \/ Answer(a, "downranked") /\ UNCHANGED memories
  PROVE  ToolsInv'
<1> DEFINE u == uses[a]
<1>1. u.at \in Pending /\ Corrects(u, service, memories)
  BY DEF ToolsInv, UseInv, Pending
<1>2. memories \in [Id -> Memory] /\ Keeps(memories, memories) /\ Succeeded(service, memories)
  BY DEF ToolsInv, Keeps
<1>3. CASE Active(u.m) /\ RetireMemory(u.m, "superseded", u.newId)
  <2>1. /\ memories' \in [Id -> Memory] /\ Keeps(memories, memories') /\ Succeeded(service, memories')
        /\ memories'[u.m].status = "superseded" /\ memories'[u.m].by = u.newId
    BY <1>3, RetiringFor
  <2>2. ASSUME NEW r \in {"replaced", "failed", "downranked"}, Answer(a, r) PROVE ToolsInv'
    <3>1. TellsSo(u, r, memories')
      BY <2>1 DEF TellsSo
    <3> QED BY <1>1, <2>1, <2>2, <3>1, AnswersInv DEF Results
  <2> QED BY <1>3, <2>2 DEF RetiresFor
<1>4. CASE memories' = memories
  <2>1. ASSUME NEW r \in {"failed", "downranked", "partial"}, Answer(a, r), r = "partial" => ~Active(u.m)
        PROVE  ToolsInv'
    <3>1. TellsSo(u, r, memories')
      BY <1>1, <1>4, <2>1 DEF TellsSo, Corrects, Active
    <3> QED BY <1>1, <1>2, <1>4, <2>1, <3>1, AnswersInv DEF Results
  <2>2. CASE RetiresFor(a)
    <3>1. CASE Active(u.m)
      BY <1>3, <2>2, <3>1 DEF RetiresFor
    <3>2. CASE ~Active(u.m)
      BY <2>1, <2>2, <3>2 DEF RetiresFor
    <3> QED BY <3>1, <3>2
  <2>3. CASE Active(u.m) /\ RetireMemory(u.m, "superseded", u.newId)
    BY <1>3, <2>3
  <2> QED BY <2>1, <2>2, <2>3
<1> QED BY <1>3, <1>4 DEF RetiresFor

\* A correction of the service: it has read the memory, and writes in one step or in two.
LEMMA CorrectsByRoute ==
  ASSUME ToolsInv, NEW a \in Agent, CorrectionReads(a) \/ CorrectionWrites(a)
  PROVE  ToolsInv'
<1> DEFINE u == uses[a]
           m == u.m
           t == u.t
<1>1. /\ u.tool = "supersede" /\ u.at \in Pending /\ ~u.stored
      /\ u \in ToolUses /\ m \in Id /\ t \in Wording
      /\ UseInv(u, service, memories) /\ service' = service
  BY DEF CorrectionReads, CorrectionWrites, Asking, ToolsInv, UseInv, Pending
<1>2. /\ memories \in [Id -> Memory] /\ Keeps(memories, memories) /\ Succeeded(service, memories)
      /\ service \in Routes /\ NoId \notin Id
  BY ToolsConstants DEF ToolsInv, Keeps
<1>3. ASSUME NEW r \in {"not_found", "identical", "raced"}, Answer(a, r), UNCHANGED memories,
             r = "raced" => memories[m].status \notin {"absent", "active"}
      PROVE  ToolsInv'
  <2>1. TellsSo(u, r, memories')
    BY <1>1, <1>3 DEF TellsSo
  <2> QED BY <1>1, <1>2, <1>3, <2>1, AnswersInv DEF Results
<1>4. CASE CorrectionReads(a)
  <2>1. CASE Active(m) /\ memories[m].text # t /\ Go(a, "write")
    <3>1. Corrects(u, service, memories)
      BY <2>1 DEF Corrects, Active
    <3> QED BY <1>1, <1>4, <2>1, <3>1, GoesInv DEF CorrectionReads
  <2> QED BY <1>3, <1>4, <2>1 DEF CorrectionReads
<1>5. ASSUME CorrectionWrites(a), ~(service.corrects = "transaction" /\ ~Active(m)) PROVE ToolsInv'
  <2>1. PICK id \in IF DuplicateOf(t) = {} THEN Free ELSE DuplicateOf(t) :
          /\ Replace(a, id)
          /\ uses' = [uses EXCEPT ![a].newId = id, ![a].stored = TRUE,
                ![a].at = IF service.corrects = "transaction" THEN "replied" ELSE "retire",
                ![a].result = IF service.corrects = "transaction" THEN "replaced" ELSE @]
    BY <1>5 DEF CorrectionWrites
  <2> DEFINE ms == IF id \in Free THEN Added(memories, t, id) ELSE memories
             ns == IF service.corrects = "transaction" THEN RetiredIn(ms, m, "superseded", id) ELSE ms
             v == IF service.corrects = "transaction" THEN Corrected(u, id) ELSE Ingested(u, id, "retire")
  <2>2. u.at = "write" /\ Corrects(u, service, memories) /\ memories[m].text # t
    <3>1. u.at = "write" /\ Corrects(u, service, memories)
      BY <1>1, <1>5 DEF CorrectionWrites, Asking, UseInv
    <3>2. service.corrects # "no"
      BY <1>1, <3>1 DEF UseInv
    <3> QED BY <3>1, <3>2 DEF Corrects, ToolsInv
  <2>3. id \in Id /\ id # m /\ (id \notin Free => memories[id].status = "active" /\ memories[id].text = t)
    BY <2>1, <2>2 DEF Free, DuplicateOf, Active, Corrects
  <2>4. memories' = ns
    BY <1>1, <1>2, <2>1, <2>3 DEF Replace, Added, RetiredIn
  <2>5. uses' = [uses EXCEPT ![a] = v]
    BY <2>1 DEF Corrected, Ingested, ToolsInv
  <2>6. /\ ms \in [Id -> Memory] /\ Keeps(memories, ms) /\ HeldAs(ms, id, t) /\ Succeeded(service, ms)
        /\ ms[m] = memories[m]
    <3>1. CASE id \in Free
      <4>1. ms = Added(memories, t, id) /\ memories[id].status = "absent"
        BY <3>1 DEF Free
      <4> HIDE DEF ms, t, m
      <4>2. t \in Wording /\ m \in Id
        BY <1>1 DEF t, m
      <4> QED BY <1>2, <2>3, <4>1, <4>2, NewMemory
    <3>2. CASE id \notin Free
      BY <1>2, <2>3, <3>2 DEF HeldAs
    <3> QED BY <3>1, <3>2
  <2>7. CASE service.corrects = "transaction"
    <3>1. v = Corrected(u, id) /\ ns = RetiredIn(ms, m, "superseded", id) /\ memories[m].status = "active"
      BY <1>5, <2>7 DEF Active
    <3>2. v = [tool |-> u.tool, m |-> u.m, t |-> u.t, newId |-> id,
               at |-> "replied", result |-> "replaced", stored |-> TRUE] /\ v \in ToolUses
      BY <1>1, <2>3, <3>1, CorrectedFields
    <3> HIDE DEF ms, ns, v
    <3>3. /\ ns \in [Id -> Memory] /\ Keeps(ms, ns) /\ Succeeded(service, ns)
          /\ ns[m].status = "superseded" /\ ns[m].by = id
      <4>1. ms[m].status = "active" /\ ms[id].status # "absent" /\ ms[id].text # ms[m].text
        BY <2>2, <2>6, <3>1 DEF HeldAs
      <4> HIDE DEF m, t
      <4>2. m \in Id
        BY <1>1 DEF m
      <4> QED BY <1>2, <2>3, <2>6, <3>1, <4>1, <4>2, RetiringKeeps
    <3>4. Keeps(memories, ns) /\ HeldAs(ns, id, t)
      BY <2>6, <3>3 DEF Keeps, HeldAs
    <3>5. Tells(v, ns) /\ HasStored(v, service, ns)
      BY <3>2, <3>3, <3>4 DEF Tells, HasStored
    <3>6. UseInv(v, service, ns)
      BY <1>1, <3>2, <3>5 DEF UseInv, Pending
    <3> QED BY <1>1, <2>4, <2>5, <3>3, <3>4, <3>6, UseMoves
  <2>8. CASE service.corrects # "transaction"
    <3>1. v = Ingested(u, id, "retire") /\ ns = ms
      BY <2>8
    <3>2. v = [tool |-> u.tool, m |-> u.m, t |-> u.t, newId |-> id,
               at |-> "retire", result |-> u.result, stored |-> TRUE] /\ v \in ToolUses
      BY <1>1, <2>3, <3>1, IngestedFields DEF Pending
    <3> HIDE DEF ms, ns, v
    <3>3. Corrects(v, service, ns) /\ HasStored(v, service, ns)
      BY <1>1, <2>2, <2>6, <3>1, <3>2 DEF Corrects, Keeps, HasStored
    <3>4. UseInv(v, service, ns)
      BY <1>1, <3>2, <3>3 DEF UseInv, Pending
    <3> QED BY <1>1, <2>4, <2>5, <2>6, <3>1, <3>4, UseMoves
  <2> QED BY <2>7, <2>8
<1>6. CASE CorrectionWrites(a) /\ service.corrects = "transaction" /\ ~Active(m)
  <2>1. Answer(a, "raced") /\ UNCHANGED memories
    BY <1>6 DEF CorrectionWrites
  <2>2. memories[m].status \notin {"absent", "active"}
    BY <1>1, <1>6 DEF CorrectionWrites, Asking, UseInv, Corrects, Active
  <2> QED BY <1>3, <2>1, <2>2
<1> QED BY <1>4, <1>5, <1>6

\* A correction over an older service: what it read, and what it stored, is still so.
LEMMA CorrectsByCalls ==
  ASSUME ToolsInv, NEW a \in Agent, LegacyRead(a) \/ LegacyIngest(a) \/ LegacyDownrank(a)
  PROVE  ToolsInv'
<1> DEFINE u == uses[a]
<1>1. /\ u.tool = "supersede" /\ u.m \in Id /\ u.t \in Wording /\ u \in ToolUses
      /\ UseInv(u, service, memories) /\ service' = service
  BY DEF LegacyRead, LegacyIngest, LegacyDownrank, Asking, ToolsInv, UseInv
<1>2. memories \in [Id -> Memory] /\ Keeps(memories, memories) /\ Succeeded(service, memories)
  BY DEF ToolsInv, Keeps
<1>3. CASE LegacyRead(a)
  <2>1. u.at = "first" /\ service.corrects = "no" /\ memories' = memories /\ ~u.stored
    BY <1>1, <1>3 DEF LegacyRead, Asking, UseInv
  <2>2. ASSUME NEW r \in {"not_found", "identical"}, Answer(a, r) PROVE ToolsInv'
    <3>1. TellsSo(u, r, memories')
      BY <2>1, <2>2 DEF TellsSo
    <3>2. r \in Results /\ u.at \in Pending
      BY <2>1 DEF Results, Pending
    <3> QED BY <1>1, <1>2, <2>1, <2>2, <3>1, <3>2, AnswersInv
  <2>3. CASE /\ Active(u.m) /\ ~(service.read /\ memories[u.m].text = u.t) /\ Go(a, "ingest")
    <3>1. Corrects(u, service, memories)
      BY <2>1, <2>3 DEF Corrects, Active
    <3> QED BY <1>1, <2>1, <2>3, <3>1, GoesInv DEF Pending
  <2> QED BY <1>3, <2>2, <2>3 DEF LegacyRead
<1>4. CASE LegacyIngest(a)
  <2>1. u.at = "ingest" /\ Corrects(u, service, memories) /\ service.corrects = "no"
    BY <1>1, <1>4 DEF LegacyIngest, Asking, UseInv
  <2>2. PICK id \in Id \cup {NoId} :
          /\ IngestAnswers(u.t, id)
          /\ uses' = [uses EXCEPT ![a].newId = id, ![a].stored = TRUE,
                                  ![a].at = IF service.read THEN "downrank" ELSE "retire"]
    BY <1>4 DEF LegacyIngest
  <2> DEFINE at == IF service.read THEN "downrank" ELSE "retire"
             v == Ingested(u, id, at)
  <2>3. /\ memories' \in [Id -> Memory] /\ Keeps(memories, memories') /\ Succeeded(service, memories')
        /\ ~service.extracts => HeldAs(memories', id, u.t)
    BY <1>1, <2>2, IngestingKeeps
  <2>4. uses' = [uses EXCEPT ![a] = v]
    BY <2>2 DEF Ingested, ToolsInv
  <2>5. at \in {"downrank", "retire"}
    OBVIOUS
  <2> HIDE DEF at
  <2>6. v = [tool |-> u.tool, m |-> u.m, t |-> u.t, newId |-> id,
             at |-> at, result |-> u.result, stored |-> TRUE] /\ v \in ToolUses
    BY <1>1, <2>5, IngestedFields DEF Pending
  <2> HIDE DEF v
  <2>7. Corrects(v, service, memories')
    BY <1>1, <2>1, <2>3, <2>6 DEF Corrects, Keeps
  <2>8. HasStored(v, service, memories')
    BY <2>1, <2>3, <2>6 DEF HasStored, StoresText
  <2>9. UseInv(v, service, memories')
    BY <1>1, <2>5, <2>6, <2>7, <2>8 DEF UseInv
  <2> QED BY <1>1, <2>3, <2>4, <2>9, UseMoves
<1>5. CASE LegacyDownrank(a)
  <2>1. /\ u.at = "downrank" /\ Corrects(u, service, memories) /\ u.stored
        /\ Go(a, "retire") /\ memories' = memories
    BY <1>1, <1>5 DEF LegacyDownrank, Asking, UseInv
  <2> QED BY <1>1, <2>1, GoesInv DEF Pending
<1> QED BY <1>3, <1>4, <1>5

\* A tool that forgets.
LEMMA ForgetsInv ==
  ASSUME ToolsInv, NEW a \in Agent, ForgetDownranks(a) \/ ForgetRetires(a)
  PROVE  ToolsInv'
<1> DEFINE u == uses[a]
<1>1. /\ u.tool = "forget" /\ u.m \in Id /\ u \in ToolUses /\ ~u.stored /\ u.at \in Pending
      /\ service' = service
  BY DEF ForgetDownranks, ForgetRetires, Asking, ToolsInv, UseInv, Pending
<1>2. /\ memories \in [Id -> Memory] /\ Keeps(memories, memories) /\ Succeeded(service, memories)
      /\ service \in Routes
  BY DEF ToolsInv, Keeps
<1>3. ASSUME NEW r \in {"downranked", "not_found"}, Answer(a, r), memories' = memories PROVE ToolsInv'
  <2>1. TellsSo(u, r, memories') /\ r \in Results
    BY <1>1, <1>3 DEF TellsSo, Results
  <2> QED BY <1>1, <1>2, <1>3, <2>1, AnswersInv
<1>4. CASE ForgetDownranks(a)
  <2>1. CASE Go(a, "retire")
    BY <1>1, <1>4, <2>1, GoesInv DEF ForgetDownranks
  <2> QED BY <1>3, <1>4, <2>1 DEF ForgetDownranks
<1>5. CASE ForgetRetires(a) /\ Active(u.m)
  <2> DEFINE ns == RetiredIn(memories, u.m, "archived", NoId)
  <2>1. memories' = ns /\ Answer(a, "forgotten")
    BY <1>5 DEF ForgetRetires, RetireMemory, RetiredIn
  <2>2. memories[u.m].status = "active"
    BY <1>5 DEF Active
  <2> HIDE DEF ns
  <2>3. /\ ns \in [Id -> Memory] /\ Keeps(memories, ns) /\ Succeeded(service, ns)
        /\ ns[u.m].status = "archived"
    BY <1>1, <1>2, <2>2, RetiringKeeps DEF ns
  <2>4. TellsSo(u, "forgotten", ns) /\ "forgotten" \in Results
    BY <2>3 DEF TellsSo, Results
  <2> QED BY <1>1, <2>1, <2>3, <2>4, AnswersInv
<1>6. CASE ForgetRetires(a) /\ ~Active(u.m)
  BY <1>3, <1>6 DEF ForgetRetires
<1> QED BY <1>4, <1>5, <1>6

\* Every step keeps to it.
LEMMA ToolsStep == ToolsInv /\ [ToolsNext]_toolVars => ToolsInv'
<1> SUFFICES ASSUME ToolsInv, [ToolsNext]_toolVars PROVE ToolsInv'
  OBVIOUS
<1>1. CASE Remember
  <2>1. PICK t \in Wording, id \in Id \cup {NoId} : IngestAnswers(t, id)
    BY <1>1 DEF Remember
  <2>2. memories' \in [Id -> Memory] /\ Keeps(memories, memories') /\ Succeeded(service, memories')
    BY <2>1, IngestingKeeps
  <2>3. service' = service /\ uses' = uses
    BY <1>1 DEF Remember
  <2>4. \A a \in Agent : UseInv(uses[a], service, memories')
    BY <2>2, UseKept DEF ToolsInv
  <2> QED BY <2>2, <2>3, <2>4 DEF ToolsInv
<1>2. CASE UNCHANGED toolVars
  BY <1>2 DEF toolVars, ToolsInv
<1>3. ASSUME NEW a \in Agent, SupersedeStarts(a) PROVE ToolsInv'
  BY <1>3, StartsInv DEF SupersedeStarts
<1>4. ASSUME NEW a \in Agent, ForgetStarts(a) PROVE ToolsInv'
  BY <1>4, StartsInv DEF ForgetStarts
<1>5. ASSUME NEW a \in Agent, CorrectionRetires(a) \/ LegacyRetire(a) PROVE ToolsInv'
  BY <1>5, RetiresInv DEF CorrectionRetires, LegacyRetire, Asking
<1> QED BY <1>1, <1>2, <1>3, <1>4, <1>5, ThrowsInv, CorrectsByRoute, CorrectsByCalls, ForgetsInv
      DEF ToolsNext

\* What a tool tells its agent is so, whatever the others' calls did between its own, over a
\* service of any age; and no correction retires a memory in favour of itself or of nothing.
THEOREM ToolsAreTruthful == ToolsSpec => []ToolsTellTruth
<1>1. ToolsInit => ToolsInv
  <2> SUFFICES ASSUME ToolsInit PROVE ToolsInv
    OBVIOUS
  <2> DEFINE w == Use("none", 1, "none")
             v == [w EXCEPT !.at = "unused"]
  <2>1. w = [tool |-> "none", m |-> 1, t |-> "none", newId |-> NoId, at |-> "first", result |-> "none",
             stored |-> FALSE]
    BY DEF Use
  <2>2. uses = [a \in Agent |-> v]
    BY DEF ToolsInit
  <2>3. v = [w EXCEPT !.at = "unused"]
    OBVIOUS
  <2> HIDE DEF w, v
  <2>4. v = [tool |-> "none", m |-> 1, t |-> "none", newId |-> NoId, at |-> "unused", result |-> "none",
             stored |-> FALSE]
    BY <2>1, <2>3
  <2>5. v \in ToolUses
    BY <2>4 DEF ToolUses
  <2>6. UseInv(v, service, memories)
    BY <2>4, <2>5 DEF UseInv, Pending
  <2>7. service \in Routes /\ (service.corrects # "no" => service.read /\ service.status)
    BY DEF ToolsInit, Routes
  <2>8. memories \in [Id -> Memory]
    <3>1. [status |-> "absent", text |-> "none", by |-> NoId] \in Memory
      BY DEF Memory, Statuses
    <3> QED BY <3>1 DEF ToolsInit
  <2>9. Succeeded(service, memories)
    BY DEF ToolsInit, Succeeded
  <2> QED BY <2>2, <2>6, <2>7, <2>8, <2>9 DEF ToolsInv
<1>2. ToolsInv => ToolsTellTruth
  <2> SUFFICES ASSUME ToolsInv PROVE ToolsTellTruth
    OBVIOUS
  <2>1. ASSUME NEW a \in Agent, uses[a].at = "replied"
        PROVE  LET u == uses[a]
                   old == memories[u.m]
               IN /\ u.result = "replaced" => old.status = "superseded" /\ old.by = u.newId
                  /\ u.result \in {"not_found", "identical", "raced"} => ~u.stored
                  /\ u.result = "forgotten" => old.status = "archived"
                  /\ u.result \in {"raced", "partial"} => old.status \in {"superseded", "archived"}
                  /\ u.stored /\ (service.corrects # "no" \/ ~service.extracts) =>
                       u.newId # NoId /\ memories[u.newId].text = u.t
    <3>1. /\ Tells(uses[a], memories) /\ uses[a].m \in Id
          /\ uses[a].stored => HasStored(uses[a], service, memories)
      BY <2>1 DEF ToolsInv, UseInv
    <3>2. memories[uses[a].m].status \in Statuses
      BY <3>1 DEF ToolsInv, Memory
    <3> QED BY <3>1, <3>2, ToolsConstants DEF Tells, HasStored, StoresText, HeldAs, Statuses
  <2>2. ASSUME service.corrects # "no" \/ (service.read /\ ~service.extracts), NEW m \in Id,
               memories[m].status = "superseded"
        PROVE  memories[m].by \notin {m, NoId} /\ memories[memories[m].by].text # memories[m].text
    BY <2>2, ToolsConstants DEF ToolsInv, Succeeded, ReadsText
  <2> QED BY <2>1, <2>2 DEF ToolsTellTruth
<1> QED BY <1>1, <1>2, ToolsStep, PTL DEF ToolsSpec

(***************************************************************************)
(* The breaker before the reranker.  A step moves one search, so the       *)
(* searches in a state grow or shrink by that one.                         *)
(***************************************************************************)
In(f, st) == {s \in Searcher : f[s].at = st}
InState(f, st) == Cardinality(In(f, st))

Counters ==
  [requests: Nat, attempts: Nat, successes: Nat, failures: Nat, fallbacks: Nat]

Balanced(st, f) ==
  /\ st.attempts = st.successes + st.failures + InState(f, "asked")
  /\ st.requests >= st.attempts + (st.fallbacks - st.failures) + InState(f, "found")
  /\ st.fallbacks >= st.failures

Cooling == disabledUntil = IF settled.by = "failure" THEN settled.at + Cooldown ELSE 0

BreakerInv ==
  /\ DOMAIN searching = Searcher /\ clock \in Nat /\ disabledUntil \in Nat
  /\ stats \in Counters
  /\ Cooling
  /\ Balanced(stats, searching)

Moved(f, s, r) == [f EXCEPT ![s] = r]

\* The searches in a state, when one of them moves to r.
LEMMA SearchMoves ==
  ASSUME IsFiniteSet(Searcher), NEW f, DOMAIN f = Searcher, NEW s \in Searcher, NEW r, NEW st
  PROVE  /\ InState(f, st) \in Nat /\ InState(Moved(f, s, r), st) \in Nat
         /\ InState(Moved(f, s, r), st) =
              IF (r.at = st) <=> (f[s].at = st) THEN InState(f, st)
              ELSE IF r.at = st THEN InState(f, st) + 1 ELSE InState(f, st) - 1
<1> DEFINE g == Moved(f, s, r)
<1>1. g[s] = r /\ \A x \in Searcher \ {s} : g[x] = f[x]
  BY DEF Moved
<1> HIDE DEF g
<1>2. IsFiniteSet(In(f, st)) /\ IsFiniteSet(In(g, st))
  BY FS_Subset DEF In
<1>3. InState(f, st) \in Nat /\ InState(g, st) \in Nat
  BY <1>2, FS_CardinalityType DEF InState
<1>4. CASE (r.at = st) <=> (f[s].at = st)
  <2>1. In(g, st) = In(f, st)
    BY <1>1, <1>4 DEF In
  <2> QED BY <1>3, <1>4, <2>1 DEF InState, g
<1>5. CASE r.at = st /\ f[s].at # st
  <2>1. In(g, st) = In(f, st) \cup {s} /\ s \notin In(f, st)
    BY <1>1, <1>5 DEF In
  <2>2. Cardinality(In(g, st)) = Cardinality(In(f, st)) + 1
    BY <1>2, <2>1, FS_AddElement
  <2> QED BY <1>3, <1>5, <2>2 DEF InState, g
<1>6. CASE r.at # st /\ f[s].at = st
  <2>1. In(g, st) = In(f, st) \ {s} /\ s \in In(f, st)
    BY <1>1, <1>6 DEF In
  <2>2. Cardinality(In(g, st)) = Cardinality(In(f, st)) - 1
    BY <1>2, <2>1, FS_RemoveElement
  <2> QED BY <1>3, <1>6, <2>2 DEF InState, g
<1> QED BY <1>4, <1>5, <1>6

Asks(st) == [st EXCEPT !.requests = @ + 1]
Attempts(st) == [st EXCEPT !.attempts = @ + 1]
Succeeds(st) == [st EXCEPT !.successes = @ + 1]
Skips(st) == [st EXCEPT !.requests = @ + 1, !.fallbacks = @ + 1]
FallsBack(st) == [st EXCEPT !.failures = @ + 1, !.fallbacks = @ + 1]

\* One more request.
LEMMA RaisesAsks ==
  ASSUME NEW st \in Counters
  PROVE  LET v == Asks(st) IN
         /\ v \in Counters /\ v.requests = st.requests + 1
         /\ v.attempts = st.attempts /\ v.successes = st.successes
         /\ v.failures = st.failures /\ v.fallbacks = st.fallbacks
<1> DEFINE v == Asks(st)
<1>1. v = [st EXCEPT !.requests = @ + 1]
  BY DEF Asks
<1> HIDE DEF v
<1>2. v = [requests |-> st.requests + 1, attempts |-> st.attempts, successes |-> st.successes,
           failures |-> st.failures, fallbacks |-> st.fallbacks]
  BY <1>1 DEF Counters
<1> QED BY <1>2 DEF Counters, v

\* One more attempt.
LEMMA RaisesAttempts ==
  ASSUME NEW st \in Counters
  PROVE  LET v == Attempts(st) IN
         /\ v \in Counters /\ v.requests = st.requests
         /\ v.attempts = st.attempts + 1 /\ v.successes = st.successes
         /\ v.failures = st.failures /\ v.fallbacks = st.fallbacks
<1> DEFINE v == Attempts(st)
<1>1. v = [st EXCEPT !.attempts = @ + 1]
  BY DEF Attempts
<1> HIDE DEF v
<1>2. v = [requests |-> st.requests, attempts |-> st.attempts + 1, successes |-> st.successes,
           failures |-> st.failures, fallbacks |-> st.fallbacks]
  BY <1>1 DEF Counters
<1> QED BY <1>2 DEF Counters, v

\* One more success.
LEMMA RaisesSucceeds ==
  ASSUME NEW st \in Counters
  PROVE  LET v == Succeeds(st) IN
         /\ v \in Counters /\ v.requests = st.requests
         /\ v.attempts = st.attempts /\ v.successes = st.successes + 1
         /\ v.failures = st.failures /\ v.fallbacks = st.fallbacks
<1> DEFINE v == Succeeds(st)
<1>1. v = [st EXCEPT !.successes = @ + 1]
  BY DEF Succeeds
<1> HIDE DEF v
<1>2. v = [requests |-> st.requests, attempts |-> st.attempts, successes |-> st.successes + 1,
           failures |-> st.failures, fallbacks |-> st.fallbacks]
  BY <1>1 DEF Counters
<1> QED BY <1>2 DEF Counters, v

\* One more request that falls back.
LEMMA RaisesSkips ==
  ASSUME NEW st \in Counters
  PROVE  LET v == Skips(st) IN
         /\ v \in Counters /\ v.requests = st.requests + 1
         /\ v.attempts = st.attempts /\ v.successes = st.successes
         /\ v.failures = st.failures /\ v.fallbacks = st.fallbacks + 1
<1> DEFINE v == Skips(st)
<1>1. v = [st EXCEPT !.requests = @ + 1, !.fallbacks = @ + 1]
  BY DEF Skips
<1> HIDE DEF v
<1>2. v = [requests |-> st.requests + 1, attempts |-> st.attempts, successes |-> st.successes,
           failures |-> st.failures, fallbacks |-> st.fallbacks + 1]
  BY <1>1 DEF Counters
<1> QED BY <1>2 DEF Counters, v

\* One more failure, which falls back.
LEMMA RaisesFallsBack ==
  ASSUME NEW st \in Counters
  PROVE  LET v == FallsBack(st) IN
         /\ v \in Counters /\ v.requests = st.requests
         /\ v.attempts = st.attempts /\ v.successes = st.successes
         /\ v.failures = st.failures + 1 /\ v.fallbacks = st.fallbacks + 1
<1> DEFINE v == FallsBack(st)
<1>1. v = [st EXCEPT !.failures = @ + 1, !.fallbacks = @ + 1]
  BY DEF FallsBack
<1> HIDE DEF v
<1>2. v = [requests |-> st.requests, attempts |-> st.attempts, successes |-> st.successes,
           failures |-> st.failures + 1, fallbacks |-> st.fallbacks + 1]
  BY <1>1 DEF Counters
<1> QED BY <1>2 DEF Counters, v

\* What remains to be shown of a step that moves search s to r.
LEMMA BreakerMoves ==
  ASSUME BreakerInv, NEW s \in Searcher, NEW r, NEW c \in Counters,
         searching' = Moved(searching, s, r), stats' = c, Balanced(c, Moved(searching, s, r)),
         disabledUntil' \in Nat, clock' = clock, Cooling'
  PROVE  BreakerInv'
<1> DEFINE g == Moved(searching, s, r)
<1>1. searching' = g /\ DOMAIN g = Searcher
  BY DEF Moved, BreakerInv
<1>2. Balanced(c, g)
  OBVIOUS
<1> HIDE DEF g
<1> QED BY <1>1, <1>2 DEF BreakerInv, Balanced, InState, In

\* Every step keeps the breaker's books.
LEMMA BreakerStep ==
  ASSUME IsFiniteSet(Searcher), BreakerInv, [BreakerNext]_breakerVars
  PROVE  BreakerInv'
<1>0. /\ clock \in Nat /\ disabledUntil \in Nat /\ stats \in Counters /\ Cooling
      /\ Balanced(stats, searching) /\ DOMAIN searching = Searcher /\ Cooldown \in Nat
  BY BreakerConstants DEF BreakerInv
<1>1. /\ stats.requests \in Nat /\ stats.attempts \in Nat /\ stats.successes \in Nat
      /\ stats.failures \in Nat /\ stats.fallbacks \in Nat
  BY <1>0 DEF Counters
<1>2. CASE ClockTicks \/ UNCHANGED breakerVars
  <2>1. /\ searching' = searching /\ stats' = stats /\ disabledUntil' = disabledUntil
        /\ settled' = settled /\ clock' \in Nat
    BY <1>0, <1>2 DEF ClockTicks, breakerVars
  <2>2. Balanced(stats, searching)'
    BY <1>0, <2>1 DEF Balanced, InState, In
  <2> QED BY <1>0, <2>1, <2>2 DEF BreakerInv, Cooling
<1>3. ASSUME NEW s \in Searcher, SearchSkips(s) PROVE BreakerInv'
  <2>1. PICK ranked \in Rankings, min \in MinScores :
          searching' = [searching EXCEPT ![s] = 
            [at |-> "plain", from |-> ranked, min |-> min,
             answer |-> ProviderSearch(ranked, TopK, min)]]
    BY <1>3 DEF SearchSkips
  <2> DEFINE r == [at |-> "plain", from |-> ranked, min |-> min,
                   answer |-> ProviderSearch(ranked, TopK, min)]
             g == Moved(searching, s, r)
             c == Skips(stats)
  <2>2. r.at = "plain" /\ searching[s].at # "asked" /\ searching' = g
    BY <1>3, <2>1, <1>0 DEF SearchSkips, Moved, Idle
  <2>3. stats' = c
    BY <1>3 DEF SearchSkips, Skips
  <2>4. clock' = clock /\ Cooling' /\ disabledUntil' \in Nat
    BY <1>0, <1>3 DEF SearchSkips, Cooling
  <2> HIDE DEF r
  <2>5. /\ InState(searching, "asked") \in Nat /\ InState(searching, "found") \in Nat
        /\ InState(g, "asked") = InState(searching, "asked") 
        /\ InState(g, "found") <= InState(searching, "found")
        /\ InState(g, "found") \in Nat
    <3>1. \A st : /\ InState(searching, st) \in Nat /\ InState(g, st) \in Nat
                  /\ InState(g, st) =
                       IF (r.at = st) <=> (searching[s].at = st) THEN InState(searching, st)
                       ELSE IF r.at = st THEN InState(searching, st) + 1 ELSE InState(searching, st) - 1
      BY <1>0, SearchMoves
    <3> HIDE DEF g
    <3> QED BY <2>2, <3>1
  <2> HIDE DEF g
  <2>6. c \in Counters /\ Balanced(c, g)
    BY <1>0, <1>1, <2>5, RaisesSkips DEF Balanced
  <2> HIDE DEF c
  <2> QED BY <2>2, <2>3, <2>4, <2>6, BreakerMoves DEF g
<1>4. ASSUME NEW s \in Searcher, SearchStarts(s) PROVE BreakerInv'
  <2>1. PICK ranked \in Rankings, min \in MinScores :
          searching' = [searching EXCEPT ![s] = 
            [at |-> "found", from |-> ranked, min |-> min]]
    BY <1>4 DEF SearchStarts
  <2> DEFINE r == [at |-> "found", from |-> ranked, min |-> min]
             g == Moved(searching, s, r)
             c == Asks(stats)
  <2>2. r.at = "found" /\ searching[s].at \notin {"found", "asked"} /\ searching' = g
    BY <1>4, <2>1, <1>0 DEF SearchStarts, Moved, Idle
  <2>3. stats' = c
    BY <1>4 DEF SearchStarts, Asks, Count
  <2>4. clock' = clock /\ Cooling' /\ disabledUntil' \in Nat
    BY <1>0, <1>4 DEF SearchStarts, Cooling
  <2> HIDE DEF r
  <2>5. /\ InState(searching, "asked") \in Nat /\ InState(searching, "found") \in Nat
        /\ InState(g, "asked") = InState(searching, "asked") 
        /\ InState(g, "found") = InState(searching, "found") + 1
    <3>1. \A st : /\ InState(searching, st) \in Nat /\ InState(g, st) \in Nat
                  /\ InState(g, st) =
                       IF (r.at = st) <=> (searching[s].at = st) THEN InState(searching, st)
                       ELSE IF r.at = st THEN InState(searching, st) + 1 ELSE InState(searching, st) - 1
      BY <1>0, SearchMoves
    <3> HIDE DEF g
    <3> QED BY <2>2, <3>1
  <2> HIDE DEF g
  <2>6. c \in Counters /\ Balanced(c, g)
    BY <1>0, <1>1, <2>5, RaisesAsks DEF Balanced
  <2> HIDE DEF c
  <2> QED BY <2>2, <2>3, <2>4, <2>6, BreakerMoves DEF g
<1>5. ASSUME NEW s \in Searcher, SearchFindsNothing(s) PROVE BreakerInv'
  <2> DEFINE r == Idle
             g == Moved(searching, s, r)
             c == stats
  <2>2. r.at = "idle" /\ searching[s].at = "found" /\ searching' = g
    BY <1>5, <1>0 DEF SearchFindsNothing, Moved, Idle
  <2>3. stats' = c
    BY <1>5 DEF SearchFindsNothing
  <2>4. clock' = clock /\ Cooling' /\ disabledUntil' \in Nat
    BY <1>0, <1>5 DEF SearchFindsNothing, Cooling
  <2> HIDE DEF r
  <2>5. /\ InState(searching, "asked") \in Nat /\ InState(searching, "found") \in Nat
        /\ InState(g, "asked") = InState(searching, "asked") 
        /\ InState(g, "found") = InState(searching, "found") - 1
    <3>1. \A st : /\ InState(searching, st) \in Nat /\ InState(g, st) \in Nat
                  /\ InState(g, st) =
                       IF (r.at = st) <=> (searching[s].at = st) THEN InState(searching, st)
                       ELSE IF r.at = st THEN InState(searching, st) + 1 ELSE InState(searching, st) - 1
      BY <1>0, SearchMoves
    <3> HIDE DEF g
    <3> QED BY <2>2, <3>1
  <2> HIDE DEF g
  <2>6. c \in Counters /\ Balanced(c, g)
    BY <1>0, <1>1, <2>5 DEF Balanced
  <2> HIDE DEF c
  <2> QED BY <2>2, <2>3, <2>4, <2>6, BreakerMoves DEF g
<1>6. ASSUME NEW s \in Searcher, ProviderFails(s) PROVE BreakerInv'
  <2> DEFINE r == Idle
             g == Moved(searching, s, r)
             c == stats
  <2>2. r.at = "idle" /\ searching[s].at = "found" /\ searching' = g
    BY <1>6, <1>0 DEF ProviderFails, Moved, Idle
  <2>3. stats' = c
    BY <1>6 DEF ProviderFails
  <2>4. clock' = clock /\ Cooling' /\ disabledUntil' \in Nat
    BY <1>0, <1>6 DEF ProviderFails, Cooling
  <2> HIDE DEF r
  <2>5. /\ InState(searching, "asked") \in Nat /\ InState(searching, "found") \in Nat
        /\ InState(g, "asked") = InState(searching, "asked") 
        /\ InState(g, "found") = InState(searching, "found") - 1
    <3>1. \A st : /\ InState(searching, st) \in Nat /\ InState(g, st) \in Nat
                  /\ InState(g, st) =
                       IF (r.at = st) <=> (searching[s].at = st) THEN InState(searching, st)
                       ELSE IF r.at = st THEN InState(searching, st) + 1 ELSE InState(searching, st) - 1
      BY <1>0, SearchMoves
    <3> HIDE DEF g
    <3> QED BY <2>2, <3>1
  <2> HIDE DEF g
  <2>6. c \in Counters /\ Balanced(c, g)
    BY <1>0, <1>1, <2>5 DEF Balanced
  <2> HIDE DEF c
  <2> QED BY <2>2, <2>3, <2>4, <2>6, BreakerMoves DEF g
<1>7. ASSUME NEW s \in Searcher, RerankStarts(s) PROVE BreakerInv'
  <2> DEFINE r == [searching[s] EXCEPT !.at = "asked"]
             g == Moved(searching, s, r)
             c == Attempts(stats)
  <2>2. r.at = "asked" /\ searching[s].at = "found" /\ searching' = g
    BY <1>7, <1>0 DEF RerankStarts, Moved, Idle
  <2>3. stats' = c
    BY <1>7 DEF RerankStarts, Attempts, Count
  <2>4. clock' = clock /\ Cooling' /\ disabledUntil' \in Nat
    BY <1>0, <1>7 DEF RerankStarts, Cooling
  <2> HIDE DEF r
  <2>5. /\ InState(searching, "asked") \in Nat /\ InState(searching, "found") \in Nat
        /\ InState(g, "asked") = InState(searching, "asked") + 1
        /\ InState(g, "found") = InState(searching, "found") - 1
    <3>1. \A st : /\ InState(searching, st) \in Nat /\ InState(g, st) \in Nat
                  /\ InState(g, st) =
                       IF (r.at = st) <=> (searching[s].at = st) THEN InState(searching, st)
                       ELSE IF r.at = st THEN InState(searching, st) + 1 ELSE InState(searching, st) - 1
      BY <1>0, SearchMoves
    <3> HIDE DEF g
    <3> QED BY <2>2, <3>1
  <2> HIDE DEF g
  <2>6. c \in Counters /\ Balanced(c, g)
    BY <1>0, <1>1, <2>5, RaisesAttempts DEF Balanced
  <2> HIDE DEF c
  <2> QED BY <2>2, <2>3, <2>4, <2>6, BreakerMoves DEF g
<1>8. ASSUME NEW s \in Searcher, NEW rows \in Rows, RerankAnswers(s, rows) PROVE BreakerInv'
  <2> DEFINE r == [at |-> "reranked", from |-> searching[s].from, rows |-> rows,
                   answer |-> Output(s, rows)]
             g == Moved(searching, s, r)
             c == Succeeds(stats)
  <2>2. r.at = "reranked" /\ searching[s].at = "asked" /\ searching' = g
    BY <1>8, <1>0 DEF RerankAnswers, Moved, Idle
  <2>3. stats' = c
    BY <1>8 DEF RerankAnswers, Succeeds, Count
  <2>4. clock' = clock /\ Cooling' /\ disabledUntil' \in Nat
    BY <1>0, <1>8 DEF RerankAnswers, Cooling
  <2> HIDE DEF r
  <2>5. /\ InState(searching, "asked") \in Nat /\ InState(searching, "found") \in Nat
        /\ InState(g, "asked") = InState(searching, "asked") - 1
        /\ InState(g, "found") = InState(searching, "found")
    <3>1. \A st : /\ InState(searching, st) \in Nat /\ InState(g, st) \in Nat
                  /\ InState(g, st) =
                       IF (r.at = st) <=> (searching[s].at = st) THEN InState(searching, st)
                       ELSE IF r.at = st THEN InState(searching, st) + 1 ELSE InState(searching, st) - 1
      BY <1>0, SearchMoves
    <3> HIDE DEF g
    <3> QED BY <2>2, <3>1
  <2> HIDE DEF g
  <2>6. c \in Counters /\ Balanced(c, g)
    BY <1>0, <1>1, <2>5, RaisesSucceeds DEF Balanced
  <2> HIDE DEF c
  <2> QED BY <2>2, <2>3, <2>4, <2>6, BreakerMoves DEF g
<1>9. ASSUME NEW s \in Searcher, RerankFails(s) PROVE BreakerInv'
  <2> DEFINE r == [at |-> "plain", from |-> searching[s].from, min |-> searching[s].min,
                   answer |-> Degraded(s)]
             g == Moved(searching, s, r)
             c == FallsBack(stats)
  <2>2. r.at = "plain" /\ searching[s].at = "asked" /\ searching' = g
    BY <1>9, <1>0 DEF RerankFails, Moved, Idle
  <2>3. stats' = c
    BY <1>9 DEF RerankFails, FallsBack
  <2>4. clock' = clock /\ Cooling' /\ disabledUntil' \in Nat
    BY <1>0, <1>9 DEF RerankFails, Cooling, CooldownFrom
  <2> HIDE DEF r
  <2>5. /\ InState(searching, "asked") \in Nat /\ InState(searching, "found") \in Nat
        /\ InState(g, "asked") = InState(searching, "asked") - 1
        /\ InState(g, "found") = InState(searching, "found")
    <3>1. \A st : /\ InState(searching, st) \in Nat /\ InState(g, st) \in Nat
                  /\ InState(g, st) =
                       IF (r.at = st) <=> (searching[s].at = st) THEN InState(searching, st)
                       ELSE IF r.at = st THEN InState(searching, st) + 1 ELSE InState(searching, st) - 1
      BY <1>0, SearchMoves
    <3> HIDE DEF g
    <3> QED BY <2>2, <3>1
  <2> HIDE DEF g
  <2>6. c \in Counters /\ Balanced(c, g)
    BY <1>0, <1>1, <2>5, RaisesFallsBack DEF Balanced
  <2> HIDE DEF c
  <2> QED BY <2>2, <2>3, <2>4, <2>6, BreakerMoves DEF g
<1> QED BY <1>2, <1>3, <1>4, <1>5, <1>6, <1>7, <1>8, <1>9 DEF BreakerNext

(***************************************************************************)
(* The limiter's bounds.  The Map's insertion order is one, so a full Map  *)
(* has a first key to evict; and the windows an identity was let through   *)
(* in do not overlap, each with at most the quota.                         *)
(***************************************************************************)
Chained(m) ==
  /\ m.older \subseteq Keys(m) \X Keys(m)
  /\ \A k \in Keys(m) : <<k, k>> \notin m.older
  /\ \A i, j, k \in Keys(m) : <<i, j>> \in m.older /\ <<j, k>> \in m.older => <<i, k>> \in m.older

MapInv(m) == Chained(m) /\ IsFiniteSet(Keys(m)) /\ Cardinality(Keys(m)) <= Capacity

OfWindow(A, s) == {a \in A : a.start = s}

\* What holds of what was admitted of an identity with bucket b, at time t.
Quota(A, b, t) ==
  /\ A \subseteq Admission /\ IsFiniteSet(A)
  /\ \A a \in A : /\ a.nth <= Cardinality(A)
                  /\ a.start <= a.at /\ a.at < a.start + Window
                  /\ Cardinality(OfWindow(A, a.start)) <= Limit
  /\ \A a, o \in A : a.start # o.start => a.start + Window <= o.start \/ o.start + Window <= a.start
  /\ b = Absent => \A a \in A : a.start + Window <= t
  /\ b # Absent =>
       /\ b \in Bucket /\ b.start <= t
       /\ \A a \in A : a.start = b.start \/ a.start + Window <= b.start
       /\ Cardinality(OfWindow(A, b.start)) <= b.count

QuotaInv ==
  /\ MapInv([held |-> buckets, older |-> older])
  /\ sinceSweep \in 0 .. SweepEvery - 1
  /\ evicted \subseteq Identity
  /\ admitted = [k \in Identity |-> admitted[k]]
  /\ \A id \in Identity : IF id \in evicted THEN admitted[id] = {}
                          ELSE Quota(admitted[id], buckets[id], now)

\* A finite set that is strictly ordered has a first element.
LEMMA FirstExists ==
  ASSUME NEW K, IsFiniteSet(K), K # {}, NEW R,
         \A k \in K : <<k, k>> \notin R,
         \A i, j, k \in K : <<i, j>> \in R /\ <<j, k>> \in R => <<i, k>> \in R
  PROVE  \E k \in K : \A j \in K : <<j, k>> \notin R
<1> DEFINE Smaller(k) == {j \in K : <<j, k>> \in R}
           S == {Cardinality(Smaller(k)) : k \in K}
<1>1. \A k \in K : IsFiniteSet(Smaller(k)) /\ Cardinality(Smaller(k)) \in Nat
  BY FS_Subset, FS_CardinalityType
<1>2. S \in SUBSET Nat /\ S # {}
  <2>1. PICK k \in K : TRUE
    OBVIOUS
  <2>2. Cardinality(Smaller(k)) \in S
    BY <2>1
  <2>3. \A n \in S : n \in Nat
    <3> HIDE DEF Smaller
    <3> QED BY <1>1
  <2> HIDE DEF S
  <2> QED BY <2>2, <2>3
<1>3. PICK n \in S : \A y \in S : n <= y
  <2> HIDE DEF S
  <2> QED BY <1>2, LeastExists
<1>4. PICK k \in K : n = Cardinality(Smaller(k))
  BY <1>3
<1>5. ASSUME NEW j \in K, <<j, k>> \in R PROVE FALSE
  <2>1. Smaller(j) \subseteq Smaller(k) /\ Smaller(j) # Smaller(k)
    BY <1>5
  <2>2. /\ Cardinality(Smaller(j)) <= Cardinality(Smaller(k))
        /\ Cardinality(Smaller(j)) # Cardinality(Smaller(k))
    <3> HIDE DEF Smaller
    <3> QED BY <1>1, <2>1, FS_Subset
  <2>3. Cardinality(Smaller(j)) \in S
    OBVIOUS
  <2> HIDE DEF Smaller, S
  <2> QED BY <1>1, <1>3, <1>4, <2>2, <2>3
<1> QED BY <1>5

\* Keys that are deleted leave the others in order.
LEMMA Deletes ==
  ASSUME NEW m, MapInv(m), NEW ids
  PROVE  MapInv(Delete(m, ids)) /\ Keys(Delete(m, ids)) = Keys(m) \ ids
<1> DEFINE d == Delete(m, ids)
<1>1. d.held = [id \in Identity |-> IF id \in ids THEN Absent ELSE m.held[id]]
  BY DEF Delete
<1>2. d.older = {p \in m.older : p[1] \notin ids /\ p[2] \notin ids}
  BY DEF Delete
<1> HIDE DEF d
<1>3. Keys(d) = Keys(m) \ ids
  BY <1>1 DEF Keys
<1>4. IsFiniteSet(Keys(d)) /\ Cardinality(Keys(d)) <= Capacity
  <2>1. Cardinality(Keys(m)) \in Nat /\ Cardinality(Keys(d)) \in Nat /\ IsFiniteSet(Keys(d))
        /\ Cardinality(Keys(d)) <= Cardinality(Keys(m))
    BY <1>3, FS_Subset, FS_CardinalityType DEF MapInv
  <2> QED BY <2>1, ConstantsAssumption DEF MapInv
<1>5. Chained(d)
  BY <1>2, <1>3 DEF MapInv, Chained
<1> QED BY <1>3, <1>4, <1>5 DEF MapInv, d

\* A key that is put leaves the others in order, and is the youngest if it is new.
LEMMA Puts ==
  ASSUME NEW m, MapInv(m), DOMAIN m.held = Identity, NEW id \in Identity, NEW b, b # Absent,
         m.held[id] = Absent => Cardinality(Keys(m)) < Capacity
  PROVE  MapInv(Put(m, id, b))
<1> DEFINE d == Put(m, id, b)
<1>1. d.held = [m.held EXCEPT ![id] = b]
  BY DEF Put
<1>2. d.older = IF m.held[id] = Absent THEN m.older \cup (Keys(m) \X {id}) ELSE m.older
  BY DEF Put
<1> HIDE DEF d
<1>3. Keys(d) = Keys(m) \cup {id}
  BY <1>1 DEF Keys
<1>4. m.held[id] = Absent <=> id \notin Keys(m)
  BY DEF Keys
<1>5. IsFiniteSet(Keys(d)) /\ Cardinality(Keys(d)) <= Capacity
  <2>1. Cardinality(Keys(m)) \in Nat
    BY FS_CardinalityType DEF MapInv
  <2>2. IsFiniteSet(Keys(d))
        /\ Cardinality(Keys(d)) = IF id \in Keys(m) THEN Cardinality(Keys(m)) ELSE Cardinality(Keys(m)) + 1
    BY <1>3, FS_AddElement DEF MapInv
  <2> QED BY <1>4, <2>1, <2>2, ConstantsAssumption DEF MapInv
<1>6. Chained(d)
  <2>1. CASE id \in Keys(m)
    BY <1>2, <1>3, <1>4, <2>1 DEF MapInv, Chained
  <2>2. CASE id \notin Keys(m)
    <3>1. d.older = m.older \cup (Keys(m) \X {id}) /\ Keys(d) = Keys(m) \cup {id}
      BY <1>2, <1>3, <1>4, <2>2
    <3>2. \A i, j : <<i, j>> \in d.older <=> <<i, j>> \in m.older \/ (i \in Keys(m) /\ j = id)
      BY <3>1
    <3>3. \A i, j : <<i, j>> \in m.older => i \in Keys(m) /\ j \in Keys(m)
      BY DEF MapInv, Chained
    <3>4. d.older \subseteq Keys(d) \X Keys(d)
      BY <3>1 DEF MapInv, Chained
    <3>5. \A k \in Keys(d) : <<k, k>> \notin d.older
      BY <2>2, <3>1, <3>2, <3>3 DEF MapInv, Chained
    <3>6. \A i, j, k \in Keys(d) : <<i, j>> \in d.older /\ <<j, k>> \in d.older => <<i, k>> \in d.older
      BY <2>2, <3>1, <3>2, <3>3 DEF MapInv, Chained
    <3> QED BY <3>4, <3>5, <3>6 DEF Chained
  <2> QED BY <2>1, <2>2
<1> QED BY <1>5, <1>6 DEF MapInv, d

\* Whoever opens a window, at the cost of the first key of a full Map, finds room.
LEMMA MakesRoom ==
  ASSUME NEW m, MapInv(m), NEW id \in Identity, m.held[id] = Absent
  PROVE  /\ Cardinality(Keys(Delete(m, Evicted(m, id)))) < Capacity
         /\ id \notin Evicted(m, id)
<1> DEFINE gone == Evicted(m, id)
           d == Delete(m, gone)
<1>0. Cardinality(Keys(m)) \in Nat /\ Capacity \in Nat \ {0} /\ IsFiniteSet(Keys(m))
  BY FS_CardinalityType, ConstantsAssumption DEF MapInv
<1>1. Keys(d) = Keys(m) \ gone
  BY Deletes
<1>2. gone \subseteq Keys(m) /\ id \notin Keys(m)
  BY DEF Evicted, First, Keys
<1>3. CASE Full(m)
  <2>1. Keys(m) # {}
    BY <1>0, <1>3, FS_EmptySet DEF Full
  <2>2. gone = First(m)
    BY <1>3 DEF Evicted
  <2>3. PICK k \in Keys(m) : \A j \in Keys(m) : <<j, k>> \notin m.older
    <3> DEFINE K == Keys(m)
               R == m.older
    <3>1. /\ IsFiniteSet(K) /\ K # {}
          /\ \A k \in K : <<k, k>> \notin R
          /\ \A i, j, k \in K : <<i, j>> \in R /\ <<j, k>> \in R => <<i, k>> \in R
      BY <1>0, <2>1 DEF MapInv, Chained
    <3> HIDE DEF K, R
    <3>2. \E k \in K : \A j \in K : <<j, k>> \notin R
      BY <3>1, FirstExists
    <3> QED BY <3>2 DEF K, R
  <2>4. k \in gone
    BY <2>2, <2>3 DEF First
  <2> HIDE DEF gone, d
  <2>5. Keys(d) \subseteq Keys(m) \ {k}
    BY <1>1, <2>4
  <2>6. IsFiniteSet(Keys(m) \ {k}) /\ Cardinality(Keys(m) \ {k}) = Cardinality(Keys(m)) - 1
    BY <1>0, FS_RemoveElement
  <2>7. Cardinality(Keys(d)) <= Cardinality(Keys(m)) - 1 /\ Cardinality(Keys(d)) \in Nat
    BY <2>5, <2>6, FS_Subset, FS_CardinalityType
  <2> QED BY <1>0, <1>2, <2>7 DEF MapInv, gone, d
<1>4. CASE ~Full(m)
  <2>1. gone = {}
    BY <1>4 DEF Evicted
  <2>2. Keys(d) = Keys(m)
    BY <1>1, <2>1
  <2> QED BY <1>0, <1>2, <1>4, <2>2 DEF Full
<1> QED BY <1>3, <1>4

Admitted(A, s, t) == [at |-> t, start |-> s, nth |-> Cardinality(A) + 1]
CountedOne(b) == [b EXCEPT !.count = @ + 1]

OneMore(A, s, t, new, B) ==
  /\ new \in Admission /\ new.at = t /\ new.start = s /\ new \notin A
  /\ B \subseteq Admission /\ IsFiniteSet(B)
  /\ Cardinality(A) \in Nat /\ Cardinality(B) = Cardinality(A) + 1
  /\ new.nth = Cardinality(B)
  /\ \A u : OfWindow(B, u) = IF u = s THEN OfWindow(A, u) \cup {new} ELSE OfWindow(A, u)
  /\ \A u : Cardinality(OfWindow(A, u)) \in Nat
  /\ Cardinality(OfWindow(B, s)) = Cardinality(OfWindow(A, s)) + 1

\* A request more of the window that began at s.
LEMMA AdmitsOne ==
  ASSUME NEW A, IsFiniteSet(A), A \subseteq Admission, \A a \in A : a.nth <= Cardinality(A),
         NEW s \in Time, NEW t \in Time
  PROVE  OneMore(A, s, t, Admitted(A, s, t), A \cup {Admitted(A, s, t)})
<1> DEFINE new == Admitted(A, s, t)
           B == A \cup {new}
<1>1. Cardinality(A) \in Nat
  BY FS_CardinalityType
<1>2. new.at = t /\ new.start = s /\ new.nth = Cardinality(A) + 1 /\ new \in Admission
  BY <1>1 DEF Admitted, Admission
<1> HIDE DEF new
<1>3. new \notin A
  BY <1>1, <1>2
<1>4. IsFiniteSet(B) /\ Cardinality(B) = Cardinality(A) + 1
  BY <1>3, FS_AddElement
<1>5. \A u : OfWindow(B, u) = IF u = s THEN OfWindow(A, u) \cup {new} ELSE OfWindow(A, u)
  BY <1>2 DEF OfWindow
<1>6. \A u : OfWindow(A, u) \subseteq A
  BY DEF OfWindow
<1>7. \A u : IsFiniteSet(OfWindow(A, u)) /\ Cardinality(OfWindow(A, u)) \in Nat
  BY <1>6, FS_Subset, FS_CardinalityType
<1>8. new \notin OfWindow(A, s)
  BY <1>3, <1>6
<1>9. Cardinality(OfWindow(B, s)) = Cardinality(OfWindow(A, s)) + 1
  <2>1. OfWindow(B, s) = OfWindow(A, s) \cup {new}
    BY <1>5
  <2> HIDE DEF B
  <2> QED BY <1>7, <1>8, <2>1, FS_AddElement
<1>10. B \subseteq Admission
  BY <1>2
<1>11. OneMore(A, s, t, new, B)
  BY <1>1, <1>2, <1>3, <1>4, <1>5, <1>7, <1>9, <1>10 DEF OneMore
<1> QED BY <1>11 DEF new

\* Time passes.
LEMMA QuotaLater ==
  ASSUME NEW A, NEW b, NEW t \in Nat, Quota(A, b, t)
  PROVE  Quota(A, b, t + 1)
<1>1. \A a \in A : a.start \in Nat
  BY DEF Quota, Admission, Time
<1>2. b # Absent => b.start \in Nat
  BY DEF Quota, Bucket, Time
<1> QED BY <1>1, <1>2, ConstantsAssumption DEF Quota

\* A bucket whose window is over may go.
LEMMA QuotaLapses ==
  ASSUME NEW A, NEW b, NEW t \in Nat, Quota(A, b, t), b # Absent, t - b.start >= Window
  PROVE  Quota(A, Absent, t)
<1>1. \A a \in A : a.start \in Nat
  BY DEF Quota, Admission, Time
<1>2. b.start \in Nat
  BY DEF Quota, Bucket, Time
<1>3. \A a \in A : a.start + Window <= t
  BY <1>1, <1>2, ConstantsAssumption DEF Quota
<1> QED BY <1>3 DEF Quota

\* A window is opened where none was, or where the last is over.
LEMMA QuotaOpens ==
  ASSUME NEW A, NEW b, NEW t \in Time, Quota(A, b, t),
         b # Absent => t - b.start >= Window
  PROVE  Quota(A \cup {Admitted(A, t, t)}, [start |-> t, count |-> 1], t)
<1> DEFINE new == Admitted(A, t, t)
           B == A \cup {new}
           c == [start |-> t, count |-> 1]
<1>0. t \in Nat
  BY DEF Time
<1>1. Quota(A, Absent, t)
  BY <1>0, QuotaLapses
<1>2. /\ new \in Admission /\ new.at = t /\ new.start = t /\ new \notin A
      /\ B \subseteq Admission /\ IsFiniteSet(B)
      /\ Cardinality(A) \in Nat /\ Cardinality(B) = Cardinality(A) + 1 /\ new.nth = Cardinality(B)
      /\ \A u : OfWindow(B, u) = IF u = t THEN OfWindow(A, u) \cup {new} ELSE OfWindow(A, u)
      /\ \A u : Cardinality(OfWindow(A, u)) \in Nat
      /\ Cardinality(OfWindow(B, t)) = Cardinality(OfWindow(A, t)) + 1
  <2>1. IsFiniteSet(A) /\ A \subseteq Admission /\ \A a \in A : a.nth <= Cardinality(A)
    BY DEF Quota
  <2>2. OneMore(A, t, t, new, B)
    BY <2>1, AdmitsOne
  <2> HIDE DEF new, B
  <2> QED BY <2>2 DEF OneMore
<1>3. c \in Bucket /\ c.start = t /\ c.count = 1 /\ c # Absent
  BY ConstantsAssumption DEF Bucket
<1> HIDE DEF new, c
<1>4. \A a \in A : /\ a.start \in Nat /\ a.start # t /\ a.start + Window <= t
                   /\ a.nth \in Nat /\ a.nth <= Cardinality(A)
                   /\ a.start <= a.at /\ a.at < a.start + Window
                   /\ Cardinality(OfWindow(A, a.start)) <= Limit
  BY <1>0, <1>1, ConstantsAssumption DEF Quota, Admission, Time
<1>5. OfWindow(A, t) = {}
  BY <1>4 DEF OfWindow
<1>6. Cardinality(OfWindow(B, t)) = 1
  BY <1>2, <1>5, FS_EmptySet
<1>7. \A a \in B : a = new \/ (a \in A /\ OfWindow(B, a.start) = OfWindow(A, a.start))
  BY <1>2, <1>4
<1>8. \A a \in B : /\ a.nth <= Cardinality(B)
                   /\ a.start <= a.at /\ a.at < a.start + Window
                   /\ Cardinality(OfWindow(B, a.start)) <= Limit
  <2> TAKE a \in B
  <2>1. CASE a = new
    BY <1>0, <1>2, <1>6, <2>1, ConstantsAssumption
  <2>2. CASE a \in A /\ OfWindow(B, a.start) = OfWindow(A, a.start)
    <3>1. a.nth <= Cardinality(B)
      BY <1>2, <1>4, <2>2
    <3> HIDE DEF B
    <3> QED BY <1>4, <2>2, <3>1
  <2> QED BY <1>7, <2>1, <2>2
<1>9. \A a, o \in B : a.start # o.start => a.start + Window <= o.start \/ o.start + Window <= a.start
  BY <1>1, <1>2, <1>4 DEF Quota
<1>10. \A a \in B : a.start = c.start \/ a.start + Window <= c.start
  BY <1>2, <1>3, <1>4
<1>11. Cardinality(OfWindow(B, c.start)) <= c.count /\ c.start <= t
  BY <1>0, <1>3, <1>6
<1>12. B \subseteq Admission /\ IsFiniteSet(B)
  BY <1>2
<1> HIDE DEF B
<1>13. Quota(B, c, t)
  BY <1>3, <1>8, <1>9, <1>10, <1>11, <1>12 DEF Quota
<1> QED BY <1>13 DEF new, c, B

\* A request is counted in the window it falls in.
LEMMA QuotaCounts ==
  ASSUME NEW A, NEW b, NEW t \in Time, Quota(A, b, t), b # Absent, t - b.start < Window
  PROVE  /\ Quota(A, CountedOne(b), t)
         /\ CountedOne(b).count <= Limit => Quota(A \cup {Admitted(A, b.start, t)}, CountedOne(b), t)
<1> DEFINE new == Admitted(A, b.start, t)
           B == A \cup {new}
           c == CountedOne(b)
<1>0. t \in Nat /\ b \in Bucket /\ b.start \in Nat /\ b.start \in Time /\ b.count \in Nat /\ b.start <= t
  BY DEF Time, Quota, Bucket
<1>1. c = [start |-> b.start, count |-> b.count + 1]
  BY <1>0 DEF CountedOne, Bucket
<1>2. c \in Bucket /\ c.start = b.start /\ c.count = b.count + 1 /\ c # Absent
  BY <1>0, <1>1, ConstantsAssumption DEF Bucket
<1>3. /\ new \in Admission /\ new.at = t /\ new.start = b.start /\ new \notin A
      /\ B \subseteq Admission /\ IsFiniteSet(B)
      /\ Cardinality(A) \in Nat /\ Cardinality(B) = Cardinality(A) + 1 /\ new.nth = Cardinality(B)
      /\ \A u : OfWindow(B, u) = IF u = b.start THEN OfWindow(A, u) \cup {new} ELSE OfWindow(A, u)
      /\ \A u : Cardinality(OfWindow(A, u)) \in Nat
      /\ Cardinality(OfWindow(B, b.start)) = Cardinality(OfWindow(A, b.start)) + 1
  <2>1. IsFiniteSet(A) /\ A \subseteq Admission /\ \A a \in A : a.nth <= Cardinality(A)
    BY DEF Quota
  <2>2. OneMore(A, b.start, t, new, B)
    BY <1>0, <2>1, AdmitsOne
  <2> HIDE DEF new, B
  <2> QED BY <2>2 DEF OneMore
<1> HIDE DEF new, c
<1>4. \A a \in A : /\ a.start \in Nat /\ a.nth \in Nat /\ a.nth <= Cardinality(A)
                   /\ a.start <= a.at /\ a.at < a.start + Window
                   /\ Cardinality(OfWindow(A, a.start)) <= Limit
                   /\ a.start = b.start \/ a.start + Window <= b.start
  BY DEF Quota, Admission, Time
<1>5. Cardinality(OfWindow(A, b.start)) <= b.count
  BY DEF Quota
<1>6. Quota(A, c, t)
  BY <1>0, <1>2, <1>3, <1>5 DEF Quota
<1>7. ASSUME c.count <= Limit PROVE Quota(B, c, t)
  <2>1. Cardinality(OfWindow(B, b.start)) <= c.count /\ Cardinality(OfWindow(B, b.start)) <= Limit
    BY <1>0, <1>2, <1>3, <1>5, <1>7, ConstantsAssumption
  <2>2. \A a \in B : a.start = b.start \/ (a \in A /\ OfWindow(B, a.start) = OfWindow(A, a.start))
    BY <1>3
  <2>3. \A a \in B : a.start = b.start \/ a.start + Window <= b.start
    BY <1>3, <1>4
  <2>4. \A a \in B : a.start <= a.at /\ a.at < a.start + Window /\ a.nth <= Cardinality(B)
    <3> TAKE a \in B
    <3>1. CASE a = new
      BY <1>0, <1>3, <3>1, ConstantsAssumption
    <3>2. CASE a \in A
      BY <1>3, <1>4, <3>2
    <3> QED BY <3>1, <3>2
  <2>5. \A a, o \in B : a.start # o.start => a.start + Window <= o.start \/ o.start + Window <= a.start
    <3> TAKE a, o \in B
    <3>1. CASE a \in A /\ o \in A
      BY <3>1 DEF Quota
    <3>2. CASE a = new \/ o = new
      BY <1>3, <2>3, <3>2
    <3> QED BY <3>1, <3>2
  <2> HIDE DEF B
  <2>6. \A a \in B : Cardinality(OfWindow(B, a.start)) <= Limit
    <3> TAKE a \in B
    <3>1. CASE a.start = b.start
      BY <2>1, <3>1
    <3>2. CASE a \in A /\ OfWindow(B, a.start) = OfWindow(A, a.start)
      BY <1>4, <3>2
    <3> QED BY <2>2, <3>1, <3>2
  <2> QED BY <1>0, <1>2, <1>3, <2>1, <2>3, <2>4, <2>5, <2>6 DEF Quota
<1> QED BY <1>6, <1>7 DEF new, c, B

\* Of windows that do not overlap a stretch of one window meets two.
LEMMA TwoWindows ==
  ASSUME NEW A, NEW b, NEW u, Quota(A, b, u), NEW t \in Time
  PROVE  Cardinality({a \in A : t <= a.at /\ a.at < t + Window}) <= 2 * Limit
<1> DEFINE X == {a \in A : t <= a.at /\ a.at < t + Window}
<1>0. Window \in Nat /\ Limit \in Nat /\ t \in Nat
  BY ConstantsAssumption DEF Time
<1>1. \A a \in A : /\ a.start \in Nat /\ a.at \in Nat /\ a.start <= a.at /\ a.at < a.start + Window
                   /\ Cardinality(OfWindow(A, a.start)) <= Limit
  BY DEF Quota, Admission, Time
<1>2. \A a, o \in A : a.start # o.start => a.start + Window <= o.start \/ o.start + Window <= a.start
  BY DEF Quota
<1>3. IsFiniteSet(A) /\ X \subseteq A
  BY DEF Quota
<1>4. \A a : IsFiniteSet(OfWindow(A, a)) /\ Cardinality(OfWindow(A, a)) \in Nat
  <2>1. \A a : OfWindow(A, a) \subseteq A
    BY DEF OfWindow
  <2> QED BY <1>3, <2>1, FS_Subset, FS_CardinalityType
<1>5. IsFiniteSet(X) /\ Cardinality(X) \in Nat
  <2> HIDE DEF X
  <2> QED BY <1>3, FS_Subset, FS_CardinalityType
<1>6. CASE X = {}
  <2> HIDE DEF X
  <2>1. Cardinality(X) = 0
    BY <1>6, FS_EmptySet
  <2> QED BY <1>0, <2>1 DEF X
<1>7. ASSUME NEW a \in X, \A o \in X : o.start = a.start PROVE Cardinality(X) <= 2 * Limit
  <2>1. X \subseteq OfWindow(A, a.start) /\ a \in A
    BY <1>7 DEF OfWindow
  <2> HIDE DEF X
  <2>2. Cardinality(X) <= Cardinality(OfWindow(A, a.start))
    BY <1>4, <2>1, FS_Subset
  <2> QED BY <1>0, <1>1, <1>4, <1>5, <2>1, <2>2
<1>8. ASSUME NEW a \in X, NEW o \in X, o.start # a.start PROVE Cardinality(X) <= 2 * Limit
  <2>1. \A x \in X : x.start = a.start \/ x.start = o.start
    BY <1>0, <1>1, <1>2, <1>8
  <2> DEFINE P == OfWindow(A, a.start)
             Q == OfWindow(A, o.start)
  <2>2. X \subseteq P \cup Q /\ a \in A /\ o \in A
    BY <2>1 DEF OfWindow
  <2>3. /\ IsFiniteSet(P) /\ IsFiniteSet(Q) /\ Cardinality(P) \in Nat /\ Cardinality(Q) \in Nat
        /\ Cardinality(P) <= Limit /\ Cardinality(Q) <= Limit
    BY <1>1, <1>4, <2>2
  <2> HIDE DEF X, P, Q
  <2>4. /\ IsFiniteSet(P \cup Q)
        /\ Cardinality(P \cup Q) = Cardinality(P) + Cardinality(Q) - Cardinality(P \cap Q)
    BY <2>3, FS_Union
  <2>5. IsFiniteSet(P \cap Q) /\ Cardinality(P \cap Q) \in Nat
    BY <2>3, FS_Intersection, FS_CardinalityType
  <2>6. Cardinality(X) <= Cardinality(P \cup Q)
    BY <2>2, <2>4, FS_Subset
  <2> QED BY <1>0, <1>5, <2>3, <2>4, <2>5, <2>6
<1>9. X = {} \/ (\E a \in X : \A o \in X : o.start = a.start)
      \/ (\E a, o \in X : o.start # a.start)
  OBVIOUS
<1> HIDE DEF X
<1>10. Cardinality(X) <= 2 * Limit
  BY <1>6, <1>7, <1>8, <1>9 DEF X
<1> QED BY <1>10 DEF X

TheMap == [held |-> buckets, older |-> older]

\* What the sweep leaves is in order, and only buckets whose window is over are gone.
LEMMA SweptMap ==
  ASSUME LimiterInv, QuotaInv
  PROVE  /\ MapInv(Swept) /\ DOMAIN Swept.held = Identity
         /\ \A k \in Identity :
              \/ Swept.held[k] = buckets[k]
              \/ Swept.held[k] = Absent /\ buckets[k] # Absent /\ now - buckets[k].start >= Window
<1>0. DOMAIN buckets = Identity
  BY DEF LimiterInv, Slots
<1>1. CASE Swept = TheMap
  BY <1>0, <1>1 DEF QuotaInv, TheMap
<1>2. CASE Swept = Sweep(TheMap)
  <2> DEFINE gone == {id \in Identity : TheMap.held[id] # Absent /\ Stale(TheMap.held[id])}
             d == Delete(TheMap, gone)
  <2>1. Swept = d
    BY <1>2 DEF Sweep
  <2>2. d.held = [id \in Identity |-> IF id \in gone THEN Absent ELSE buckets[id]]
    BY DEF Delete, TheMap
  <2>3. \A id \in gone : buckets[id] # Absent /\ now - buckets[id].start >= Window
    BY DEF TheMap, Stale
  <2> HIDE DEF gone
  <2>4. MapInv(d)
    BY Deletes DEF QuotaInv, TheMap
  <2> HIDE DEF d
  <2> QED BY <2>1, <2>2, <2>3, <2>4
<1> QED BY <1>1, <1>2 DEF Swept, TheMap

\* What holds of an identity's quota, when its bucket stays or is swept.
LEMMA QuotaStays ==
  ASSUME LimiterInv, QuotaInv, NEW k \in Identity, k \notin evicted
  PROVE  Quota(admitted[k], Swept.held[k], now)
<1>1. Quota(admitted[k], buckets[k], now)
  BY DEF QuotaInv
<1>2. now \in Nat
  BY DEF LimiterInv, Time
<1> QED BY <1>1, <1>2, SweptMap, QuotaLapses

\* What remains to be shown of a request.
LEMMA QuotaMoves ==
  ASSUME QuotaInv, NEW m, m = [held |-> m.held, older |-> m.older], MapIs(m), MapInv(m),
         sinceSweep' = Counted(sinceSweep), now' = now, evicted' \subseteq Identity,
         admitted' = [k \in Identity |-> admitted'[k]],
         \A k \in Identity : IF k \in evicted' THEN admitted'[k] = {}
                             ELSE Quota(admitted'[k], buckets'[k], now)
  PROVE  QuotaInv'
<1>1. [held |-> buckets', older |-> older'] = m
  BY DEF MapIs
<1>2. sinceSweep' \in 0 .. SweepEvery - 1
  <2>1. sinceSweep + 1 \in Nat /\ SweepEvery \in Nat \ {0}
    BY ConstantsAssumption DEF QuotaInv
  <2> HIDE DEF QuotaInv
  <2>2. (sinceSweep + 1) % SweepEvery \in 0 .. SweepEvery - 1
    BY <2>1
  <2> QED BY <2>2 DEF Counted
<1>3. MapInv([held |-> buckets, older |-> older])'
  BY <1>1 DEF MapInv, Chained, Keys
<1> QED BY <1>2, <1>3 DEF QuotaInv

\* A window is opened within the bounds.
LEMMA OpensWithin ==
  ASSUME LimiterInv, QuotaInv, NEW id \in Identity, OpenWindow(id),
         sinceSweep' = Counted(sinceSweep), now' = now
  PROVE  QuotaInv'
<1> DEFINE m == Swept
           gone == Evicted(m, id)
           d == Delete(m, gone)
           b == [start |-> now, count |-> 1]
           p == Put(d, id, b)
<1>1. MapInv(m) /\ DOMAIN m.held = Identity /\ gone \subseteq Identity /\ evicted \subseteq Identity
      /\ now \in Time
  BY SweptMap DEF Evicted, First, Keys, QuotaInv, LimiterInv
<1>2. /\ MapIs(p) /\ evicted' = evicted \cup gone
      /\ admitted' = [k \in Identity |->
           IF k \in evicted' THEN {}
           ELSE IF k = id
           THEN admitted[k] \cup {[at |-> now, start |-> buckets'[k].start,
                                   nth |-> Cardinality(admitted[k]) + 1]}
           ELSE admitted[k]]
      /\ m.held[id] # Absent => now - m.held[id].start >= Window
  BY DEF OpenWindow, Admit, Opens, Stale
<1>3. /\ d.held = [k \in Identity |-> IF k \in gone THEN Absent ELSE m.held[k]]
      /\ p.held = [d.held EXCEPT ![id] = b]
      /\ p = [held |-> p.held, older |-> p.older]
  BY DEF Delete, Put
<1>4. MapInv(d) /\ Keys(d) = Keys(m) \ gone
  <2> HIDE DEF m, gone
  <2> QED BY <1>1, Deletes
<1>5. m.held[id] = Absent => Cardinality(Keys(d)) < Capacity /\ id \notin gone
  <2> HIDE DEF m
  <2> QED BY <1>1, MakesRoom
<1>6. m.held[id] # Absent => gone = {}
  BY DEF Evicted
<1>7. b # Absent /\ b.start = now
  BY <1>1, ConstantsAssumption DEF Bucket
<1> HIDE DEF m, gone, d, b
<1>8. MapInv(p)
  <2>1. DOMAIN d.held = Identity /\ (d.held[id] = Absent => Cardinality(Keys(d)) < Capacity)
    BY <1>3, <1>5, <1>6
  <2> QED BY <1>4, <1>7, <2>1, Puts
<1> HIDE DEF p
<1>9. ASSUME NEW k \in Identity, k \notin evicted'
      PROVE  Quota(admitted'[k], buckets'[k], now)
  <2>1. k \notin evicted /\ k \notin gone
    BY <1>2, <1>9
  <2>2. Quota(admitted[k], m.held[k], now)
    BY <2>1, QuotaStays DEF m
  <2>3. CASE k = id
    <3>1. buckets'[k] = b
      BY <1>2, <1>3, <2>3 DEF MapIs
    <3>2. admitted'[k] = admitted[k] \cup {Admitted(admitted[k], now, now)}
      BY <1>2, <1>7, <1>9, <2>3, <3>1 DEF Admitted
    <3> QED BY <1>1, <1>2, <2>2, <2>3, <3>1, <3>2, QuotaOpens DEF b
  <2>4. CASE k # id
    BY <1>2, <1>3, <1>9, <2>1, <2>2, <2>4 DEF MapIs
  <2> QED BY <2>3, <2>4
<1>10. \A k \in evicted' : admitted'[k] = {}
  BY <1>1, <1>2
<1>11. admitted' = [k \in Identity |-> admitted'[k]] /\ evicted' \subseteq Identity
  BY <1>1, <1>2
<1> QED BY <1>2, <1>3, <1>8, <1>9, <1>10, <1>11, QuotaMoves

\* A request is counted within the bounds.
LEMMA CountsWithin ==
  ASSUME LimiterInv, QuotaInv, NEW id \in Identity, CountRequest(id),
         sinceSweep' = Counted(sinceSweep), now' = now
  PROVE  QuotaInv'
<1> DEFINE m == Swept
           c == CountedOne(m.held[id])
           p == Put(m, id, c)
<1>1. MapInv(m) /\ DOMAIN m.held = Identity /\ evicted' = evicted /\ evicted \subseteq Identity
      /\ now \in Time /\ m.held \in Slots /\ admitted = [k \in Identity |-> admitted[k]]
  BY SweptMap, SweptHeld DEF QuotaInv, LimiterInv, CountRequest
<1>2. /\ MapIs(p) /\ m.held[id] # Absent /\ ~(now - m.held[id].start >= Window)
      /\ \/ c.count > Limit /\ admitted' = admitted
         \/ /\ ~(c.count > Limit)
            /\ admitted' = [k \in Identity |->
                 IF k \in evicted' THEN {}
                 ELSE IF k = id
                 THEN admitted[k] \cup {[at |-> now, start |-> buckets'[k].start,
                                         nth |-> Cardinality(admitted[k]) + 1]}
                 ELSE admitted[k]]
  BY DEF CountRequest, Admit, Refuse, Opens, Stale, CountedOne
<1>3. p.held = [m.held EXCEPT ![id] = c] /\ p = [held |-> p.held, older |-> p.older]
  BY DEF Put
<1> HIDE DEF m
<1>4. m.held[id] \in Bucket
  BY <1>1, <1>2 DEF Slots
<1>5. c = [start |-> m.held[id].start, count |-> m.held[id].count + 1]
  BY <1>4 DEF CountedOne, Bucket
<1>6. c \in Bucket /\ c # Absent /\ c.start = m.held[id].start /\ c.count \in Nat
  BY <1>4, <1>5, ConstantsAssumption DEF Bucket
<1> HIDE DEF c
<1>7. MapInv(p)
  BY <1>1, <1>2, <1>6, Puts
<1> HIDE DEF p
<1>8. now - m.held[id].start < Window
  BY <1>1, <1>2, <1>4, ConstantsAssumption DEF Time, Bucket
<1>9. ASSUME NEW k \in Identity, k \notin evicted'
      PROVE  Quota(admitted'[k], buckets'[k], now)
  <2>1. Quota(admitted[k], m.held[k], now)
    BY <1>1, <1>9, QuotaStays DEF m
  <2>2. CASE k = id
    <3>1. buckets'[k] = c
      BY <1>1, <1>2, <1>3, <2>2 DEF MapIs
    <3>2. /\ Quota(admitted[k], c, now)
          /\ c.count <= Limit =>
               Quota(admitted[k] \cup {Admitted(admitted[k], m.held[k].start, now)}, c, now)
      BY <1>1, <1>2, <1>8, <2>1, <2>2, QuotaCounts DEF c
    <3>3. CASE c.count > Limit /\ admitted' = admitted
      BY <3>1, <3>2, <3>3
    <3>4. CASE ~(c.count > Limit) /\ admitted' # admitted
      <4>1. c.count <= Limit
        BY <1>6, <3>4, ConstantsAssumption
      <4>2. admitted'[k] = admitted[k] \cup {Admitted(admitted[k], m.held[k].start, now)}
        BY <1>2, <1>6, <1>9, <2>2, <3>1, <3>4 DEF Admitted
      <4> QED BY <3>1, <3>2, <4>1, <4>2
    <3>5. CASE ~(c.count > Limit) /\ admitted' = admitted
      BY <3>1, <3>2, <3>5
    <3> QED BY <1>2, <3>3, <3>4, <3>5
  <2>3. CASE k # id
    <3>1. admitted'[k] = admitted[k] /\ buckets'[k] = m.held[k]
      BY <1>1, <1>2, <1>3, <1>9, <2>3 DEF MapIs
    <3> QED BY <2>1, <3>1
  <2> QED BY <2>2, <2>3
<1>10. \A k \in evicted' : admitted'[k] = {}
  BY <1>1, <1>2 DEF QuotaInv
<1>11. admitted' = [k \in Identity |-> admitted'[k]] /\ evicted' \subseteq Identity
  BY <1>1, <1>2
<1> QED BY <1>2, <1>3, <1>7, <1>9, <1>10, <1>11, QuotaMoves

\* The Map never outgrows its bound, and nobody who keeps a bucket gets more than two
\* windows' quota through in a stretch of one, for every number of identities and every limit.
THEOREM LimiterIsBounded == Spec => []LimiterBounded
<1>1. Init => LimiterInv /\ QuotaInv
  <2> SUFFICES ASSUME Init PROVE LimiterInv /\ QuotaInv
    OBVIOUS
  <2>1. LimiterInv
    BY ConstantsAssumption DEF Init, LimiterInv, Slots, Waits, Time
  <2>2. Keys(TheMap) = {} /\ TheMap.older = {}
    BY DEF Init, Keys, TheMap
  <2>3. MapInv(TheMap)
    BY <2>2, FS_EmptySet, ConstantsAssumption DEF MapInv, Chained
  <2>4. Quota({}, Absent, now)
    BY FS_EmptySet DEF Quota
  <2>5. QuotaInv
    BY <2>3, <2>4, ConstantsAssumption DEF Init, QuotaInv, TheMap
  <2> QED BY <2>1, <2>5
<1>2. LimiterInv /\ QuotaInv /\ [Next]_vars => QuotaInv'
  <2> SUFFICES ASSUME LimiterInv, QuotaInv, [Next]_vars PROVE QuotaInv'
    OBVIOUS
  <2>1. CASE Tick
    <3>1. now \in Nat /\ now' = now + 1
          /\ UNCHANGED <<buckets, older, sinceSweep, admitted, retryAt, evicted>>
      BY <2>1 DEF Tick, LimiterInv, Time
    <3>2. \A id \in Identity \ evicted : Quota(admitted[id], buckets[id], now + 1)
      BY <3>1, QuotaLater DEF QuotaInv
    <3>3. MapInv(TheMap)'
      BY <3>1 DEF QuotaInv, TheMap, MapInv, Chained, Keys
    <3> QED BY <3>1, <3>2, <3>3 DEF QuotaInv, TheMap
  <2>2. CASE UNCHANGED vars
    <3>1. MapInv(TheMap)'
      BY <2>2 DEF vars, QuotaInv, TheMap, MapInv, Chained, Keys
    <3> QED BY <2>2, <3>1 DEF vars, QuotaInv, TheMap
  <2>3. ASSUME NEW id \in Identity, Request(id) PROVE QuotaInv'
    BY <2>3, OpensWithin, CountsWithin DEF Request
  <2> QED BY <2>1, <2>2, <2>3 DEF Next
<1>3. LimiterInv /\ QuotaInv => LimiterBounded
  <2> SUFFICES ASSUME LimiterInv, QuotaInv PROVE LimiterBounded
    OBVIOUS
  <2>1. Cardinality({id \in Identity : buckets[id] # Absent}) <= Capacity
    BY DEF QuotaInv, MapInv, Keys
  <2>2. older \subseteq Identity \X Identity
    BY DEF QuotaInv, MapInv, Chained, Keys
  <2>3. admitted \in [Identity -> SUBSET Admission]
    <3>1. \A id \in Identity : admitted[id] \subseteq Admission
      BY DEF QuotaInv, Quota
    <3>2. admitted = [k \in Identity |-> admitted[k]]
      BY DEF QuotaInv
    <3> HIDE DEF QuotaInv
    <3> QED BY <3>1, <3>2
  <2>4. TypeOK
    BY <2>2, <2>3 DEF TypeOK, LimiterInv, Slots, QuotaInv
  <2>5. \A id \in Identity \ evicted, t \in Time :
          Cardinality({a \in admitted[id] : t <= a.at /\ a.at < t + Window}) <= 2 * Limit
    BY TwoWindows DEF QuotaInv
  <2> QED BY <2>1, <2>4, <2>5 DEF LimiterBounded
<1> QED BY <1>1, <1>2, <1>3, LimiterStep, PTL DEF Spec

(***************************************************************************)
(* What a reranked search answers.                                         *)
(***************************************************************************)
UpTo(S, i) == {j \in S : j <= i}

\* The members up to the next lower one are one less.
LEMMA UpToBefore ==
  ASSUME NEW S \in SUBSET Nat, IsFiniteSet(S), NEW i \in S, Cardinality(UpTo(S, i)) > 1
  PROVE  \E k \in S : k < i /\ Cardinality(UpTo(S, k)) = Cardinality(UpTo(S, i)) - 1
<1> DEFINE K == UpTo(S, i) \ {i}
           R == {p \in K \X K : p[2] < p[1]}
<1>1. IsFiniteSet(UpTo(S, i)) /\ i \in UpTo(S, i) /\ Cardinality(UpTo(S, i)) \in Nat
  BY FS_Subset, FS_CardinalityType DEF UpTo
<1>2. IsFiniteSet(K) /\ Cardinality(K) = Cardinality(UpTo(S, i)) - 1
  BY <1>1, FS_RemoveElement
<1>3. K \subseteq S /\ \A k \in K : k \in Nat /\ k < i
  BY DEF UpTo
<1>4. K # {}
  <2> HIDE DEF K
  <2> QED BY <1>1, <1>2, FS_EmptySet
<1>5. \A a, b : <<a, b>> \in R <=> a \in K /\ b \in K /\ b < a
  OBVIOUS
<1> HIDE DEF K, R
<1>6. PICK k \in K : \A j \in K : <<j, k>> \notin R
  <2>1. \A k \in K : <<k, k>> \notin R
    BY <1>3, <1>5
  <2>2. \A a, b, c \in K : <<a, b>> \in R /\ <<b, c>> \in R => <<a, c>> \in R
    BY <1>3, <1>5
  <2> QED BY <1>2, <1>4, <2>1, <2>2, FirstExists
<1>7. \A j \in K : j <= k
  <2> TAKE j \in K
  <2>1. ~(k < j)
    BY <1>5, <1>6, Zenon
  <2> QED BY <1>3, <2>1
<1>8. UpTo(S, k) = K
  <2>1. \A j \in S : j \in K <=> j <= i /\ j # i
    BY DEF K, UpTo
  <2>2. \A j \in S : j <= k => j <= i /\ j # i
    BY <1>3
  <2> QED BY <1>3, <1>7, <2>1, <2>2 DEF UpTo
<1> QED BY <1>2, <1>3, <1>6, <1>8

\* A finite set of numbers has an n-th member, for every n up to its size.
LEMMA NthIs ==
  ASSUME NEW S \in SUBSET Nat, IsFiniteSet(S), NEW n \in Nat \ {0}, n <= Cardinality(S)
  PROVE  Nth(S, n) \in S /\ Cardinality(UpTo(S, Nth(S, n))) = n
<1> DEFINE T == {i \in S : Cardinality(UpTo(S, i)) >= n}
<1>1. \A i \in S : IsFiniteSet(UpTo(S, i)) /\ Cardinality(UpTo(S, i)) \in Nat
  BY FS_Subset, FS_CardinalityType DEF UpTo
<1>2. T # {}
  <2> DEFINE R == {p \in S \X S : p[2] < p[1]}
  <2>1. \A a, b : <<a, b>> \in R <=> a \in S /\ b \in S /\ b < a
    OBVIOUS
  <2>2. S # {}
    BY FS_EmptySet
  <2> HIDE DEF R
  <2>3. PICK k \in S : \A j \in S : <<j, k>> \notin R
    <3>1. \A k \in S : <<k, k>> \notin R
      BY <2>1
    <3>2. \A a, b, c \in S : <<a, b>> \in R /\ <<b, c>> \in R => <<a, c>> \in R
      BY <2>1
    <3> QED BY <2>2, <3>1, <3>2, FirstExists
  <2>4. UpTo(S, k) = S
    <3>1. \A j \in S : ~(k < j)
      BY <2>1, <2>3, Zenon
    <3>2. \A j \in S : j <= k
      BY <3>1
    <3> QED BY <3>2 DEF UpTo
  <2> QED BY <2>4
<1>3. PICK i \in T : \A y \in T : i <= y
  <2>1. T \in SUBSET Nat
    OBVIOUS
  <2> HIDE DEF T
  <2> QED BY <1>2, <2>1, LeastExists
<1>4. Cardinality(UpTo(S, i)) = n
  <2>1. SUFFICES ASSUME Cardinality(UpTo(S, i)) > n PROVE FALSE
    BY <1>1
  <2>2. PICK k \in S : k < i /\ Cardinality(UpTo(S, k)) = Cardinality(UpTo(S, i)) - 1
    BY <1>1, <2>1, UpToBefore
  <2>3. k \in T
    BY <1>1, <2>1, <2>2
  <2>4. i \in Nat /\ k \in Nat
    OBVIOUS
  <2> QED BY <1>3, <2>2, <2>3, <2>4
<1> QED BY <1>4 DEF Nth, UpTo

\* A reranked search answers no candidate twice, and each by a row above the gate.
LEMMA OutputIs ==
  ASSUME NEW s \in Searcher, NEW rows \in Rows
  PROVE  LET out == Output(s, rows) IN
         /\ Len(out) <= TopK /\ IsInjective(out)
         /\ \A h \in ToSet(out) :
              /\ Contains(searching[s].from, h)
              /\ \E row \in ToSet(rows) : row.id = h /\ row.score # NaN /\ row.score >= Gate
<1> DEFINE S == AboveGate(s, rows)
           count == Cardinality(S)
           size == IF count < TopK THEN count ELSE TopK
           out == [n \in 1 .. size |-> rows[Nth(S, n)].id]
<1>1. S \in SUBSET (1 .. Len(rows)) /\ Len(rows) \in Nat /\ DOMAIN rows = 1 .. Len(rows) /\ TopK \in Nat
  BY BreakerConstants DEF AboveGate, Recognized
<1>2. IsFiniteSet(1 .. Len(rows))
  BY <1>1, FS_Interval
<1>3. IsFiniteSet(S) /\ count \in Nat /\ S \in SUBSET Nat
  <2> HIDE DEF S
  <2>1. IsFiniteSet(S) /\ Cardinality(S) \in Nat
    BY <1>1, <1>2, FS_Subset, FS_CardinalityType
  <2> QED BY <1>1, <2>1
<1>4. \A i \in S : /\ rows[i].score >= Gate /\ rows[i].score # NaN /\ i \in DOMAIN rows
                   /\ Contains(searching[s].from, rows[i].id)
  BY DEF AboveGate, Recognized, KnownRow
<1>5. \A i, j \in S : j < i => rows[i].id # rows[j].id
  <2> TAKE i, j \in S
  <2> HAVE j < i
  <2>1. i \in Recognized(s, rows) /\ KnownRow(s, rows[j]) /\ i \in Nat /\ j \in Nat \ {0}
    BY <1>1 DEF AboveGate, Recognized
  <2>2. j \in 1 .. i - 1
    BY <2>1
  <2> QED BY <2>1, <2>2 DEF Recognized
<1>6. Output(s, rows) = out
  BY DEF Output
<1>7. size \in Nat /\ size <= TopK /\ size <= count
  BY <1>1, <1>3
<1> HIDE DEF S, size
<1>8. \A n \in 1 .. size : Nth(S, n) \in S /\ Cardinality(UpTo(S, Nth(S, n))) = n
  <2> TAKE n \in 1 .. size
  <2>1. n \in Nat \ {0} /\ n <= Cardinality(S)
    BY <1>3, <1>7
  <2> QED BY <1>3, <2>1, NthIs
<1>9. Len(out) <= TopK
  <2>1. out \in Seq({rows[Nth(S, n)].id : n \in 1 .. size}) /\ Len(out) = size
    BY <1>7
  <2> QED BY <1>7, <2>1
<1>10. IsInjective(out)
  <2>1. SUFFICES ASSUME NEW a \in 1 .. size, NEW b \in 1 .. size, out[a] = out[b] PROVE a = b
    BY DEF IsInjective
  <2>2. rows[Nth(S, a)].id = rows[Nth(S, b)].id
    BY <2>1
  <2>3. Nth(S, a) \in S /\ Nth(S, b) \in S /\ Nth(S, a) \in Nat /\ Nth(S, b) \in Nat
    BY <1>3, <1>8
  <2>4. Nth(S, a) = Nth(S, b)
    BY <1>5, <2>2, <2>3
  <2> QED BY <1>8, <2>4
<1>11. ASSUME NEW h \in ToSet(out)
       PROVE  /\ Contains(searching[s].from, h)
              /\ \E row \in ToSet(rows) : row.id = h /\ row.score # NaN /\ row.score >= Gate
  <2>1. PICK n \in 1 .. size : h = rows[Nth(S, n)].id
    BY DEF ToSet
  <2> DEFINE i == Nth(S, n)
  <2>2. i \in S
    BY <1>8
  <2>3. rows[i] \in ToSet(rows)
    BY <1>4, <2>2 DEF ToSet
  <2> QED BY <1>4, <2>1, <2>2, <2>3
<1> HIDE DEF out
<1> QED BY <1>6, <1>9, <1>10, <1>11

\* What holds of a search that is over.
AnswersWell(p) ==
  /\ p.at = "plain" => p.answer = ProviderSearch(p.from, TopK, p.min)
  /\ p.at = "reranked" =>
       /\ Len(p.answer) <= TopK /\ IsInjective(p.answer)
       /\ \A h \in ToSet(p.answer) :
            /\ Contains(p.from, h)
            /\ \E row \in ToSet(p.rows) : row.id = h /\ row.score # NaN /\ row.score >= Gate

AnswersInvariant == DOMAIN searching = Searcher /\ \A s \in Searcher : AnswersWell(searching[s])

\* Each search that ends answers well, and the others go on as they were.
LEMMA AnswersStep ==
  ASSUME AnswersInvariant, [BreakerNext]_breakerVars
  PROVE  AnswersInvariant'
<1>1. ASSUME NEW s \in Searcher, NEW r, searching' = [searching EXCEPT ![s] = r], AnswersWell(r)
      PROVE  AnswersInvariant'
  BY <1>1 DEF AnswersInvariant
<1>2. CASE ClockTicks \/ UNCHANGED breakerVars
  BY <1>2 DEF ClockTicks, breakerVars, AnswersInvariant
<1>3. ASSUME NEW s \in Searcher, SearchSkips(s) PROVE AnswersInvariant'
  <2>1. PICK ranked \in Rankings, min \in MinScores :
          searching' = [searching EXCEPT ![s] =
            [at |-> "plain", from |-> ranked, min |-> min,
             answer |-> ProviderSearch(ranked, TopK, min)]]
    BY <1>3 DEF SearchSkips
  <2>2. AnswersWell([at |-> "plain", from |-> ranked, min |-> min,
                     answer |-> ProviderSearch(ranked, TopK, min)])
    BY DEF AnswersWell
  <2> QED BY <1>1, <2>1, <2>2
<1>4. ASSUME NEW s \in Searcher, SearchStarts(s) PROVE AnswersInvariant'
  <2>1. PICK ranked \in Rankings, min \in MinScores :
          searching' = [searching EXCEPT ![s] = [at |-> "found", from |-> ranked, min |-> min]]
    BY <1>4 DEF SearchStarts
  <2>2. AnswersWell([at |-> "found", from |-> ranked, min |-> min])
    BY DEF AnswersWell
  <2> QED BY <1>1, <2>1, <2>2
<1>5. ASSUME NEW s \in Searcher, SearchFindsNothing(s) \/ ProviderFails(s) PROVE AnswersInvariant'
  <2>1. AnswersWell(Idle)
    BY DEF AnswersWell, Idle
  <2> QED BY <1>1, <1>5, <2>1 DEF SearchFindsNothing, ProviderFails
<1>6. ASSUME NEW s \in Searcher, RerankStarts(s) PROVE AnswersInvariant'
  <2> DEFINE r == [searching[s] EXCEPT !.at = "asked"]
  <2>1. searching' = [searching EXCEPT ![s] = r] /\ r.at = "asked"
    BY <1>6 DEF RerankStarts
  <2> HIDE DEF r
  <2>2. AnswersWell(r)
    BY <2>1 DEF AnswersWell
  <2> QED BY <1>1, <2>1, <2>2
<1>7. ASSUME NEW s \in Searcher, NEW rows \in Rows, RerankAnswers(s, rows) PROVE AnswersInvariant'
  <2> DEFINE r == [at |-> "reranked", from |-> searching[s].from, rows |-> rows,
                   answer |-> Output(s, rows)]
  <2>1. searching' = [searching EXCEPT ![s] = r]
    BY <1>7 DEF RerankAnswers
  <2>2. AnswersWell(r)
    BY OutputIs DEF AnswersWell
  <2> QED BY <1>1, <2>1, <2>2
<1>8. ASSUME NEW s \in Searcher, RerankFails(s) PROVE AnswersInvariant'
  <2> DEFINE r == [at |-> "plain", from |-> searching[s].from, min |-> searching[s].min,
                   answer |-> Degraded(s)]
  <2>1. searching' = [searching EXCEPT ![s] = r]
    BY <1>8 DEF RerankFails
  <2>2. AnswersWell(r)
    BY DEF AnswersWell, Degraded
  <2> QED BY <1>1, <2>1, <2>2
<1> QED BY <1>2, <1>3, <1>4, <1>5, <1>6, <1>7, <1>8 DEF BreakerNext

\* However many searches overlap, the cooldown runs from the failure that ended last, unless
\* a success ended since, and the counters an operator reads add up; and a search answers
\* what the provider alone would have, or each of its candidates at most once, by a row above
\* the gate.
THEOREM RerankingIsHonest ==
  ASSUME IsFiniteSet(Searcher)
  PROVE  BreakerSpec => []RerankingHolds
<1>1. BreakerInit => BreakerInv /\ AnswersInvariant
  <2> SUFFICES ASSUME BreakerInit PROVE BreakerInv /\ AnswersInvariant
    OBVIOUS
  <2>1. stats = [requests |-> 0, attempts |-> 0, successes |-> 0, failures |-> 0, fallbacks |-> 0]
    BY DEF BreakerInit
  <2>2. In(searching, "asked") = {} /\ In(searching, "found") = {}
    BY DEF BreakerInit, In, Idle
  <2>3. InState(searching, "asked") = 0 /\ InState(searching, "found") = 0
    BY <2>2, FS_EmptySet DEF InState
  <2>4. stats \in Counters /\ Balanced(stats, searching)
    BY <2>1, <2>3 DEF Counters, Balanced
  <2>5. Cooling /\ clock \in Nat /\ disabledUntil \in Nat /\ DOMAIN searching = Searcher
    BY DEF BreakerInit, Cooling
  <2>6. AnswersInvariant
    BY DEF BreakerInit, AnswersInvariant, AnswersWell, Idle
  <2> QED BY <2>4, <2>5, <2>6 DEF BreakerInv
<1>2. BreakerInv /\ AnswersInvariant => RerankingHolds
  <2> SUFFICES ASSUME BreakerInv, AnswersInvariant PROVE RerankingHolds
    OBVIOUS
  <2>1. BreakerHolds
    BY DEF BreakerInv, BreakerHolds, Balanced, Cooling, InState, In
  <2>2. SearchesAnswerWell
    BY DEF AnswersInvariant, AnswersWell, SearchesAnswerWell
  <2> QED BY <2>1, <2>2 DEF RerankingHolds
<1>3. BreakerInv /\ AnswersInvariant /\ [BreakerNext]_breakerVars => (BreakerInv /\ AnswersInvariant)'
  BY BreakerStep, AnswersStep
<1> QED BY <1>1, <1>2, <1>3, PTL DEF BreakerSpec
=============================================================================
