----------------------------- MODULE HttpAccess -----------------------------
(***************************************************************************)
(* Who may do what over HTTP: the grants of src/http.ts, built from the    *)
(* credentials src/config.ts accepts, and the checks its routes make       *)
(* before they call the service.                                           *)
(***************************************************************************)
EXTENDS MemoryAccess

CONSTANTS
  Key,
  Configured,  \* credentials an operator may write
  Batched      \* observations of one request, which came with valid schemas

VARIABLE granted  \* the grant of the request in hand: res.locals.memoryCoreAuthGrant

\* A credential list as the operator wrote it; an identity as a request states it.
PrincipalKey == [key : Key, tenantId : Name, spaceId : Optional, appId : Name, actorId : Name]
Credentials ==
  [global : SUBSET Key, tenant : [Name -> SUBSET Key], principal : SUBSET PrincipalKey]
RequestIdentity == [tenantId : Name, spaceId : Optional, appId : Name, actorId : Optional]

ASSUME CredentialsAssumption ==
  Configured \subseteq Credentials /\ \A batch \in Batched : batch \subseteq Record

(***************************************************************************)
(* Credentials.                                                            *)
(***************************************************************************)
TenantAdmin(c) == UNION {c.tenant[t] : t \in Name}

\* config.ts, at boot: no key of two kinds.
CredentialSeparation(c) ==
  /\ c.global \cap TenantAdmin(c) = {}
  /\ \A p \in c.principal : p.key \notin c.global \cup TenantAdmin(c)

\* http.ts adds the grants kind by kind and refuses a key that has one of another kind.
GrantFor(c, k) ==
  [global     |-> k \in c.global,
   tenantIds  |-> {t \in Name : k \in c.tenant[t]},
   principals |-> {[tenantId |-> p.tenantId, spaceId |-> Or(Trimmed(p.spaceId), p.actorId),
                    appId |-> p.appId, actorId |-> p.actorId] : p \in {q \in c.principal : q.key = k}}]

Known(c, k) == k \in c.global \cup TenantAdmin(c) \cup {p.key : p \in c.principal}

GrantsBuilt(c) ==
  /\ \A t \in Name : \A k \in c.tenant[t] : k \notin c.global
  /\ \A p \in c.principal :
       /\ \A given \in {p.tenantId, p.appId, p.actorId} : Trim[given] = given
       /\ ~GrantFor(c, p.key).global /\ GrantFor(c, p.key).tenantIds = {}

(***************************************************************************)
(* The checks of the routes: g is the grant of the request's key.  Without *)
(* any credential every check passes.                                      *)
(***************************************************************************)
IsPrincipal(g, id) ==
  /\ id.actorId # None /\ ScopeSpace(id) # None
  /\ \E p \in g.principals :
       /\ p.spaceId = ScopeSpace(id)
       /\ \A k \in {"tenantId", "appId", "actorId"} : p[k] = id[k]

AdminOf(g, requested) == g.global \/ \A id \in requested : id.tenantId \in g.tenantIds

AuthorizePrincipals(g, requested) ==
  AdminOf(g, requested) \/ \A id \in requested : IsPrincipal(g, id)

AuthorizeObservations(g, observations) ==
  \/ AdminOf(g, observations)
  \/ /\ \A o \in observations : o.scope # "tenant"
     /\ AuthorizePrincipals(g, observations)

(***************************************************************************)
(* The routes.                                                             *)
(***************************************************************************)
Ingests(g, batch) == AuthorizeObservations(g, batch) /\ \A o \in batch : ValidScope(o)

Searches(g, f) == AuthorizePrincipals(g, {f})

\* /get and /feedback: the record is one the identity itself reaches.
ReachesById(g, s, r) == AuthorizePrincipals(g, {s}) /\ MemoryVisibleToIdScope(r, s)

\* /status and /supersede first read the record: to retire it asks for the right to
\* publish in its scope.
RetiresUnread(g, s, r) == ReachesById(g, s, r)  \* mutant: the record's scope is not asked
Retires(g, s, r) ==
  /\ ReachesById(g, s, r)
  /\ AuthorizeObservations(g, {[tenantId |-> s.tenantId, spaceId |-> s.spaceId, appId |-> s.appId,
                                actorId |-> s.actorId, scope |-> r.scope]})

Compacts(g) == g.global

(***************************************************************************)
(* Properties.                                                             *)
(***************************************************************************)

\* A principal's own corner: what a grant lets its holder see, and what it lets it change.
Sees(g, r) ==
  \E p \in g.principals :
    /\ r.tenantId = p.tenantId
    /\ \/ r.scope = "tenant"
       \/ /\ r.spaceId = p.spaceId
          /\ \/ r.scope = "workspace"
             \/ r.scope = "app" /\ r.appId = p.appId
             \/ r.actorId = p.actorId

Changes(g, r) == Sees(g, r) /\ r.scope # "tenant"

Within(g, r) == g.global \/ r.tenantId \in g.tenantIds

\* What a key stores is in a tenant it administers or in its principals' own corner, and
\* only an administrator publishes to a whole tenant: batch is one request's observations.
StoresWithin(g, batch) ==
  Ingests(g, batch) => \A o \in batch : Within(g, o) \/ Changes(g, NormalizeRecordSpace(o))

\* Nor does a search find, or an id read, rate or retire, what is outside of it.
FindsWithin(g, f, r) ==
  Searches(g, f) /\ RequireMemoryAccess(f) /\ MemoryVisibleTo(r, f) => Within(g, r) \/ Sees(g, r)

ReachesWithin(g, s, r) ==
  /\ ReachesById(g, s, r) => Within(g, r) \/ Sees(g, r)
  /\ Retires(g, s, r) => Within(g, r) \/ Changes(g, r)

\* Credentials that boot accepts never stop the application from being built, and leave
\* each key a grant of one kind: only the operator's keys compact.
Accepted(c) ==
  /\ CredentialSeparation(c)
  /\ \A p \in c.principal : \A given \in {p.tenantId, p.appId, p.actorId} : Trim[given] = given

KindsOf(g) ==
  {kind \in {"global", "tenant", "principal"} :
     CASE kind = "global" -> Compacts(g)
       [] kind = "tenant" -> g.tenantIds # {}
       [] kind = "principal" -> g.principals # {}}

CredentialsSeparate(c) ==
  Accepted(c) =>
    /\ GrantsBuilt(c)
    /\ \A k \in Key : Cardinality(KindsOf(GrantFor(c, k))) = IF Known(c, k) THEN 1 ELSE 0

\* The grants of an application that was built.
Grants ==
  UNION {{GrantFor(c, k) : k \in {known \in Key : Known(c, known)}} :
           c \in {d \in Configured : CredentialSeparation(d)}}

(***************************************************************************)
(* Requests with a known key, one after another.                           *)
(***************************************************************************)
GrantsInit == granted = {}
Authenticate == granted = {} /\ \E g \in Grants : granted' = {g}
Respond == granted # {} /\ granted' = {}
GrantsNext == Authenticate \/ Respond
GrantsSpec == GrantsInit /\ [][GrantsNext]_granted

\* No request takes a key out of its grants, and credentials that boot accepts leave each key
\* a grant of one kind.
WritesConfined == \A g \in granted : \A batch \in Batched : StoresWithin(g, batch)
ReadsConfined ==
  \A g \in granted : \A r \in Memories :
    /\ \A f \in FiltersAsked : FindsWithin(g, f, r)
    /\ \A s \in IdScopesAsked : ReachesWithin(g, s, r)
KeysSeparate == \A c \in Configured : CredentialsSeparate(c)
GrantsConfine == WritesConfined /\ ReadsConfined /\ KeysSeparate
=============================================================================
