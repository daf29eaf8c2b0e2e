---------------------------- MODULE MemoryAccess ----------------------------
(***************************************************************************)
(* src/access.ts, the visibility policy of the in-process providers, and   *)
(* the SQL of src/providers/postgres-provider.ts that repeats it: reads by *)
(* filter, access by id, and the locus within which texts are duplicates.  *)
(*                                                                         *)
(* None stands for undefined, null and "", which the schemas of http.ts    *)
(* refuse.  The other hard filters (types, scopes, metadata) only narrow   *)
(* both sides alike and are left out.                                      *)
(***************************************************************************)
EXTENDS FiniteSets

CONSTANTS
  Name,  \* identifiers as callers write them
  Trim,  \* [Name -> Name \cup {None}]; a blank name trims to nothing
  None,
  Memories,      \* the records, filters and id scopes that are asked about
  FiltersAsked,
  IdScopesAsked

VARIABLE accessed  \* the memory a read or a write looks at

ASSUME NamesAssumption ==
  /\ None \notin Name
  /\ Trim \in [Name -> Name \cup {None}]
  /\ \A n \in Name : Trim[n] # None => Trim[Trim[n]] = Trim[n]

Scope == {"tenant", "workspace", "app", "actor", "thread"}
Optional == Name \cup {None}

Record ==
  [tenantId : Name, spaceId : Optional, appId : Name, actorId : Name,
   threadId : Optional, scope : Scope]

Filters ==
  [tenantId : Name, spaceId : Optional, appId : Name, actorId : Optional,
   threadId : Optional, accessThreadId : Optional]

IdScope ==
  [tenantId : Name, spaceId : Optional, appId : Optional, actorId : Optional,
   accessThreadId : Optional]

Trimmed(n) == IF n = None THEN None ELSE Trim[n]
Or(a, b) == IF a # None THEN a ELSE b

(***************************************************************************)
(* The space.                                                              *)
(***************************************************************************)

\* None: resolveSpaceId() throws.
ResolveSpaceId(x) == Or(Trimmed(x.spaceId), Or(Trimmed(x.actorId), Trimmed(x.appId)))

NotNormalized(r) == r  \* mutant: the record keeps the space it was given
NormalizeRecordSpace(r) == [r EXCEPT !.spaceId = ResolveSpaceId(r)]

ValidScope(r) ==
  /\ r.scope = "thread" => r.threadId # None
  /\ r.scope = "workspace" => Trimmed(r.spaceId) # None

\* What a caller may store, and what the store then holds.
Storable(r) == ValidScope(r) /\ ResolveSpaceId(r) # None
Stored == {r \in Record : Storable(r) /\ NormalizeRecordSpace(r) = r}

ASSUME QuestionsAssumption ==
  Memories \subseteq Stored /\ FiltersAsked \subseteq Filters /\ IdScopesAsked \subseteq IdScope

RequireMemoryAccess(f) == ResolveSpaceId(f) # None

(***************************************************************************)
(* In process.                                                             *)
(***************************************************************************)
AccessThread(f) == Or(f.accessThreadId, f.threadId)

MemoryVisibleTo(r, f) ==
  /\ r.tenantId = f.tenantId
  /\ r.scope # "tenant" => ResolveSpaceId(r) = ResolveSpaceId(f)
  /\ r.scope = "app" => r.appId = f.appId
  /\ r.scope \in {"actor", "thread"} => r.actorId = f.actorId
  /\ r.scope = "thread" => r.threadId = AccessThread(f) /\ r.threadId # None
  /\ f.threadId # None => r.threadId = f.threadId

ScopeSpace(s) == Or(Trimmed(s.spaceId), Trimmed(s.actorId))

MemoryVisibleToIdScope(r, s) ==
  /\ r.tenantId = s.tenantId
  /\ r.scope # "tenant" => ScopeSpace(s) # None /\ ResolveSpaceId(r) = ScopeSpace(s)
  /\ r.scope = "app" => r.appId = s.appId
  /\ r.scope \in {"actor", "thread"} => r.actorId = s.actorId
  /\ r.scope = "thread" => s.accessThreadId # None /\ r.threadId = s.accessThreadId

VisibilityKey(r) ==
  <<r.tenantId, r.scope,
    CASE r.scope = "tenant"    -> <<>>
      [] r.scope = "workspace" -> <<ResolveSpaceId(r)>>
      [] r.scope = "app"       -> <<ResolveSpaceId(r), r.appId>>
      [] r.scope = "actor"     -> <<ResolveSpaceId(r), r.actorId>>
      [] r.scope = "thread"    -> <<ResolveSpaceId(r), r.actorId, r.threadId>>>>

SameMemoryOwner(a, b) ==
  /\ ResolveSpaceId(a) = ResolveSpaceId(b)
  /\ \A k \in {"tenantId", "appId", "actorId", "scope", "threadId"} : a[k] = b[k]

(***************************************************************************)
(* In SQL: m is a row, so its space is the one it was stored with.         *)
(***************************************************************************)
SqlFilter(m, f) ==
  LET here == m.spaceId = ResolveSpaceId(f)
      mine == here /\ f.actorId # None /\ m.actorId = f.actorId IN
  /\ m.tenantId = f.tenantId
  /\ \/ m.scope = "tenant"
     \/ m.scope = "workspace" /\ here
     \/ m.scope = "app" /\ here /\ m.appId = f.appId
     \/ m.scope = "actor" /\ mine
     \/ m.scope = "thread" /\ mine /\ AccessThread(f) # None /\ m.threadId = AccessThread(f)
  /\ f.threadId # None => m.threadId = f.threadId

AssertIdScope(s) == s.spaceId # None \/ s.actorId # None

IdScopeSql(m, s) ==
  LET here == ScopeSpace(s) # None /\ m.spaceId = ScopeSpace(s)
      mine == here /\ s.actorId # None /\ m.actorId = s.actorId IN
  /\ m.tenantId = s.tenantId
  /\ \/ m.scope = "tenant"
     \/ m.scope = "workspace" /\ here
     \/ m.scope = "app" /\ here /\ s.appId # None /\ m.appId = s.appId
     \/ m.scope = "actor" /\ mine
     \/ m.scope = "thread" /\ mine /\ s.accessThreadId # None /\ m.threadId = s.accessThreadId

\* The columns of the unique index of a scope.
ConflictColumns(scope) ==
  {"tenantId"} \cup
  CASE scope = "tenant"    -> {}
    [] scope = "workspace" -> {"spaceId"}
    [] scope = "app"       -> {"spaceId", "appId"}
    [] scope = "actor"     -> {"spaceId", "actorId"}
    [] scope = "thread"    -> {"spaceId", "actorId", "threadId"}

ExactConflict(m, n) ==
  m.scope = n.scope /\ \A c \in ConflictColumns(m.scope) : m[c] = n[c]

(***************************************************************************)
(* Properties, of stored records r and q, filters f and an id scope s.     *)
(***************************************************************************)

\* Whichever provider is configured, a caller sees the same memories: by filter wherever
\* the filter is accepted, by id wherever the SQL does not refuse the scope.
ProvidersAgree(r, f, s) ==
  /\ RequireMemoryAccess(f) => (MemoryVisibleTo(r, f) <=> SqlFilter(r, f))
  /\ AssertIdScope(s) => (MemoryVisibleToIdScope(r, s) <=> IdScopeSql(r, s))

\* What a search shows an actor can be read, rated and retired by id with the same
\* identity: neither policy is wider than the other, except for the thread a search
\* may be narrowed to.
IdScopeOf(f) ==
  [tenantId |-> f.tenantId, spaceId |-> f.spaceId, appId |-> f.appId, actorId |-> f.actorId,
   accessThreadId |-> AccessThread(f)]

FoundIsReachable(r, f) ==
  Trimmed(f.actorId) # None /\ RequireMemoryAccess(f) =>
    /\ MemoryVisibleTo(r, f) => MemoryVisibleToIdScope(r, IdScopeOf(f))
    /\ f.threadId = None /\ MemoryVisibleToIdScope(r, IdScopeOf(f)) => MemoryVisibleTo(r, f)

\* Texts are duplicates in process exactly where the unique index of their scope makes
\* them one row, and an owner's memories of a scope are in one locus.
DuplicatesConflict(r, q) ==
  /\ VisibilityKey(r) = VisibilityKey(q) <=> ExactConflict(r, q)
  /\ SameMemoryOwner(r, q) => VisibilityKey(r) = VisibilityKey(q)

\* Folding a memory into its duplicate hides it from nobody who saw it.
DuplicatesShareReaders(r, q, f) ==
  VisibilityKey(r) = VisibilityKey(q) /\ f.threadId = None =>
    (MemoryVisibleTo(r, f) <=> MemoryVisibleTo(q, f))

(***************************************************************************)
(* Calls look at one memory after another; nothing is remembered.          *)
(***************************************************************************)
AccessInit == accessed = {}
Access == accessed = {} /\ \E r \in Memories : accessed' = {r}
Accessed == accessed # {} /\ accessed' = {}
AccessNext == Access \/ Accessed
AccessSpec == AccessInit /\ [][AccessNext]_accessed

\* A record is seen alike by every provider, by filter and by id; dedupe follows the unique
\* indexes, and merges nothing across readers.
SeenAlike ==
  \A r \in accessed : \A f \in FiltersAsked :
    FoundIsReachable(r, f) /\ \A s \in IdScopesAsked : ProvidersAgree(r, f, s)
MergedAlike ==
  \A r \in accessed : \A q \in Memories :
    DuplicatesConflict(r, q) /\ \A f \in FiltersAsked : DuplicatesShareReaders(r, q, f)
OneLocus == SeenAlike /\ MergedAlike
=============================================================================
