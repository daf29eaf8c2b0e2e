------------------------------- MODULE Context -------------------------------
(***************************************************************************)
(* buildContext() of src/service.ts: which of the memories a search found, *)
(* and of those the actor's profile lists, go into a prompt of maxChars    *)
(* characters and maxItems items.                                          *)
(*                                                                         *)
(* A request r is a record:                                                *)
(*   hits, own   what search() and listVisible() returned, in their order  *)
(*   length      of a memory's evidence line                               *)
(*   kind        its memory type                                           *)
(*   unverified  memories whose extraction failed                          *)
(*   answers     memories whose text contains the query                    *)
(*   items, chars  the budget asked for                                    *)
(***************************************************************************)
EXTENDS Integers, Selecting

CONSTANTS
  Sections,          \* PROFILE_SECTIONS: the memory types in their order
  HitsHeader,        \* length of the first section's header
  ProfileHeader,     \* of the profile's
  Title,             \* of "\n<type>:\n"
  PerType,           \* entries of a type in the profile (3)
  MaxItems,          \* 30
  LeastChars,        \* 300
  MostChars,         \* 20 000
  IncludeUnverified, \* the option of that name
  ContextRequests    \* the requests that are asked about

VARIABLE prompted  \* the request in hand

ASSUME ContextAssumption ==
  /\ Sections \in Seq(ToSet(Sections)) /\ IsInjective(Sections)
  /\ {HitsHeader, ProfileHeader, Title, PerType, LeastChars, MostChars} \subseteq Nat
  /\ MaxItems \in Nat \ {0} /\ LeastChars <= MostChars
  /\ IncludeUnverified \in BOOLEAN

\* A search answers each memory once, and so does a listing.
IsContextRequest(r) ==
  /\ r.length \in [DOMAIN r.length -> Nat]
  /\ r.hits \in Seq(DOMAIN r.length) /\ IsInjective(r.hits)
  /\ r.own \in Seq(DOMAIN r.length) /\ IsInjective(r.own)
  /\ r.items \in Int /\ r.chars \in Int

ASSUME RequestsAssumption == \A r \in ContextRequests : IsContextRequest(r)

FirstOf(s, n) == SubSeq(s, 1, IF Len(s) < n THEN Len(s) ELSE n)
Clamped(n, low, high) == IF n < low THEN low ELSE IF n > high THEN high ELSE n
ItemBudget(r) == Clamped(r.items, 1, MaxItems)
CharBudget(r) == Clamped(r.chars, LeastChars, MostChars)

Promptable(r, ms) == IF IncludeUnverified THEN ms ELSE ms \ r.unverified

(***************************************************************************)
(* The memories found: one that answers the query is taken first.          *)
(***************************************************************************)
Eligible(r) == Among(r.hits, Promptable(r, ToSet(r.hits)))

Spent(r, spent, m) == spent + 1 + r.length[m]

SelectIfFits(r, chosen, m) ==
  IF \/ Len(chosen.ids) >= ItemBudget(r)
     \/ Contains(chosen.ids, m)
     \/ Spent(r, chosen.spent, m) > CharBudget(r)
  THEN chosen
  ELSE [ids |-> Append(chosen.ids, m), spent |-> Spent(r, chosen.spent, m)]

ExactEvidence(r) == Among(Eligible(r), r.answers)

Chosen(r) ==
  FoldLeft(LAMBDA chosen, m : SelectIfFits(r, chosen, m),
           [ids |-> <<>>, spent |-> HitsHeader],
           FirstOf(ExactEvidence(r), 1) \o Eligible(r))

\* The section, rendered in the order of the search.
Selected(r) == Among(r.hits, ToSet(Chosen(r).ids))
HitsSection(r) == IF Chosen(r).ids = <<>> THEN 0 ELSE Chosen(r).spent

(***************************************************************************)
(* The profile has what is left.                                           *)
(***************************************************************************)
OwnListed(r) == r.own  \* mutant: the second path into the prompt is not filtered
ActorRecords(r) == Among(r.own, Promptable(r, ToSet(r.own)))

Separator(r) == IF Chosen(r).ids = <<>> THEN 0 ELSE 2
ProfileAllowance(r) == CharBudget(r) - HitsSection(r) - Separator(r)

Considered(r, type) ==
  FirstOf(Among(ActorRecords(r), {m \in ToSet(r.own) : r.kind[m] = type} \ ToSet(Chosen(r).ids)), PerType)

AddEntry(r, profile, m) ==
  LET size == profile.size + (IF profile.titled THEN 1 ELSE Title) + r.length[m] IN
  IF size > ProfileAllowance(r) THEN profile
  ELSE [ids |-> Append(profile.ids, m), size |-> size, titled |-> TRUE]

AddType(r, profile, type) ==
  FoldLeft(LAMBDA p, m : AddEntry(r, p, m), [profile EXCEPT !.titled = FALSE], Considered(r, type))

ProfileShown(r) == ProfileAllowance(r) > ProfileHeader + 3 /\ ActorRecords(r) # <<>>

Profile(r) ==
  LET empty == [ids |-> <<>>, size |-> 0, titled |-> FALSE]
      full == FoldLeft(LAMBDA p, type : AddType(r, p, type), [empty EXCEPT !.size = ProfileHeader],
                       Sections) IN
  IF ProfileShown(r) /\ full.ids # <<>> THEN full ELSE empty

(***************************************************************************)
(* The answer.                                                             *)
(***************************************************************************)
ContextLength(r) ==
  HitsSection(r) + Profile(r).size + (IF Profile(r).ids = <<>> THEN 0 ELSE Separator(r))

Available(r) ==
  ToSet(Eligible(r)) \cup
    (IF ProfileShown(r) THEN UNION {ToSet(Considered(r, type)) : type \in ToSet(Sections)} ELSE {})

Emitted(r) == Selected(r) \o Profile(r).ids
OmittedCount(r) == Cardinality(Available(r) \ ToSet(Emitted(r)))

(***************************************************************************)
(* Properties of a request.                                                *)
(***************************************************************************)

\* The prompt holds no unverified text by either path, no memory twice, and is
\* within both budgets, headers, titles and separators included.
PromptIsClean(r) ==
  /\ ContextLength(r) <= CharBudget(r)
  /\ Len(Selected(r)) <= ItemBudget(r)
  /\ IncludeUnverified \/ ToSet(Emitted(r)) \cap r.unverified = {}
  /\ IsInjective(Emitted(r))

\* The direct answer is not starved by broader matches before it; a memory found is left
\* out only where the budgets do not let it in; and what is left out is counted.
EvidenceFirst(r) ==
  /\ \A m \in ToSet(FirstOf(ExactEvidence(r), 1)) :
       Spent(r, HitsHeader, m) <= CharBudget(r) => Contains(Selected(r), m)
  /\ \A m \in ToSet(Eligible(r)) \ ToSet(Selected(r)) :
       Len(Selected(r)) = ItemBudget(r) \/ Spent(r, Chosen(r).spent, m) > CharBudget(r)
  /\ OmittedCount(r) + Len(Emitted(r)) = Cardinality(Available(r))

(***************************************************************************)
(* One request after another; nothing is remembered.                       *)
(***************************************************************************)
ContextInit == prompted = {}
BuildContext == prompted = {} /\ \E r \in ContextRequests : prompted' = {r}
ContextBuilt == prompted # {} /\ prompted' = {}
ContextNext == BuildContext \/ ContextBuilt
ContextSpec == ContextInit /\ [][ContextNext]_prompted

\* A prompt is within its budgets, holds nothing unverified, and starves no direct answer.
PromptsClean == \A r \in prompted : PromptIsClean(r)
AnswersFirst == \A r \in prompted : EvidenceFirst(r)
ContextHolds == PromptsClean /\ AnswersFirst
=============================================================================
