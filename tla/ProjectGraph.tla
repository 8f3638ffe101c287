---------------------------- MODULE ProjectGraph ----------------------------
(* The records of a Project and the rules between them.  A graph is a        *)
(* partial function from canonical keys to records; a key carries the names  *)
(* it refers to, so that a reference is computed from it and never stored.   *)
(*                                                                           *)
(* A record keeps four things: whether it is active, whether it is locked,   *)
(* its content, and its supports.  Content has at most two values.  "full"   *)
(* says what the rules ask of a dataset: a Mapping has a transformation, an  *)
(* Attribute is a key of its Entity, a Context Group names a System;         *)
(* elsewhere it is just other content.                                       *)
(*                                                                           *)
(* A catalog is what validation reads of the registered metadata: the active *)
(* systems, the objects that can be told (their Connection, Tenant and       *)
(* System active, readable to the caller), which of them may be inputs       *)
(* (active, of Source or Bronze), and the feeds, from which active System    *)
(* such an Object comes.                                                     *)
EXTENDS Integers, FiniteSets, Sequences

CONSTANTS
  Keys,          \* the canonical keys of the instance, <<dataset, name, ...>>
  Objects,       \* physical Objects registered for the Tenant
  Supports,      \* [Keys -> SUBSET (Keys \cup Objects)]: what a key may cite
  Catalogs,      \* the states of the registered metadata
  SystemOf,      \* [Keys -> systems]: the System a Context Group may name
  ContentsOf,    \* [Keys -> SUBSET {"bare", "full"}]
  LocksOf,       \* [Keys -> SUBSET BOOLEAN]: the values of is_locked in use
  StatesOf       \* [Keys -> SUBSET {"active", "inactive", "locked"}]: of supports

ASSUME GraphConstants ==
  \A k \in Keys : /\ Supports[k] \subseteq Keys \cup Objects
                  /\ LocksOf[k] \subseteq BOOLEAN
                  /\ StatesOf[k] \subseteq {"active", "inactive", "locked"}
                  /\ ContentsOf[k] \subseteq {"bare", "full"}

ASSUME CatalogConstants ==
  \A c \in Catalogs : /\ c.inputs \subseteq c.objects /\ c.objects \subseteq Objects
                      /\ c.feeds \subseteq c.inputs \X c.systems

\* The records that may be cited, and the shape of a Mapping's canonical key.
ASSUME KeyShapes ==
  \A k \in Keys :
    /\ \A s \in Supports[k] \cap Keys :
         s[1] \in {"context_record", "logical_entity", "logical_attribute"}
    /\ k[1] \in {"context_group", "project_input_scope"} => Supports[k] = {}
    /\ k[1] = "mapping_object" => k = <<k[1], k[2], k[3]>>

RecordsOf(k) ==
  [active  : BOOLEAN,
   locked  : LocksOf[k],
   content : ContentsOf[k],
   sources : UNION {[s -> StatesOf[k]] : s \in SUBSET Supports[k]}]

ActiveIn(g) == {k \in DOMAIN g : g[k].active}
ActiveSources(r) == {s \in DOMAIN r.sources : r.sources[s] # "inactive"}

-----------------------------------------------------------------------------
(* References, read off a key.                                               *)

EntityOf(k) == <<IF k[1] = "logical_attribute" THEN "logical_entity"
                 ELSE "dimensional_entity", k[2]>>
AttributeOf(e, a) == <<IF e[1] = "logical_entity" THEN "logical_attribute"
                       ELSE "dimensional_attribute", e[2], a>>
MappingOf(k) == <<"mapping_object", k[2], k[Len(k)]>>

References(k) ==
  CASE k[1] = "context_record" -> {<<"context_group", k[2]>>}
    [] k[1] = "subject_area_table" -> {<<"subject_area", k[2]>>}
    [] k[1] \in {"logical_attribute", "dimensional_attribute"} -> {EntityOf(k)}
    [] k[1] \in {"logical_relationship", "dimensional_relationship"} -> {k[2], k[3]}
    [] k[1] \in {"mapping_object", "generated_code"} -> {k[2]}
    [] k[1] = "mapping_attribute" ->
         {<<"mapping_object", k[2], k[3]>>, AttributeOf(k[2], k[4])}
    [] k[1] = "generated_code_source_system" -> {<<"generated_code", k[2], k[3]>>}
    [] k[1] = "validation_check" -> {<<"validation_group", k[2]>>}
    [] OTHER -> {}

\* A Context Record outlives its group's activity; a Code assignment also needs
\* the Mapping of its System.
ActiveReferences(k) ==
  CASE k[1] = "context_record" -> {}
    [] k[1] = "generated_code_source_system" -> References(k) \cup {MappingOf(k)}
    [] OTHER -> References(k)

\* An Attribute of a Dimensional Entity cites a Logical Attribute only beside
\* its Entity's own support of that Attribute's Entity.
ParentSupports(g, k) ==
  k[1] = "dimensional_attribute" =>
    \A s \in DOMAIN g[k].sources \cap Keys : s[1] = "logical_attribute" =>
      LET owner == g[EntityOf(k)] IN
      /\ EntityOf(s) \in DOMAIN owner.sources
      /\ k \in ActiveIn(g) /\ s \in ActiveSources(g[k])
           => EntityOf(s) \in ActiveSources(owner)

ReferencesResolve(g) ==
  \A k \in DOMAIN g :
    /\ References(k) \cup (DOMAIN g[k].sources \cap Keys) \subseteq DOMAIN g
    /\ ParentSupports(g, k)
    /\ k[1] \in {"logical_relationship", "dimensional_relationship"} /\ g[k].active
         => g[k[3]].content = "full"

\* What an active support of an active record must find active.
SupportNeeds(s) == IF s[1] = "context_record" THEN {s, <<"context_group", s[2]>>}
                   ELSE IF s[1] = "logical_attribute" THEN {s, EntityOf(s)} ELSE {s}

-----------------------------------------------------------------------------
(* Mapping, Code and Validation.                                             *)

MappingsOf(g, e) == {k \in ActiveIn(g) : k[1] = "mapping_object" /\ k[2] = e}

\* An active Mapping has a rule when it, or one of its Attributes, has one.
HasRule(g, m) ==
  \/ g[m].content = "full"
  \/ \E k \in ActiveIn(g) :
       /\ k[1] = "mapping_attribute" /\ <<k[2], k[3]>> = <<m[2], m[3]>>
       /\ g[k].content = "full" /\ AttributeOf(k[2], k[4]) \in ActiveIn(g)

AssignmentsOf(g, m) ==
  {k \in ActiveIn(g) : k[1] = "generated_code_source_system" /\ MappingOf(k) = m}

\* Every mapped System of a coded Entity is assigned at most once, and exactly
\* once when the draft touches its Code; Code is written only from a rule.
CodeIsAssigned(g, authored) ==
  \A c \in ActiveIn(g) : c[1] = "generated_code" =>
    /\ c[2] \in authored => \E m \in MappingsOf(g, c[2]) : HasRule(g, m)
    /\ \A m \in MappingsOf(g, c[2]) :
         /\ Cardinality(AssignmentsOf(g, m)) <= 1
         /\ c[2] \in authored /\ HasRule(g, m) => AssignmentsOf(g, m) # {}

GroupIsMapped(g, k) == \E m \in ActiveIn(g) : m[1] = "mapping_object" /\ m[3] = k[2]

DependenciesActive(g) ==
  LET active == ActiveIn(g) IN
  \A k \in active :
    /\ ActiveReferences(k) \subseteq active
    /\ \A s \in ActiveSources(g[k]) \cap Keys : SupportNeeds(s) \subseteq active
    /\ k[1] = "validation_group" => GroupIsMapped(g, k)

\* The Entity/System pairs Mapping can author: a Logical Entity from the Systems
\* of its input tables, a Dimensional one from those of its Logical Entities.
LogicalBranch(g, catalog, e, system) ==
  /\ e \in ActiveIn(g)
  /\ \E o \in ActiveSources(g[e]) :
       /\ <<"project_input_scope", o>> \in ActiveIn(g)
       /\ <<o, system>> \in catalog.feeds
IsBranch(g, catalog, m) ==
  IF m[2][1] = "logical_entity" THEN LogicalBranch(g, catalog, m[2], m[3])
  ELSE /\ m[2] \in ActiveIn(g)
       /\ \E e \in ActiveSources(g[m[2]]) \cap Keys :
            e[1] = "logical_entity" /\ LogicalBranch(g, catalog, e, m[3])

\* The Systems of an Entity that Code and Validation may be derived from.
CodeContext(g, e) ==
  IF e \in ActiveIn(g) THEN {m[3] : m \in {n \in MappingsOf(g, e) : HasRule(g, n)}} ELSE {}

-----------------------------------------------------------------------------
(* The future graph of a draft, and what it must satisfy.                    *)

Over(draft, saved) ==
  [k \in DOMAIN draft \cup DOMAIN saved |-> IF k \in DOMAIN draft THEN draft[k] ELSE saved[k]]

Future(saved, draft) == Over(draft, saved)

\* A change that only locks, unlocks or retires a record keeps its evidence.
RetainsHistory(r, q) ==
  /\ q.content = r.content
  /\ q.active => r.active
  /\ DOMAIN q.sources = DOMAIN r.sources
  /\ ActiveSources(q) \subseteq ActiveSources(r)

\* mutant: the scope rule spares every saved record, changed or not
Known(saved, draft, k) == k \in DOMAIN saved

\* mutant: a record whose Object left the scope is stale at once
NothingRetained(saved, draft, k) == FALSE

Retained(saved, draft, k) ==
  /\ k \in DOMAIN saved
  /\ k \in DOMAIN draft => RetainsHistory(saved[k], draft[k])

\* mutant: the locks of nested supports are not compared
RecordLocks(saved, draft) ==
  \A k \in DOMAIN draft \cap DOMAIN saved : draft[k] # saved[k] => ~saved[k].locked

LocksRespected(saved, draft) ==
  \A k \in DOMAIN draft \cap DOMAIN saved : draft[k] # saved[k] =>
    /\ ~saved[k].locked
    /\ \A s \in DOMAIN draft[k].sources \cap DOMAIN saved[k].sources :
         saved[k].sources[s] = "locked" => draft[k].sources[s] = "locked"
    /\ k[1] = "context_group" =>
         ~\E c \in DOMAIN saved : c[1] = "context_record" /\ c[2] = k[2] /\ saved[c].locked

\* The Systems and Objects a record names, in its key or beside it.
NamedSystems(k, r) ==
  CASE k[1] = "context_group" -> IF r.content = "full" THEN {SystemOf[k]} ELSE {}
    [] k[1] \in {"mapping_object", "mapping_attribute"} -> {k[3]}
    [] k[1] = "generated_code_source_system" -> {k[4]}
    [] k[1] \in {"validation_group", "validation_check"} -> {k[2]}
    [] OTHER -> {}

NamedObjects(k, r) ==
  (DOMAIN r.sources \ Keys) \cup
  CASE k[1] = "project_input_scope" -> {k[2]}
    [] k[1] = "subject_area_table" -> {k[3]}
    [] OTHER -> {}

InputObjects(g, catalog) ==
  {o \in catalog.inputs : <<"project_input_scope", o>> \in ActiveIn(g)}

\* Retained history may name an Object that is no longer an input, as long as it
\* can be told; no record, active or not, may name a System that is not active.
InScope(saved, draft, catalog) ==
  LET g == Future(saved, draft) IN
  \A k \in DOMAIN g :
    /\ NamedSystems(k, g[k]) \subseteq catalog.systems
    /\ NamedObjects(k, g[k]) \subseteq
         IF Retained(saved, draft, k) THEN catalog.objects
         ELSE IF k[1] = "project_input_scope" THEN catalog.inputs
         ELSE InputObjects(g, catalog)

\* A Mapping pair the Project did not have starts with a rule.
NewMappingsHaveRules(saved, g) ==
  \A m \in ActiveIn(g) : m[1] = "mapping_object" /\ m \notin DOMAIN saved => HasRule(g, m)

Authored(draft) ==
  {k[2] : k \in {c \in DOMAIN draft :
                   c[1] \in {"generated_code", "generated_code_source_system"}}}

Valid(saved, draft, catalog, codeAuthoring) ==
  LET g == Future(saved, draft) IN
  /\ LocksRespected(saved, draft)
  /\ InScope(saved, draft, catalog)
  /\ ReferencesResolve(g)
  /\ DependenciesActive(g)
  /\ NewMappingsHaveRules(saved, g)
  /\ CodeIsAssigned(g, IF codeAuthoring THEN Authored(draft) ELSE {})

-----------------------------------------------------------------------------
(* Apply: records are upserted one by one, supports beside the ones they     *)
(* already have.                                                             *)

Upserted(r, q) == [q EXCEPT !.sources = Over(@, r.sources)]

Materialized(saved, draft) ==
  Over([k \in DOMAIN draft |->
          IF k \in DOMAIN saved THEN Upserted(saved[k], draft[k]) ELSE draft[k]], saved)

\* What Apply itself requires of the graph it is making, or it rolls back: an
\* Attribute's support needs the one of its Entity, a Mapping pair it makes
\* active is a branch, Code and Validation have a rule to be derived from.
SourceOfParent(g, k, q) ==
  k[1] = "logical_attribute" => DOMAIN q.sources \ Keys \subseteq DOMAIN g[EntityOf(k)].sources
OpensBranch(saved, g, catalog, k, q) ==
  k[1] = "mapping_object" /\ q.active /\ ~(k \in DOMAIN saved /\ saved[k].active)
    => IsBranch(g, catalog, k)
CodeHasContext(g, k) == k[1] = "generated_code" => CodeContext(g, k[2]) # {}
GroupHasContext(g, k) ==
  k[1] = "validation_group" =>
    \E e \in DOMAIN g : e[1] \in {"logical_entity", "dimensional_entity"}
                        /\ k[2] \in CodeContext(g, e)

Materializable(saved, draft, catalog) ==
  LET g == Materialized(saved, draft) IN
  \A k \in DOMAIN draft :
    /\ SourceOfParent(g, k, draft[k])
    /\ OpensBranch(saved, g, catalog, k, draft[k])
    /\ CodeHasContext(g, k) /\ GroupHasContext(g, k)
=============================================================================
