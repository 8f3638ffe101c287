---------------------------- MODULE FutureGraph ----------------------------
(* How the saved graph of a Project changes: agents and people Apply drafts  *)
(* over it, people lock, unlock, retire, reactivate and delete records with  *)
(* everything that depends on them, and the registered metadata changes      *)
(* beneath: Objects, Connections and Systems come and go.                    *)
EXTENDS ProjectGraph

CONSTANTS
  Slices,       \* SUBSET SUBSET Keys: the parts of a Project looked at, one at a time
  Together,     \* SUBSET (Keys \X Keys): what one draft changes, <<k, k>> being k alone
  Deletes,      \* an administrator deletes records
  Reactivates   \* people reactivate records

ASSUME FutureGraphConstants ==
  /\ Together \subseteq Keys \X Keys
  /\ {Deletes, Reactivates} \subseteq BOOLEAN

VARIABLES
  saved,    \* the applied graph
  catalog   \* the registered metadata

vars == <<saved, catalog>>

Init == saved = <<>> /\ catalog \in Catalogs

\* The metadata belongs to others: it changes without a look at the Project.
Recatalog(c) ==
  /\ catalog' = c
  /\ UNCHANGED saved

-----------------------------------------------------------------------------
(* Drafts.                                                                   *)

\* A draft carries every support its record already has, as its author is told
\* to.  It is validated and materialized in one transaction.
ApplyDraft(draft) ==
  /\ \A k \in DOMAIN draft \cap DOMAIN saved :
       DOMAIN saved[k].sources \subseteq DOMAIN draft[k].sources
  /\ Valid(saved, draft, catalog, TRUE)
  /\ Materializable(saved, draft, catalog)
  /\ saved' = Materialized(saved, draft)
  /\ UNCHANGED catalog

Apply(k, l) ==
  /\ \E slice \in Slices : DOMAIN saved \cup {k, l} \subseteq slice
  /\ \E r \in RecordsOf(k) :
       IF k = l THEN ApplyDraft([n \in {k} |-> r])
       ELSE \E q \in RecordsOf(l) : ApplyDraft([n \in {k, l} |-> IF n = k THEN r ELSE q])

\* A person edits the content of one modeled record; the rest is kept.
Edit(k, c) ==
  /\ k \in DOMAIN saved
  /\ k[1] \in {"logical_entity", "logical_attribute", "logical_relationship",
               "dimensional_entity", "dimensional_attribute", "dimensional_relationship",
               "mapping_object"}
  /\ ApplyDraft([n \in {k} |-> [saved[n] EXCEPT !.content = c]])

-----------------------------------------------------------------------------
(* Reviews of saved records by people.                                       *)

Reviewable == {k \in Keys : k[1] \notin {"context_group", "project_input_scope"}}
Actions == {"lock", "unlock", "deactivate"} \cup (IF Reactivates THEN {"reactivate"} ELSE {})

ContextSupports(k) ==
  {s \in ActiveSources(saved[k]) \cap Keys : s[1] = "context_record"}
EntitySupports(k) ==
  {s \in ActiveSources(saved[k]) \cap Keys : s[1] \in {"logical_entity", "logical_attribute"}}

SupportsOf(k, action) ==
  IF action = "delete" THEN DOMAIN saved[k].sources \cap Keys
  ELSE ContextSupports(k) \cup EntitySupports(k)

LifecycleReferences(k) == ActiveReferences(k)

\* mutant: a header is kept when its Attributes are retired
HeaderAlone(k, action) ==
  {a \in DOMAIN saved : a[1] = "generated_code_source_system" /\ References(a) = {k}}

\* A Mapping and its Attributes stand or fall together, and so do an artifact
\* and its assignments.
MembersOf(k, action) ==
  {m \in DOMAIN saved :
     \/ /\ m[1] = "mapping_attribute" /\ <<"mapping_object", m[2], m[3]>> = k
        /\ \/ action \in {"reactivate", "delete"}
           \/ AttributeOf(m[2], m[4]) \in ActiveIn(saved)
     \/ m[1] = "generated_code_source_system" /\ References(m) = {k}}

\* What a record depends on.
ParentsOf(k, action) ==
  LifecycleReferences(k) \cup SupportsOf(k, action) \cup MembersOf(k, action)

\* The records a review looks at: deletion counts the inactive ones too.
Considered(action) == IF action = "delete" THEN DOMAIN saved ELSE ActiveIn(saved)

\* An Entity's artifacts are retired together.
BundleOf(plan, action) ==
  {c \in Considered(action) : c[1] = "generated_code"
     /\ \E d \in plan : d[1] = "generated_code" /\ d[2] = c[2]}

\* mutant: the Validation of a System is left alone
NoGroup(plan, action) == {}

\* A System that loses its last Mapping loses its Validation Groups.
OrphanedGroups(plan, action) ==
  {v \in Considered(action) : v[1] = "validation_group"
     /\ (\E m \in plan : m[1] = "mapping_object" /\ m[3] = v[2])
     /\ (\A m \in Considered(action) : m[1] = "mapping_object" /\ m[3] = v[2] => m \in plan)}

Widened(plan, action) ==
  plan \cup
  IF action = "reactivate"
  THEN {p \in Reviewable \cap (DOMAIN saved \ ActiveIn(saved)) :
          \E k \in plan : p \in ParentsOf(k, action)}
  ELSE {k \in Reviewable \cap Considered(action) : ParentsOf(k, action) \cap plan # {}}
       \cup BundleOf(plan, action) \cup OrphanedGroups(plan, action)

\* Every round takes along what the last one left depending on the plan.
Rounds(selected, action) ==
  LET round[n \in 0 .. Cardinality(DOMAIN saved)] ==
        IF n = 0 THEN selected ELSE Widened(round[n - 1], action)
  IN round

Plan(selected, action) ==
  IF action \in {"lock", "unlock"} THEN selected
  ELSE Rounds(selected, action)[Cardinality(DOMAIN saved)]

Decided(r, action) ==
  CASE action = "lock" -> [r EXCEPT !.locked = TRUE]
    [] action = "unlock" -> [r EXCEPT !.locked = FALSE]
    [] action = "deactivate" -> [r EXCEPT !.active = FALSE]
    [] action = "reactivate" -> [r EXCEPT !.active = TRUE]
Reviewed(plan, action) == [k \in plan |-> Decided(saved[k], action)]

\* One record, or a whole layer.
Selections(action) ==
  {{k} : k \in {n \in Reviewable \cap DOMAIN saved :
                  action \in {"lock", "unlock"} => LocksOf[n] = BOOLEAN}} \cup
  IF action \in {"deactivate", "delete"}
  THEN {{k \in Considered(action) : k[1] \in layer} :
          layer \in {{"subject_area", "subject_area_table"},
                     {"logical_entity", "logical_attribute", "logical_relationship"},
                     {"dimensional_entity", "dimensional_attribute", "dimensional_relationship"}}}
  ELSE {}

\* Unlocking is validated as if the selected records were unlocked already.
ReviewBase(plan, action) ==
  IF action = "unlock" THEN Over(Reviewed(plan, action), saved) ELSE saved

\* A review writes the two lifecycle fields of its plan and nothing else.
Review(selected, action) ==
  LET plan == Plan(selected, action) IN
  /\ plan # {}
  /\ Valid(ReviewBase(plan, action), Reviewed(plan, action), catalog,
           action \notin {"lock", "unlock"})
  /\ saved' = Over(Reviewed(plan, action), saved)
  /\ UNCHANGED catalog

Protected(k) ==
  saved[k].locked \/ \E s \in DOMAIN saved[k].sources : saved[k].sources[s] = "locked"

\* An administrator deletes a plan for good; no future graph is validated.
Delete(selected) ==
  LET plan == Plan(selected, "delete") IN
  /\ Deletes
  /\ plan # {} /\ \A k \in plan : k[1] # "context_record" /\ ~Protected(k)
  /\ saved' = [k \in DOMAIN saved \ plan |-> saved[k]]
  /\ UNCHANGED catalog

Next ==
  \/ \E c \in Catalogs \ {catalog} : Recatalog(c)
  \/ \E pair \in Together : Apply(pair[1], pair[2])
  \/ \E k \in Keys : \E c \in ContentsOf[k] : Edit(k, c)
  \/ \E a \in Actions : \E s \in Selections(a) : Review(s, a)
  \/ \E s \in Selections("delete") : Delete(s)

Spec == Init /\ [][Next]_vars

-----------------------------------------------------------------------------
(* Properties.                                                               *)

\* An active Validation Group has an active Mapping for its System.
GroupsAreMapped ==
  \A k \in ActiveIn(saved) : k[1] = "validation_group" => GroupIsMapped(saved, k)

\* The metadata still has what the saved records name, inactive ones included:
\* their Systems active, their Objects known.
Catalogued ==
  \A k \in DOMAIN saved : /\ NamedSystems(k, saved[k]) \subseteq catalog.systems
                          /\ NamedObjects(k, saved[k]) \subseteq catalog.objects

\* A draft that leaves the saved records as they are is refused for them.
Stuck == ~Valid(saved, <<>>, catalog, TRUE)

\* What is saved blocks the next draft for two reasons only: the metadata no
\* longer has a System or an Object that some record names, or a deletion left a
\* Validation Group without Mapping.  An Object that merely stops being an input
\* blocks nothing, nor does any Apply, review or other deletion
\* (validate_future_graph judges the whole graph; plan_project_deletion nothing).
StuckHasCause == Stuck <=> ~(Catalogued /\ GroupsAreMapped)

\* While neither is so, active records can be retired whenever no locked one
\* depends on them: the plan of a review takes along exactly enough dependent
\* records for the rest to validate (plan_project_record_review beside
\* validate_future_graph).
RetirementCloses ==
  Catalogued /\ GroupsAreMapped =>
    \A selected \in Selections("deactivate") : selected \subseteq ActiveIn(saved) =>
      LET plan == Plan(selected, "deactivate") IN
      (\A k \in plan : saved[k].locked => ~saved[k].active)
        => Valid(saved, Reviewed(plan, "deactivate"), catalog, TRUE)

\* A locked record changes only by being unlocked, and a locked support never,
\* whatever draft, review or deletion reaches it or its owner.
LockedStays ==
  [][\A k \in DOMAIN saved :
       /\ saved[k].locked
            => k \in DOMAIN saved' /\ saved'[k] \in {saved[k], [saved[k] EXCEPT !.locked = FALSE]}
       /\ \A s \in DOMAIN saved[k].sources : saved[k].sources[s] = "locked"
            => k \in DOMAIN saved' /\ s \in DOMAIN saved'[k].sources
               /\ saved'[k].sources[s] = "locked"]_saved

\* New or changed content rests on the Project's inputs only: every Object a
\* record cites is in scope at the moment the record becomes more than its
\* retained history.
ContentInScope ==
  [][\A k \in DOMAIN saved' :
       ~(k \in DOMAIN saved /\ RetainsHistory(saved[k], saved'[k]))
         => DOMAIN saved'[k].sources \ Keys \subseteq InputObjects(saved', catalog')]_saved

\* No review or deletion leaves an active Mapping without the rule it had: what
\* carries the last rule takes its Mapping along.  (A draft may do it.)
ReviewsKeepRules ==
  [][(\E m \in ActiveIn(saved) \cap ActiveIn(saved') :
        m[1] = "mapping_object" /\ HasRule(saved, m) /\ ~HasRule(saved', m))
     => ~ \/ \E a \in Actions : \E s \in Selections(a) : Review(s, a)
          \/ \E s \in Selections("delete") : Delete(s)]_saved

\* A Mapping pair becomes active only as a branch of its Entity.
OpenedAsBranch ==
  [][\A k \in ActiveIn(saved') :
       k[1] = "mapping_object" /\ k \notin ActiveIn(saved) => IsBranch(saved', catalog', k)]_saved
=============================================================================
