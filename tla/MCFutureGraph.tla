--------------------------- MODULE MCFutureGraph ---------------------------
(* Slices of one Project, told apart by the names of their Entities.  What a *)
(* record may cite, its contents and its locks follow from its key.          *)
EXTENDS FutureGraph

CONSTANTS
  obj, sys,                                    \* an Object, the System it comes from
  scope, context, layers, links, mapped, coded, shared,   \* Logical Entities
  dim, att, other,                             \* a Dimensional Entity, Attributes
  grp, rec, area, file1, file2, chk

In         == <<"project_input_scope", obj>>
Group      == <<"context_group", grp>>
Record     == <<"context_record", grp, rec>>
Le(n)      == <<"logical_entity", n>>
La(n, m)   == <<"logical_attribute", n, m>>
De(n)      == <<"dimensional_entity", n>>
Da(n, m)   == <<"dimensional_attribute", n, m>>
Mo(k)      == <<"mapping_object", k, sys>>
Ma(k, m)   == <<"mapping_attribute", k, sys, m>>
Gc(k, f)   == <<"generated_code", k, f>>
Cs(k, f)   == <<"generated_code_source_system", k, f, sys>>

ScopeKeys   == {In, Le(scope), La(scope, att)}
ContextKeys == {Group, Record, Le(context), La(context, att)}
LayerKeys   == {Le(layers), La(layers, att), De(dim), Da(dim, att)}
LinkKeys    == {In, Le(links), La(links, att), La(links, other),
                <<"logical_relationship", La(links, att), La(links, other)>>}
AreaKeys    == {In, <<"subject_area", area>>, <<"subject_area_table", area, obj>>}
MappingKeys == {In, Le(mapped), La(mapped, att), Mo(Le(mapped)), Ma(Le(mapped), att),
                Gc(Le(mapped), file1), Cs(Le(mapped), file1)}
CodeKeys    == {In, Le(coded), Mo(Le(coded)), Gc(Le(coded), file1), Gc(Le(coded), file2),
                Cs(Le(coded), file1), Cs(Le(coded), file2),
                <<"validation_group", sys>>, <<"validation_check", sys, chk>>}

\* Two Entities mapped from one System.
SharedKeys  == {In, Le(shared), De(dim), Mo(Le(shared)), Mo(De(dim)), <<"validation_group", sys>>}

MCSlices    == {ScopeKeys, ContextKeys, LayerKeys, LinkKeys, AreaKeys, MappingKeys, CodeKeys, SharedKeys}
MCKeys      == UNION MCSlices
SharedSlice == {SharedKeys}

Alone(keys) == {<<k, k>> : k \in keys}
Coupled ==
  {<<In, Le(scope)>>, <<Le(scope), La(scope, att)>>, <<Le(layers), La(layers, att)>>,
   <<De(dim), Da(dim, att)>>,
   <<Le(mapped), La(mapped, att)>>, <<Mo(Le(mapped)), Ma(Le(mapped), att)>>,
   <<Gc(Le(mapped), file1), Cs(Le(mapped), file1)>>,
   <<Gc(Le(coded), file1), Cs(Le(coded), file1)>>,
   <<Gc(Le(coded), file2), Cs(Le(coded), file2)>>,
   <<Cs(Le(coded), file1), Cs(Le(coded), file2)>>}
MCTogether     == Coupled \cup Alone(MCKeys)
SharedTogether == Alone(SharedKeys)

MCObjects == {obj}

\* The Object is of Bronze: it comes from sys and is placed elsewhere.
Full        == [systems |-> {sys}, objects |-> {obj}, inputs |-> {obj}, feeds |-> {<<obj, sys>>}]
NoInput     == [Full EXCEPT !.inputs = {}, !.feeds = {}]
NoObject    == [NoInput EXCEPT !.objects = {}]
NoSystem    == [Full EXCEPT !.systems = {}, !.feeds = {}]
MCCatalogs  == {Full, NoInput, NoObject, NoSystem}
MCSystemOf  == [k \in Keys |-> sys]

\* A part of the metadata goes only where the slice names it.
Named ==
  /\ catalog \in {NoInput, NoObject} => \E k \in DOMAIN saved : obj \in NamedObjects(k, saved[k])
  /\ catalog = NoSystem => \E k \in DOMAIN saved : NamedSystems(k, saved[k]) # {}

Cites(k) ==
  CASE k[1] \in {"logical_entity", "logical_attribute"} ->
         CASE k[2] = context -> {Record}
           [] k[2] = layers -> {}
           [] OTHER -> {obj}
    [] k[1] = "dimensional_entity" -> {Le(layers), Le(shared)}
    [] k[1] = "dimensional_attribute" -> {La(layers, att)}
    [] OTHER -> {}
MCSupports == [k \in Keys |-> Cites(k) \cap (Keys \cup Objects)]

MCLocks == [k \in Keys |-> IF k \in (ScopeKeys \cup ContextKeys) \ {In, Group}
                           THEN BOOLEAN ELSE {FALSE}]
MCStates == [k \in Keys |-> IF k \in ScopeKeys THEN {"active", "inactive", "locked"}
                            ELSE IF k \in ContextKeys \cup LayerKeys THEN {"active", "inactive"}
                            ELSE {"active"}]
MCContents ==
  [k \in Keys |->
     IF k \in {Group, Le(scope), Mo(Le(mapped)), Ma(Le(mapped), att),
               La(links, other)}
     THEN {"bare", "full"} ELSE {"full"}]
=============================================================================
