-------------------------- MODULE FrameworkContext --------------------------
(***************************************************************************)
(* From the active rules to a published file: the coding context retrieved *)
(* for a task, the file the deterministic model writes from it, and the    *)
(* compliance report on a written file.  A task is a record [family,       *)
(* operations].  The rules of one kind come from one batch, so the order   *)
(* of their confidence (ORDER BY confidence DESC) is that of their rank.   *)
(***************************************************************************)
EXTENDS FrameworkRules

-----------------------------------------------------------------------------
(* Retrieval *)

OfKind(rules, kind) == {r \in rules : r.kind = kind}

Outranks(r, s) ==
    \/ r.support * s.subjects > s.support * r.subjects
    \/ r.support * s.subjects = s.support * r.subjects /\ r.support > s.support

Best(rules, kind) == {r \in OfKind(rules, kind) : \A s \in OfKind(rules, kind) : ~Outranks(s, r)}

\* select_rule refuses a kind without a rule and a tie for the first place.
Selectable(rules, kind) == Cardinality(Best(rules, kind)) = 1
Selected(rules, kind) == CHOOSE r \in Best(rules, kind) : TRUE

Resolved(rule) == Cardinality(rule.types) = 1
TypeOf(rule) == CHOOSE t \in rule.types : TRUE
Dependencies(rules) == {r \in OfKind(rules, Dependency) : Resolved(r)}

\* DependencyContext of a dependency of one type: its import is stated when all its
\* observations that have one agree on the module.
DependencyContext(rule) ==
    [attribute |-> rule.value, type |-> TypeOf(rule), arguments |-> rule.arguments,
     imported |-> IF Cardinality(rule.modules) = 1 THEN rule.concrete[TypeOf(rule)] ELSE NoImport,
     required |-> rule.required]

CodingContext(rules, family) ==
    [base |-> Selected(rules, <<family, "base_class">>),
     decorator |-> Selected(rules, <<family, "required_decorator">>),
     dependencies |-> IF family = "service" THEN {DependencyContext(r) : r \in Dependencies(rules)}
                      ELSE {}]

\* What becomes of _retrieve.  A selected rule without import metadata raises KeyError, a file
\* of the index that does not parse SyntaxError: neither is caught.
RetrievalOutcome(rules, task, sources) ==
    LET context == CodingContext(rules, task.family)
        required == UNION {d.required : d \in context.dependencies}
    IN  IF \E kind \in StructureKinds : ~Selectable(rules, <<task.family, kind>>)
        THEN "framework_knowledge_missing"
        ELSE IF NoImport \in {context.base.imported, context.decorator.imported}
        THEN "raised"
        ELSE IF \E v \in required : ~Supported(v)
        THEN "required_invocation_unsupported"
        ELSE IF \E f \in Files : sources[f] = Broken
        THEN "raised"
        ELSE IF task.operations = {} /\ required # {}
        THEN "required_invocation_operation_missing"
        ELSE "framework_retrieved"

-----------------------------------------------------------------------------
(* Generation: DeterministicPythonCodingModel *)

RenderedArgument ==
    [string_literal |-> "string", integer_literal |-> "integer", float_literal |-> "float",
     boolean_literal |-> "boolean", none_literal |-> "none", empty_mapping |-> "mapping",
     empty_sequence |-> "list"]

\* Mutant of ImportsOf: the structure's imports only, as retrieve_artifact_structure gives them.
ImportsOf_Structure(context) ==
    {<<r.value, r.imported>> : r \in {context.base, context.decorator}}

ImportsOf(context) ==
    {<<r.value, r.imported>> : r \in {context.base, context.decorator}}
    \cup {<<d.type, d.imported>> : d \in {e \in context.dependencies : e.imported # NoImport}}

\* The import lines are sorted: of two that bind one name, the greater is the one that counts.
RenderedImports(context) ==
    [name \in {i[1] : i \in ImportsOf(context)} |-> Max({i[2] : i \in {j \in ImportsOf(context) : j[1] = name}})]

RenderedCalls(context) ==
    UNION {{[attribute |-> d.attribute, method |-> v.method,
             arguments |-> [i \in DOMAIN v.shapes |-> RenderedArgument[v.shapes[i]]]]
            : v \in d.required} : d \in context.dependencies}

GeneratedClass(task, context) ==
    [family |-> task.family,
     bases |-> <<context.base.value>>,
     decorators |-> <<context.decorator.value>>,
     fields |-> [a \in {d.attribute : d \in context.dependencies} |->
                    LET d == CHOOSE e \in context.dependencies : e.attribute = a
                    IN  [type |-> d.type, arguments |-> d.arguments]],
     others |-> <<>>,
     calls |-> [m \in task.operations \cup {"__init__"} |->
                    IF m = "__init__" THEN {} ELSE RenderedCalls(context)]]

GeneratedFile(task, context) ==
    [imports |-> RenderedImports(context), classes |-> <<GeneratedClass(task, context)>>]

-----------------------------------------------------------------------------
(* Compliance *)

Provenance(source, name, imported) == imported \in {NoImport, Imported(source, name)}

\* Mutant of StructureFindings: decorators are not looked at.
StructureFindings_Base(source, class, rules, family) ==
    LET kinds == {"base_class"} IN
    {kind \in kinds : Selected(rules, <<family, kind>>).value \notin Range(Nodes(class, kind))}

\* The kinds of structure a class lacks, or takes from another import.
StructureFindings(source, class, rules, family) ==
    {kind \in StructureKinds :
        /\ OfKind(rules, <<family, kind>>) # {}
        /\ LET rule == Selected(rules, <<family, kind>>) IN
           ~(rule.value \in Range(Nodes(class, kind)) /\ Provenance(source, rule.value, rule.imported))}

Operations(class) == DOMAIN class.calls \ {"__init__"}

\* What the gate takes for the value of an attribute, which is not what the learner takes for it.
Assigned(class) ==
    [a \in DOMAIN class.fields \cup DOMAIN class.others |->
        IF a \in DOMAIN class.others THEN class.others[a] ELSE class.fields[a]]

\* Mutant of DependencyComplies: one operation that makes the required calls will do.
DependencyComplies_Once(source, class, rule) ==
    /\ rule.value \in DOMAIN Assigned(class)
    /\ Assigned(class)[rule.value].type = TypeOf(rule)
    /\ rule.modules = {} \/ Provenance(source, TypeOf(rule), rule.concrete[TypeOf(rule)])
    /\ Constructed(Assigned(class)[rule.value].arguments) = rule.arguments
    /\ \A v \in rule.required : \E m \in Operations(class) : v \in InvocationsIn(class, {m}, rule.value)

DependencyComplies(source, class, rule) ==
    /\ rule.value \in DOMAIN Assigned(class)
    /\ Assigned(class)[rule.value].type = TypeOf(rule)
    /\ rule.modules = {} \/ Provenance(source, TypeOf(rule), rule.concrete[TypeOf(rule)])
    /\ Constructed(Assigned(class)[rule.value].arguments) = rule.arguments
    /\ \A v \in rule.required :
        /\ Supported(v)
        /\ \A m \in Operations(class) : v \in InvocationsIn(class, {m}, rule.value)

OfFamily(source, family) == {i \in DOMAIN source.classes : source.classes[i].family = family}

\* validate_artifact looks at the first class of the family only.
ValidateArtifact(source, rules, family) ==
    /\ Parsable(source)
    /\ OfFamily(source, family) # {}
    /\ LET class == source.classes[Min(OfFamily(source, family))] IN
        /\ StructureFindings(source, class, rules, family) = {}
        /\ family = "service" => \A r \in Dependencies(rules) : DependencyComplies(source, class, r)

ValidateService(source, rules) == ValidateArtifact(source, rules, "service")
=============================================================================
