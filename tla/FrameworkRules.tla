--------------------------- MODULE FrameworkRules ---------------------------
(***************************************************************************)
(* What learning makes of source text: the observations the Python         *)
(* extractors take from a class, and the rules the aggregator infers from  *)
(* them.  These are functions of their arguments; FrameworkLearning and    *)
(* KnowledgeUse say when they are evaluated and on what.                   *)
(*                                                                         *)
(* A parsed file is a record                                               *)
(*   imports  local name -> import number; a "from" import is numbered in  *)
(*            the alphabetical order of (module, symbol), and its alias is *)
(*            the local name it is bound to                                *)
(*   classes  the top-level classes in order, each a record                *)
(*            family      the suffix of the name: "service", "controller"  *)
(*                        or "other"                                       *)
(*            bases, decorators   sequences of names, NoName for an        *)
(*                        expression that is neither a name nor an         *)
(*                        attribute                                        *)
(*            fields      attribute -> [type, arguments] of the last       *)
(*                        self.attribute = type(arguments) of __init__     *)
(*                        whose type is a plain name                       *)
(*            others      attribute -> [type, arguments] of the last such  *)
(*                        assignment of the whole class, in the order of   *)
(*                        ast.walk, where that is another one: it is in    *)
(*                        another method, or it calls module.type          *)
(*            calls       method of the class -> the set of                *)
(*                        self.attribute.method(arguments) it makes        *)
(***************************************************************************)
EXTENDS Integers, Sequences, FiniteSets, FiniteSetsExt, Functions

CONSTANTS Files,            \* paths of the repository, numbered in their order
          ModuleOf,         \* import number -> module it names
          ConstantTexts,    \* texts of constant constructor arguments
          MinimumEvidence   \* FrameworkRuleAggregator.minimum_evidence

ASSUME FilesAssumption == Files \subseteq Nat /\ IsFiniteSet(Files)
ASSUME ImportsAssumption == DOMAIN ModuleOf \subseteq Nat \ {0} /\ IsFiniteSet(DOMAIN ModuleOf)
ASSUME EvidenceAssumption == MinimumEvidence \in Nat

\* No such file; a file ast.parse refuses.
Absent == [state |-> "absent"]
Broken == [state |-> "unparsable"]

NoImport == 0
NoName == "no name"
Parsable(source) == source \notin {Absent, Broken}

\* A file has finitely many classes, a class finitely many bases and decorators, and what a
\* file imports has a number.
WellFormed(source) ==
    Parsable(source) =>
        /\ IsFiniteSet(DOMAIN source.classes) /\ DOMAIN source.classes \subseteq Nat
        /\ \A i \in DOMAIN source.classes :
             IsFiniteSet(DOMAIN source.classes[i].bases) /\ IsFiniteSet(DOMAIN source.classes[i].decorators)
        /\ \A name \in DOMAIN source.imports : source.imports[name] \in DOMAIN ModuleOf

-----------------------------------------------------------------------------
(* Reading a class *)

Nodes(class, kind) == IF kind = "base_class" THEN class.bases ELSE class.decorators

StructureKinds == {"base_class", "required_decorator"}

\* Classes of the family that have a base or a decorator: what rules are counted against.
Subjects(source, family) ==
    {i \in DOMAIN source.classes :
        /\ source.classes[i].family = family
        /\ <<source.classes[i].bases, source.classes[i].decorators>> # <<<<>>, <<>>>>}

Imported(source, name) == IF name \in DOMAIN source.imports THEN source.imports[name] ELSE NoImport

ConstructorArgument(expression) ==
    IF expression \in ConstantTexts \cup {"__name__"} THEN expression ELSE "unsupported"

ArgumentShapes ==
    [string |-> "string_literal", integer |-> "integer_literal", float |-> "float_literal",
     boolean |-> "boolean_literal", none |-> "none_literal", mapping |-> "empty_mapping",
     list |-> "empty_sequence", tuple |-> "empty_sequence"]

InvocationShape(expression) ==
    IF expression \in DOMAIN ArgumentShapes THEN ArgumentShapes[expression] ELSE "unsupported"

SupportedShapes == {ArgumentShapes[e] : e \in DOMAIN ArgumentShapes}

Shapes(arguments) == [i \in DOMAIN arguments |-> InvocationShape(arguments[i])]
Constructed(arguments) == [i \in DOMAIN arguments |-> ConstructorArgument(arguments[i])]

Invocation(call) == [method |-> call.method, shapes |-> Shapes(call.arguments)]
Supported(invocation) == Range(invocation.shapes) \subseteq SupportedShapes

\* The invocations of one dependency anywhere in the given methods of a class.
InvocationsIn(class, methods, attribute) ==
    {Invocation(call) : call \in {c \in UNION {class.calls[m] : m \in methods} :
                                    c.attribute = attribute}}

\* StructuralClassObservation: one for each base and each decorator, repeated or not.
StructureOf(f, source, family) ==
    UNION {UNION {
        LET nodes == Nodes(source.classes[i], kind) IN
        {[kind |-> <<family, kind>>, value |-> nodes[j], imported |-> Imported(source, nodes[j]),
          at |-> <<f, i, j>>] : j \in {n \in DOMAIN nodes : nodes[n] # NoName}}
        : kind \in StructureKinds} : i \in Subjects(source, family)}

\* ConstructorDependencyObservation: services only.
DependenciesOf(f, source) ==
    UNION {LET class == source.classes[i] IN
        {[value |-> attribute, type |-> class.fields[attribute].type,
          imported |-> Imported(source, class.fields[attribute].type),
          arguments |-> Constructed(class.fields[attribute].arguments),
          invocations |-> InvocationsIn(class, DOMAIN class.calls, attribute),
          at |-> <<f, i>>] : attribute \in DOMAIN class.fields}
        : i \in Subjects(source, "service")}

\* The observations and subjects of the files read.
Batch(read, family) ==
    LET parsed == {f \in DOMAIN read : Parsable(read[f])} IN
    [subjects |-> UNION {{<<f, i>> : i \in Subjects(read[f], family)} : f \in parsed},
     structure |-> UNION {StructureOf(f, read[f], family) : f \in parsed},
     dependencies |-> IF family = "service"
                      THEN UNION {DependenciesOf(f, read[f]) : f \in parsed} ELSE {}]

-----------------------------------------------------------------------------
(* Inferring rules *)

\* Mutant of Established: enough evidence is enough.
Established_Counted(support, subjects) == support >= MinimumEvidence

\* minimum_evidence reached, and a confidence of at least 0.8 among the subjects.
Established(support, subjects) == support >= MinimumEvidence /\ 5 * support >= 4 * subjects

WithCounts(rule, entries, batch) ==
    LET counts == [support |-> Cardinality(entries), subjects |-> Cardinality(batch.subjects),
                   active |-> Established(Cardinality(entries), Cardinality(batch.subjects))]
    IN  [x \in DOMAIN rule \cup DOMAIN counts |-> IF x \in DOMAIN rule THEN rule[x] ELSE counts[x]]

StructureRules(batch) ==
    {WithCounts(key, {o \in batch.structure : [kind |-> o.kind, value |-> o.value,
                                               imported |-> o.imported] = key}, batch)
        : key \in {[kind |-> o.kind, value |-> o.value, imported |-> o.imported]
                    : o \in batch.structure}}

Dependency == <<"dependency", "constructor">>

After(a, b) == a[1] > b[1] \/ (a[1] = b[1] /\ a[2] > b[2])

\* concrete_imports[type]: a later observation overwrites an earlier one.
ConcreteImport(entries, type) ==
    LET bound == {o \in entries : o.type = type /\ o.imported # NoImport} IN
    IF bound = {} THEN NoImport
    ELSE (CHOOSE o \in bound : \A p \in bound \ {o} : After(o.at, p.at)).imported

RequiredInvocations(entries, batch) ==
    {v \in UNION {o.invocations : o \in entries} :
        Established(Cardinality({o \in entries : v \in o.invocations}),
                    Cardinality(batch.subjects))}

DependencyRule(attribute, batch) ==
    LET entries == {o \in batch.dependencies : o.value = attribute}
        types == {o.type : o \in entries}
        shapes == {o.arguments : o \in entries}
    IN  WithCounts([kind |-> Dependency, value |-> attribute, types |-> types,
                    modules |-> {ModuleOf[o.imported] : o \in {e \in entries : e.imported # NoImport}},
                    concrete |-> [t \in types |-> ConcreteImport(entries, t)],
                    arguments |-> IF Cardinality(shapes) = 1 THEN CHOOSE s \in shapes : TRUE ELSE <<>>,
                    required |-> RequiredInvocations(entries, batch)], entries, batch)

Aggregated(batch) ==
    StructureRules(batch) \cup {DependencyRule(a, batch) : a \in {o.value : o \in batch.dependencies}}

\* FrameworkLearner: service rules and controller rules of the files read.
LearnedRules(read) == Aggregated(Batch(read, "service")) \cup Aggregated(Batch(read, "controller"))

ActiveRules(rules) == {r \in rules : r.active}
=============================================================================
