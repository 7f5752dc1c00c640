--------------------------- MODULE MCKnowledgeUse ---------------------------
(***************************************************************************)
(* Repositories for KnowledgeUse: most files hold two classes of one       *)
(* shape, one file a class that differs, so that four of five classes      *)
(* agree; a file may lie in a directory the scanner leaves out.            *)
(***************************************************************************)
EXTENDS KnowledgeUse

\* Imports 1 and 2 are those of base and decorator, 3 and 4 bind Logger to two modules.
Modules == <<"core", "core", "logs", "other">>

Paths == 1 .. 6           \* 6 lies in a directory the scanner leaves out
SourcePaths == 1 .. 5
NewPath == 3
NewTest == 5
Base == "Base"
Managed == "managed"
Texts == {"'audit'"}

Bound(logger) == [Base |-> 1, managed |-> 2, Logger |-> logger]
Call(expressions) == {[attribute |-> "log", method |-> "write", arguments |-> expressions]}
Class(decorators, fields, calls) ==
    [family |-> "service", bases |-> <<Base>>, decorators |-> decorators, fields |-> fields,
     others |-> <<>>, calls |-> [m \in {"__init__", "run"} |-> IF m = "run" THEN calls ELSE {}]]
Log(type, arguments) == [log |-> [type |-> type, arguments |-> arguments]]
NoFields == [a \in {} |-> 0]
Source(logger, class) == [imports |-> Bound(logger), classes |-> <<class>>]

Plain == Source(3, Class(<<Managed>>, NoFields, {}))
Logging == Source(3, Class(<<Managed>>, Log("Logger", <<"'audit'">>), Call(<<"string">>)))
Computed == Source(3, Class(<<Managed>>, Log("Logger", <<"name">>), Call(<<"name">>)))
Elsewhere == Source(4, Class(<<Managed>>, Log("Logger", <<"'audit'">>), Call(<<"string">>)))
Typed == Source(3, Class(<<Managed>>, Log("Printer", <<>>), {}))
Twice == Source(3, Class(<<Managed, Managed>>, NoFields, {}))
Undecorated == Source(3, Class(<<>>, NoFields, {}))
Qualified == [Plain EXCEPT !.imports = [n \in {"Logger"} |-> 3]]
Unimported == [Logging EXCEPT !.imports = [n \in {Base, Managed} |-> Bound(3)[n]]]
Audited == [Unimported EXCEPT !.classes[1].fields =
                [a \in {"log", "audit"} |-> Log("Logger", <<"'audit'">>).log]]
Controller == [Plain EXCEPT !.classes[1].family = "controller"]

Common == {Plain, Logging, Computed, Qualified, Controller}
Odd == {Elsewhere, Typed, Twice, Undecorated, Controller, Absent, Broken}
Changes == {<<1, Absent>>, <<2, Broken>>, <<4, Undecorated>>, <<NewPath, Logging>>, <<6, Broken>>}

\* The two classes of a file that has the common shape.
Doubled(source) == [source EXCEPT !.classes = @ \o @]

Holding(common, at, odd) ==
    [f \in Paths |-> IF f = at THEN odd ELSE IF f \in {NewPath, NewTest, 6} THEN Absent ELSE Doubled(common)]

MCRepositories ==
    {Holding(common, 4, odd) : common \in Common, odd \in Odd}
    \cup {Holding(common, 4, common) : common \in Common}
    \cup {Holding(Logging, 1, Elsewhere), Holding(Logging, 6, Broken)}
    \cup {Holding(Unimported, 4, Unimported), Holding(Audited, 4, Logging)}

MCTasks == {[family |-> "service", operations |-> {"run", "stop"}],
            [family |-> "service", operations |-> {}],
            [family |-> "controller", operations |-> {"run"}]}
Versions == {1, 2}
=============================================================================
