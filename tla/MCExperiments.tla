--------------------------- MODULE MCExperiments ---------------------------
(* Small instances of the harnesses for TLC. *)
EXTENDS Experiments, TLC

CONSTANTS i1, i2

Invocations == Permutations({i1, i2})

Yes    == [dec |-> "Allow", err |-> FALSE]
No     == [dec |-> "Deny", err |-> FALSE]
Raises == [dec |-> "Deny", err |-> TRUE]

\* Two shapes of one tuple; on the first the engines may disagree, on the
\* second the paths differ and both deny.
WideShapes == <<"decimal", "ipaddr">>
WideRust   == <<{Yes}, {Raises}>>
WideGo     == <<{Yes, No}, {No}>>

\* The first probe may end the Go harness, the second is lost by one engine.
RtGo   == <<{"clean", "panic", "fatal"}, {"clean", "silent_diff"}>>
RtRust == <<{"clean"}, {"clean", "parse_fail"}>>

\* Spellings that change, a type that moves to another namespace, and the two
\* changes the normalisation does not see.
AsType(t)   == TypeNode(Plain(t), NoName)
Named(n)    == TypeNode(Plain("EntityOrCommon"), n)
SpSchemas   == <<[shape |-> AsType("Foo"), attr |-> AsType("String")],
                 [shape |-> Absent, attr |-> TypeNode(Plain("Extension"), Plain("ipaddr"))]>>
SpRespelled == <<[shape |-> Named(Plain("Foo")), attr |-> Named(Reserved("String"))],
                 [shape |-> AsType("Record"), attr |-> Named(Reserved("ipaddr"))]>>
SpMoved     == [shape |-> Named(<<"NS", "Foo">>), attr |-> AsType("String")]
SpEntity    == [shape |-> TypeNode(Plain("Entity"), Plain("Foo")), attr |-> AsType("String")]
SpForeign   == [shape |-> Absent, attr |-> TypeNode(Plain("Extension"), <<"NS", "ipaddr">>)]
SpGo        == <<{SpRespelled[1], SpMoved, SpEntity}, {SpRespelled[2], SpForeign}>>
SpRust      == <<{SpRespelled[1]}, {SpRespelled[2]}>>

OpaSpec3 == <<"true", "false", "undefined">>
OpaAny   == [t \in 1 .. 3 |-> RegoValue]

TwoSubcommands == <<"never-errors", "implies">>

\* Two targets with the same heads.
PbHeads    == [t \in {"bool", "int"} |-> {"lit", "ite"}]
PbSubheads == [t \in {"bool", "int"} |-> {"record"}]
============================================================================
