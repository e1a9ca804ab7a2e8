---------------------------- MODULE SchemaProbe ----------------------------
(***************************************************************************)
(* phase_i_schema_roundtrip/probe_schemas.py: every schema goes through    *)
(* cedar check-parse, the cedar CLI's and cedar-go's round trip; what came *)
(* back is compared with the input after a normalisation of the type       *)
(* spellings; the well-formed schemas that cedar-go changed or died of are *)
(* filed, and SUMMARY.md says of every schema what became of it.           *)
(*                                                                         *)
(* A name is <<namespace, identifier>>.  A type node is its "type", its    *)
(* "name" and whether "required" is not false.  A schema is the shape of   *)
(* an entity type, which may be absent, and one attribute of a common type.*)
(* Invocations share the directory, may overlap and may be killed.         *)
(***************************************************************************)
EXTENDS Integers, FiniteSets

CONSTANTS
    NSchemas,   \* len(SCHEMAS)
    SpRuns,     \* the invocations
    SpIds,      \* identifiers that are no builtin of Cedar
    SCHEMAS,    \* the schemas
    SpGoBacks,  \* bound: what the round trip of cedar-go brings back of each
    SpRustBacks \* bound: what that of the cedar CLI does

Schemas == 1 .. NSchemas

ASSUME NSchemasAssumption == NSchemas \in Nat \ {0}

Plain(id) == <<"", id>>
Reserved(id) == <<"__cedar", id>>
NoName == <<"no", "name">>

ExtensionIds == {"ipaddr", "decimal", "datetime", "duration"}

PRIMITIVE_TYPES == {Plain(p) : p \in {"Long", "String", "Boolean", "Bool"}}
              \cup {Reserved(p) : p \in {"Long", "String", "Boolean"}}
EXTENSION_TYPES == {Plain(e) : e \in ExtensionIds} \cup {Reserved(e) : e \in ExtensionIds}
CEDAR_BUILTIN_TYPES == {Plain(b) : b \in {"Record", "Set", "Entity", "EntityOrCommon",
                          "Extension", "Long", "String", "Boolean", "Bool"}}

\* What a user may declare; in a namespace of his own, also NS::ipaddr.
UserNames == ({"", "NS"} \X SpIds) \cup ({"NS"} \X ExtensionIds)
NameTags == {Plain("Entity"), Plain("EntityOrCommon"), Plain("Extension")}

ASSUME UserNamesAssumption ==
    UserNames \cap (PRIMITIVE_TYPES \cup EXTENSION_TYPES \cup CEDAR_BUILTIN_TYPES) = {}

Names == PRIMITIVE_TYPES \cup EXTENSION_TYPES \cup UserNames

\* The nodes a schema, given or brought back, may have: Entity, EntityOrCommon
\* and Extension carry a name, any name.
Node == {n \in [type : Names \cup CEDAR_BUILTIN_TYPES,
                name : Names \cup {NoName},
                required : BOOLEAN] :
            n.type \in NameTags <=> n.name # NoName}

Absent == [type |-> NoName, name |-> NoName, required |-> TRUE]
Failed(outcome) == [failed |-> outcome]
Failures == {Failed("parse_fail"), Failed("panic")}
Schema == [shape : Node \cup {Absent}, attr : Node]

ASSUME SpBoundsAssumption ==
    /\ SCHEMAS \in [Schemas -> Schema]
    /\ \A s \in Schemas : /\ SpGoBacks[s] \subseteq Schema \cup Failures
                          /\ SpRustBacks[s] \subseteq Schema \cup {Failed("parse_fail")}

BacksFrom(Backs) == {f \in [Schemas -> UNION {Backs[s] : s \in Schemas}] :
                        \A s \in Schemas : f[s] \in Backs[s]}

-----------------------------------------------------------------------------
TypeNode(type, name) == [type |-> type, name |-> name, required |-> TRUE]

Canonical(id) == IF id = "Bool" THEN "Boolean" ELSE id

\* Variant: only the identifiers are compared.
NormaliseIdentifiers(t) ==
    TypeNode(Plain("EntityOrCommon"), Plain(IF t.name = NoName THEN t.type[2] ELSE t.name[2]))

\* _normalise_type_node.  Where it builds a new node, "required" is not in it.
NormaliseTypeNode(t) ==
    CASE t.type = Plain("EntityOrCommon") /\ t.name \in PRIMITIVE_TYPES ->
            TypeNode(Plain(Canonical(t.name[2])), NoName)
      [] t.type = Plain("EntityOrCommon") /\ t.name \in EXTENSION_TYPES ->
            TypeNode(Plain("Extension"), Plain(t.name[2]))
      [] t.type = Plain("Extension") -> [t EXCEPT !.name = Plain(t.name[2])]
      [] t.type = Plain("Entity") -> TypeNode(Plain("EntityOrCommon"), t.name)
      [] t.type = Plain("Bool") -> [t EXCEPT !.type = Plain("Boolean")]
      [] t.type \notin CEDAR_BUILTIN_TYPES /\ t.name = NoName ->
            TypeNode(Plain("EntityOrCommon"), t.type)
      [] OTHER -> t

\* _normalise_top: an entity type without a shape has the empty record.
NormaliseTop(s) ==
    [shape |-> IF s.shape = Absent THEN TypeNode(Plain("Record"), NoName)
               ELSE NormaliseTypeNode(s.shape),
     attr  |-> NormaliseTypeNode(s.attr)]

\* How a round trip is called: what it brought back, against the input.
Class(input, back) ==
    IF back \in Failures THEN back.failed
    ELSE IF NormaliseTop(input) = NormaliseTop(back) THEN "clean" ELSE "silent_diff"

-----------------------------------------------------------------------------
VARIABLES
    spPc,       \* where each invocation is
    cases,      \* the cases so far: schema -> [wf, rust, go]
    toFileGaps, \* the cases it has still to file
    fixtures,   \* fixtures/: the schemas written there
    gapFiles,   \* disagreements/: the schemas that have a file
    spSummary,  \* SUMMARY.md: the cases of the invocation that wrote it
    hurt,       \* observation: schemas on which a tool died
    wellFormed, \* those the JSON schema parser takes (fixed)
    goBack, rustBack \* what the round trips bring back (fixed)

spOwn == <<cases, toFileGaps>>
spFiles == <<fixtures, gapFiles, spSummary>>
spTruths == <<wellFormed, goBack, rustBack>>
spVars == <<spPc, spOwn, spFiles, hurt, spTruths>>

SpEnded == {"exit0", "exit1", "killed"}
SpStages == {"sweep", "file", "summary", "results"}

SpInit ==
    /\ spPc = [i \in SpRuns |-> "idle"]
    /\ cases = [i \in SpRuns |-> <<>>] /\ toFileGaps = [i \in SpRuns |-> {}]
    /\ fixtures = {} /\ gapFiles = {} /\ spSummary = <<>> /\ hurt = {}
    /\ wellFormed \in SUBSET Schemas
    /\ goBack \in BacksFrom(SpGoBacks)
    /\ rustBack \in BacksFrom(SpRustBacks)

SpGoto(i, stage) == spPc' = [spPc EXCEPT ![i] = stage]

\* The process is gone, and what it knew with it.
SpEnd(i, stage) ==
    /\ SpGoto(i, stage)
    /\ cases' = [cases EXCEPT ![i] = <<>>] /\ toFileGaps' = [toFileGaps EXCEPT ![i] = {}]

\* The Go probe has to be there.
SpStart(i) ==
    /\ spPc[i] = "idle"
    /\ \/ SpGoto(i, "sweep") /\ UNCHANGED spOwn
       \/ SpEnd(i, "exit1")
    /\ UNCHANGED <<spFiles, hurt, spTruths>>

\* A tool that is killed: check-parse then calls the schema ill-formed, the
\* cedar CLI fails to parse it, the Go probe has panicked.
Verdicts(s, dead) ==
    [wf |-> s \in wellFormed /\ "check" \notin dead,
     rust |-> IF "rust" \in dead THEN "parse_fail" ELSE Class(SCHEMAS[s], rustBack[s]),
     go |-> IF "go" \in dead THEN "panic" ELSE Class(SCHEMAS[s], goBack[s])]

\* Panics and silent diffs of cedar-go, on well-formed schemas.
Gaps(C) == {s \in DOMAIN C : C[s].go \in {"silent_diff", "panic"} /\ C[s].wf}

\* One schema: its fixture, then the three tools.
SpCase(i) ==
    LET s == Cardinality(DOMAIN cases[i]) + 1
    IN /\ spPc[i] = "sweep" /\ s \in Schemas
       /\ fixtures' = fixtures \cup {s}
       /\ \E dead \in SUBSET {"check", "rust", "go"} :
            /\ cases' = [cases EXCEPT ![i] = [q \in 1 .. s |->
                            IF q < s THEN @[q] ELSE Verdicts(s, dead)]]
            /\ hurt' = IF dead = {} THEN hurt ELSE hurt \cup {s}
       /\ UNCHANGED <<spPc, toFileGaps, gapFiles, spSummary, spTruths>>

SpSwept(i) ==
    /\ spPc[i] = "sweep" /\ DOMAIN cases[i] = Schemas
    /\ SpGoto(i, "file")
    /\ toFileGaps' = [toFileGaps EXCEPT ![i] = Gaps(cases[i])]
    /\ UNCHANGED <<cases, spFiles, hurt, spTruths>>

\* disagreements/<schema>.md, in the order of the schemas.
SpFile(i) ==
    /\ spPc[i] = "file"
    /\ \E s \in toFileGaps[i] :
        /\ \A u \in toFileGaps[i] : s <= u
        /\ gapFiles' = gapFiles \cup {s}
        /\ toFileGaps' = [toFileGaps EXCEPT ![i] = @ \ {s}]
    /\ UNCHANGED <<spPc, cases, fixtures, spSummary, hurt, spTruths>>

\* Variant: the summary is written before the files.
SpReportFirst(i) ==
    /\ \/ /\ spPc[i] = "file" /\ SpGoto(i, "summary") /\ UNCHANGED <<spOwn, spSummary>>
       \/ /\ spPc[i] = "summary" /\ SpGoto(i, "results")
          /\ spSummary' = cases[i] /\ UNCHANGED spOwn
       \/ spPc[i] = "results" /\ SpEnd(i, "exit0") /\ UNCHANGED spSummary
    /\ UNCHANGED <<fixtures, gapFiles, hurt, spTruths>>

\* SUMMARY.md is truncated and written, then results.json: exit 0.
SpReport(i) ==
    /\ \/ /\ spPc[i] = "file" /\ toFileGaps[i] = {}
          /\ SpGoto(i, "summary") /\ spSummary' = <<>> /\ UNCHANGED spOwn
       \/ /\ spPc[i] = "summary" /\ SpGoto(i, "results")
          /\ spSummary' = cases[i] /\ UNCHANGED spOwn
       \/ spPc[i] = "results" /\ SpEnd(i, "exit0") /\ UNCHANGED spSummary
    /\ UNCHANGED <<fixtures, gapFiles, hurt, spTruths>>

SpKill(i) ==
    /\ spPc[i] \in SpStages
    /\ SpEnd(i, "killed")
    /\ UNCHANGED <<spFiles, hurt, spTruths>>

SpStep(i) == SpStart(i) \/ SpCase(i) \/ SpSwept(i) \/ SpFile(i) \/ SpReport(i)

SpNext == \E i \in SpRuns : SpStep(i) \/ SpKill(i)

SpSpec == SpInit /\ [][SpNext]_spVars

-----------------------------------------------------------------------------
\* Properties

SpClass == {"clean", "silent_diff", "parse_fail", "panic"}
SpCases == UNION {[1 .. k -> [wf : BOOLEAN, rust : SpClass, go : SpClass]] : k \in 0 .. NSchemas}

SpTypeOK ==
    /\ spPc \in [SpRuns -> {"idle"} \cup SpStages \cup SpEnded]
    /\ cases \in [SpRuns -> SpCases] /\ toFileGaps \in [SpRuns -> SUBSET Schemas]
    /\ fixtures \subseteq Schemas /\ gapFiles \subseteq Schemas
    /\ spSummary \in SpCases
    /\ hurt \subseteq Schemas /\ wellFormed \subseteq Schemas
    /\ goBack \in BacksFrom(SpGoBacks) /\ rustBack \in BacksFrom(SpRustBacks)

\* The type a node stands for, for Cedar: a name alone is resolved, an Entity is
\* one whatever else has its name, and only four Extensions exist.
NamedType(n) ==
    CASE n \in PRIMITIVE_TYPES -> <<"primitive", Canonical(n[2])>>
      [] n \in EXTENSION_TYPES -> <<"extension", n[2]>>
      [] OTHER -> <<"declared", n>>

TypeOf(t) ==
    CASE t.type = Plain("Entity") -> <<"entity", t.name>>
      [] t.type = Plain("EntityOrCommon") -> NamedType(t.name)
      [] t.type = Plain("Extension") ->
            IF t.name \in EXTENSION_TYPES THEN NamedType(t.name) ELSE <<"no extension", t.name>>
      [] t.type \in {Plain("Record"), Plain("Set")} -> <<"structure", t.type[2]>>
      [] OTHER -> NamedType(t.type)

TypesOf(s) ==
    [shape |-> IF s.shape = Absent THEN <<"structure", "Record">> ELSE TypeOf(s.shape),
     attr  |-> TypeOf(s.attr)]

\* The different types that _normalise_type_node takes for one, in one direction:
\* an Entity for whatever its name is resolved to, and as an Extension any
\* identifier for the same one of another namespace.
Confused(T, U) ==
    \/ \E n \in Names : T = <<"entity", n>> /\ U = NamedType(n)
    \/ \E n \in Names :
          /\ T = <<"no extension", n>>
          /\ \/ U = <<"extension", n[2]>>
             \/ \E m \in Names : m[2] = n[2] /\ U = <<"no extension", m>>

Alike(T, U) == T = U \/ Confused(T, U) \/ Confused(U, T)

AlikeSchemas(s, b) ==
    Alike(TypesOf(s).shape, TypesOf(b).shape) /\ Alike(TypesOf(s).attr, TypesOf(b).attr)

\* A round trip that SUMMARY.md calls clean, of either engine, has not changed
\* a type, whichever spelling it went in and came back with, but for the two
\* confusions of _normalise_type_node and nothing else.  ("required" is not part
\* of this: the normal form can lose it.)
CleanKeepsTypes ==
    \A s \in DOMAIN spSummary :
        /\ spSummary[s].go = "clean" => AlikeSchemas(SCHEMAS[s], goBack[s])
        /\ spSummary[s].rust = "clean" => AlikeSchemas(SCHEMAS[s], rustBack[s])

\* Every well-formed schema whose types cedar-go really changes has its file when
\* SUMMARY.md is there, and everything the summary lists as filed has its file and
\* its fixture, whoever else writes or was killed in the directory; only the two
\* confusions can hide a change, or a tool that died on the schema.
LossesAreFiled ==
    spSummary # <<>> =>
        /\ \A s \in wellFormed \ hurt :
            goBack[s] \in Schema /\ ~AlikeSchemas(SCHEMAS[s], goBack[s]) => s \in gapFiles
        /\ Gaps(spSummary) \subseteq gapFiles \cap fixtures

\* "Normalise a JSON `type` node so that semantically-equivalent Cedar
\* JSON-schema spellings deep-equal": what SUMMARY.md calls a silent diff of
\* cedar-go is not the same types, required or optional as before.
Optional(s) == <<s.shape # Absent /\ ~s.shape.required, ~s.attr.required>>

SilentDiffsDiffer ==
    \A s \in DOMAIN spSummary :
        spSummary[s].go = "silent_diff" =>
            \/ TypesOf(goBack[s]) # TypesOf(SCHEMAS[s])
            \/ Optional(goBack[s]) # Optional(SCHEMAS[s])
=============================================================================
