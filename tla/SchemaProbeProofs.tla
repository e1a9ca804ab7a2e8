------------------------- MODULE SchemaProbeProofs -------------------------
(* Theorems of SchemaProbe, for any schemas, round trips and invocations.   *)
EXTENDS SchemaProbe, FiniteSetTheorems, TLAPS

\* Names in two namespaces differ, and so do two names of one namespace.
LEMMA NamesDiffer ==
  /\ \A p, q : Plain(p) = Plain(q) => p = q
  /\ \A p, q : Plain(p) # Reserved(q)
  /\ \A p : Plain(p)[2] = p /\ Reserved(p)[2] = p
  /\ \A p : Plain(p) # NoName /\ Reserved(p) # NoName
  BY DEF Plain, Reserved, NoName

LEMMA PrimitiveNames ==
  /\ \A n \in PRIMITIVE_TYPES : n[2] \in {"Long", "String", "Boolean", "Bool"} /\ n # NoName
  /\ \A p \in {"Long", "String", "Boolean", "Bool"} : Plain(p) \in PRIMITIVE_TYPES
  <1>1. \A n \in PRIMITIVE_TYPES : \E p \in {"Long", "String", "Boolean", "Bool"} :
            n = Plain(p) \/ n = Reserved(p)
    BY DEF PRIMITIVE_TYPES
  <1>2. \A p \in {"Long", "String", "Boolean", "Bool"} : Plain(p) \in PRIMITIVE_TYPES
    BY DEF PRIMITIVE_TYPES
  <1> QED
    BY <1>1, <1>2, NamesDiffer

LEMMA ExtensionNames ==
  /\ \A n \in EXTENSION_TYPES :
        n[2] \in ExtensionIds /\ n # NoName /\ n \notin PRIMITIVE_TYPES
  /\ \A p \in ExtensionIds : Plain(p) \in EXTENSION_TYPES
  <1>1. \A n \in EXTENSION_TYPES : \E p \in ExtensionIds :
            n = Plain(p) \/ n = Reserved(p)
    BY DEF EXTENSION_TYPES
  <1>2. \A p \in ExtensionIds : Plain(p) \in EXTENSION_TYPES
    BY DEF EXTENSION_TYPES
  <1> QED
    BY <1>1, <1>2, NamesDiffer, PrimitiveNames DEF ExtensionIds

LEMMA BuiltinNames ==
  /\ \A b \in {"Record", "Set", "Entity", "EntityOrCommon", "Extension", "Bool"} :
        Plain(b) \in CEDAR_BUILTIN_TYPES
  /\ NameTags \subseteq CEDAR_BUILTIN_TYPES
  /\ \A n \in CEDAR_BUILTIN_TYPES \cup UserNames : n # NoName
  <1>1. \A n \in UserNames : n # NoName
    <2>1. \A n \in UserNames : n[1] \in {"", "NS"}
      BY DEF UserNames
    <2>2. NoName[1] = "no"
      BY DEF NoName
    <2> QED
      BY <2>1, <2>2
  <1> QED
    BY <1>1, NamesDiffer DEF NameTags, CEDAR_BUILTIN_TYPES

\* The three tags and the two structures are five different names, and none of
\* them is that of a primitive type.
LEMMA TagsDiffer ==
  /\ Plain("EntityOrCommon") # Plain("Extension") /\ Plain("EntityOrCommon") # Plain("Entity")
  /\ Plain("Entity") # Plain("Extension")
  /\ \A b \in {"Long", "String", "Boolean", "Bool"} :
        Plain(b) \notin NameTags \cup {Plain("Record"), Plain("Set")}
  /\ \A b \in {"Record", "Set"} : Plain(b) \notin NameTags
  BY NamesDiffer DEF NameTags

\* Every node has a type tag and, if that wants one, a name.
LEMMA NodeNames ==
  ASSUME NEW n \in Node
  PROVE  /\ n.type \in NameTags <=> n.name # NoName
         /\ n.type \in Names \cup CEDAR_BUILTIN_TYPES /\ n.name \in Names \cup {NoName}
         /\ n.type # NoName /\ NoName \notin Names
         /\ n = [type |-> n.type, name |-> n.name, required |-> n.required]
         /\ n # Absent
  <1>1. /\ n.type \in NameTags <=> n.name # NoName
        /\ n.type \in Names \cup CEDAR_BUILTIN_TYPES /\ n.name \in Names \cup {NoName}
        /\ n = [type |-> n.type, name |-> n.name, required |-> n.required]
    BY DEF Node
  <1>2. NoName \notin Names \cup CEDAR_BUILTIN_TYPES
    BY PrimitiveNames, ExtensionNames, BuiltinNames DEF Names
  <1> QED
    BY <1>1, <1>2 DEF Absent

\* A node with another name or type.
LEMMA Rebuilt ==
  ASSUME NEW S, NEW n \in [type : S, name : S, required : {TRUE}], NEW x
  PROVE  /\ [n EXCEPT !.name = x] = [type |-> n.type, name |-> x, required |-> TRUE]
         /\ [n EXCEPT !.type = x] = [type |-> x, name |-> n.name, required |-> TRUE]
  <1> DEFINE T == S \cup {x}
             renamed == [n EXCEPT !.name = x]
             retyped == [n EXCEPT !.type = x]
  <1>1. \A r \in [type : T, name : T, required : {TRUE}] :
            r = [type |-> r.type, name |-> r.name, required |-> r.required]
    OBVIOUS
  <1>2. /\ renamed \in [type : T, name : T, required : {TRUE}]
        /\ renamed.type = n.type /\ renamed.name = x /\ renamed.required = TRUE
    OBVIOUS
  <1>3. /\ retyped \in [type : T, name : T, required : {TRUE}]
        /\ retyped.type = x /\ retyped.name = n.name /\ retyped.required = TRUE
    OBVIOUS
  <1> HIDE DEF T, renamed, retyped
  <1>4. renamed = [type |-> n.type, name |-> x, required |-> TRUE]
    BY <1>1, <1>2
  <1>5. retyped = [type |-> x, name |-> n.name, required |-> TRUE]
    BY <1>1, <1>3
  <1> QED
    BY <1>4, <1>5 DEF renamed, retyped

\* TypeOf, one kind of node at a time.
LEMMA TypeOfKinds ==
  /\ \A t : t.type = Plain("Entity") => TypeOf(t) = <<"entity", t.name>>
  /\ \A t : t.type = Plain("EntityOrCommon") => TypeOf(t) = NamedType(t.name)
  /\ \A t : t.type = Plain("Extension") =>
        TypeOf(t) = IF t.name \in EXTENSION_TYPES THEN NamedType(t.name)
                    ELSE <<"no extension", t.name>>
  /\ \A t : t.type \notin NameTags \cup {Plain("Record"), Plain("Set")}
              => TypeOf(t) = NamedType(t.type)
  /\ \A t : t.type \in {Plain("Record"), Plain("Set")} => TypeOf(t) = <<"structure", t.type[2]>>
  <1> USE NamesDiffer, TagsDiffer
  <1>1. \A t : t.type = Plain("Entity") => TypeOf(t) = <<"entity", t.name>>
    BY DEF TypeOf, NameTags
  <1>2. \A t : t.type = Plain("EntityOrCommon") => TypeOf(t) = NamedType(t.name)
    BY DEF TypeOf, NameTags
  <1>3. \A t : t.type = Plain("Extension") =>
          TypeOf(t) = IF t.name \in EXTENSION_TYPES THEN NamedType(t.name)
                      ELSE <<"no extension", t.name>>
    BY DEF TypeOf, NameTags
  <1>4. \A t : t.type \notin NameTags \cup {Plain("Record"), Plain("Set")}
              => TypeOf(t) = NamedType(t.type)
    BY DEF TypeOf, NameTags
  <1>5. \A t : t.type \in {Plain("Record"), Plain("Set")} => TypeOf(t) = <<"structure", t.type[2]>>
    BY DEF TypeOf, NameTags
  <1> QED
    BY <1>1, <1>2, <1>3, <1>4, <1>5

LEMMA NamedTypes ==
  /\ \A x \in PRIMITIVE_TYPES : NamedType(x) = <<"primitive", Canonical(x[2])>>
  /\ \A x \in EXTENSION_TYPES : NamedType(x) = <<"extension", x[2]>>
  <1>1. ASSUME NEW x \in PRIMITIVE_TYPES PROVE NamedType(x) = <<"primitive", Canonical(x[2])>>
    <2>1. x \notin EXTENSION_TYPES
      BY ExtensionNames
    <2> QED
      BY <2>1 DEF NamedType
  <1>2. ASSUME NEW x \in EXTENSION_TYPES PROVE NamedType(x) = <<"extension", x[2]>>
    BY ExtensionNames DEF NamedType
  <1> QED
    BY <1>1, <1>2

\* What normalises to the Extension of an identifier.
Namesakes(id) ==
  {<<"extension", id>>} \cup {<<"no extension", x>> : x \in {y \in Names : y[2] = id}}

\* The types of the nodes that _normalise_type_node makes the node m of.
Readings(m) ==
  IF m.type = Plain("EntityOrCommon") THEN {<<"entity", m.name>>, NamedType(m.name)}
  ELSE IF m.type = Plain("Extension") THEN Namesakes(m.name[2])
  ELSE {TypeOf(m)}

\* _normalise_type_node respells a type, or mistakes an Entity for what has its
\* name or an Extension for another of the same identifier, and nothing else.
LEMMA NormaliseKeepsType ==
  ASSUME NEW n \in Node
  PROVE  LET m == NormaliseTypeNode(n)
         IN /\ TypeOf(n) \in Readings(m) /\ m # Absent
            /\ m.type = Plain("EntityOrCommon") => m.name \in Names
  <1> DEFINE m == NormaliseTypeNode(n)
             named(x) == x \in PRIMITIVE_TYPES \cup EXTENSION_TYPES
             read(k) == /\ TypeOf(n) \in Readings(k) /\ k # Absent
                        /\ k.type = Plain("EntityOrCommon") => k.name \in Names
  <1> SUFFICES read(m)
    OBVIOUS
  <1> USE NamesDiffer, TagsDiffer
  <1>1. /\ n.type \in NameTags <=> n.name # NoName
        /\ n.type \in Names \cup CEDAR_BUILTIN_TYPES /\ n.name \in Names \cup {NoName}
        /\ n.type # NoName /\ NoName \notin Names
        /\ n = [type |-> n.type, name |-> n.name, required |-> n.required]
    BY NodeNames
  <1>2. Absent.type = NoName
    BY DEF Absent
  <1>3. \A t, x : TypeNode(t, x).type = t /\ TypeNode(t, x).name = x
    BY DEF TypeNode
  <1>4. Plain("Entity") \in NameTags /\ Plain("EntityOrCommon") \in NameTags
          /\ Plain("Extension") \in NameTags
    BY DEF NameTags
  <1>6. /\ \A k : k.type = Plain("EntityOrCommon")
              => Readings(k) = {<<"entity", k.name>>, NamedType(k.name)}
        /\ \A k : k.type = Plain("Extension") => Readings(k) = Namesakes(k.name[2])
        /\ \A k : k.type \notin {Plain("EntityOrCommon"), Plain("Extension")}
              => Readings(k) = {TypeOf(k)}
    BY DEF Readings
  <1>5. \A p \in {"Long", "String", "Boolean", "Bool"} :
            /\ Canonical(p) \in {"Long", "String", "Boolean", "Bool"}
            /\ Canonical(Canonical(p)) = Canonical(p)
    BY DEF Canonical
  <1>11. CASE n.type = Plain("EntityOrCommon") /\ n.name \in PRIMITIVE_TYPES
    <2>1. m = TypeNode(Plain(Canonical(n.name[2])), NoName)
      BY <1>11, ExtensionNames, BuiltinNames, <1>4 DEF NormaliseTypeNode
    <2>2. Canonical(n.name[2]) \in {"Long", "String", "Boolean", "Bool"}
      BY <1>5, <1>11, PrimitiveNames
    <2>6. m.type = Plain(Canonical(n.name[2]))
      BY <1>3, <2>1
    <2>7. m.type \notin NameTags \cup {Plain("Record"), Plain("Set")} /\ m.type # NoName
      BY <2>2, <2>6
    <2>3. TypeOf(m) = NamedType(m.type)
      BY TypeOfKinds, <2>7
    <2>4. TypeOf(m) = <<"primitive", Canonical(n.name[2])>>
      BY NamedTypes, <1>5, <1>11, <2>2, <2>3, <2>6, PrimitiveNames
    <2>5. TypeOf(n) = <<"primitive", Canonical(n.name[2])>>
      BY TypeOfKinds, NamedTypes, <1>11
    <2>8. Readings(m) = {TypeOf(m)}
      BY <1>4, <1>6, <2>7
    <2> QED
      BY <1>2, <1>4, <2>4, <2>5, <2>7, <2>8
  <1>12. CASE n.type = Plain("EntityOrCommon") /\ n.name \in EXTENSION_TYPES
    <2>1. m = TypeNode(Plain("Extension"), Plain(n.name[2]))
      BY <1>12, ExtensionNames, BuiltinNames, <1>4 DEF NormaliseTypeNode
    <2>2. m.type = Plain("Extension") /\ m.name[2] = n.name[2]
      BY <1>3, <2>1
    <2>3. TypeOf(n) = <<"extension", n.name[2]>>
      BY TypeOfKinds, NamedTypes, <1>12
    <2>4. <<"extension", n.name[2]>> \in Readings(m)
      BY <1>6, <2>2 DEF Namesakes
    <2>5. m # Absent /\ m.type # Plain("EntityOrCommon")
      BY <1>2, <2>2
    <2> QED
      BY <2>3, <2>4, <2>5
  <1>13. CASE n.type = Plain("Extension")
    <2>1. m = [n EXCEPT !.name = Plain(n.name[2])]
      BY <1>13, <1>4, BuiltinNames DEF NormaliseTypeNode
    <2>2. m.type = Plain("Extension") /\ m.name = Plain(n.name[2]) /\ m.name[2] = n.name[2]
      BY <1>1, <1>13, <2>1
    <2>3. n.name \in Names
      BY <1>1, <1>4, <1>13
    <2>4. TypeOf(n) \in {<<"extension", n.name[2]>>, <<"no extension", n.name>>}
      BY TypeOfKinds, NamedTypes, <1>13
    <2>5. {<<"extension", n.name[2]>>, <<"no extension", n.name>>} \subseteq Readings(m)
      <3>1. Readings(m) = Namesakes(n.name[2])
        BY <1>6, <2>2
      <3> QED
        BY <2>3, <3>1 DEF Namesakes
    <2>6. m # Absent /\ m.type # Plain("EntityOrCommon")
      BY <1>2, <2>2
    <2> QED
      BY <2>4, <2>5, <2>6
  <1>14. CASE n.type = Plain("Entity")
    <2>1. m = TypeNode(Plain("EntityOrCommon"), n.name)
      BY <1>14, <1>4, BuiltinNames DEF NormaliseTypeNode
    <2>2. TypeOf(n) = <<"entity", n.name>> /\ n.name \in Names
      BY <1>1, <1>4, <1>14, TypeOfKinds
    <2>3. m.type = Plain("EntityOrCommon") /\ m.name = n.name
      BY <1>3, <2>1
    <2>4. Readings(m) = {<<"entity", n.name>>, NamedType(n.name)}
      BY <1>6, <2>3
    <2>5. m # Absent
      BY <1>2, <2>3
    <2> QED
      BY <2>2, <2>3, <2>4, <2>5
  <1>15. CASE n.type = Plain("Bool")
    <2>1. m = [n EXCEPT !.type = Plain("Boolean")]
      BY <1>15, BuiltinNames DEF NormaliseTypeNode
    <2>2. m.type = Plain("Boolean")
      BY <1>1, <2>1
    <2>3. TypeOf(m) = NamedType(Plain("Boolean")) /\ TypeOf(n) = NamedType(Plain("Bool"))
      BY TypeOfKinds, <1>15, <2>2
    <2>4. Canonical("Boolean") = Canonical("Bool")
      BY DEF Canonical
    <2>5. TypeOf(m) = TypeOf(n)
      BY NamedTypes, <2>3, <2>4, PrimitiveNames
    <2> QED
      BY <1>2, <1>4, <1>6, <2>2, <2>5
  <1>16. CASE n.type \notin CEDAR_BUILTIN_TYPES /\ n.name = NoName
    <2>1. n.type \notin NameTags \cup {Plain("Record"), Plain("Set"), Plain("Bool")}
      BY <1>16, BuiltinNames
    <2>2. m = TypeNode(Plain("EntityOrCommon"), n.type)
      BY <1>4, <1>16, <2>1 DEF NormaliseTypeNode
    <2>3. TypeOf(n) = NamedType(n.type) /\ n.type \in Names
      BY <1>1, <1>16, TypeOfKinds, <2>1
    <2>4. m.type = Plain("EntityOrCommon") /\ m.name = n.type
      BY <1>3, <2>2
    <2>5. Readings(m) = {<<"entity", n.type>>, NamedType(n.type)}
      BY <1>6, <2>4
    <2>6. m # Absent
      BY <1>2, <2>4
    <2> QED
      BY <2>3, <2>4, <2>5, <2>6
  <1>17. CASE /\ ~(n.type = Plain("EntityOrCommon") /\ named(n.name))
              /\ n.type \notin {Plain("Extension"), Plain("Entity"), Plain("Bool")}
              /\ ~(n.type \notin CEDAR_BUILTIN_TYPES /\ n.name = NoName)
    <2>1. m = n
      BY <1>17 DEF NormaliseTypeNode
    <2>2. TypeOf(n) \in Readings(n)
      BY <1>6, <1>17, TypeOfKinds
    <2>3. n.type = Plain("EntityOrCommon") => n.name \in Names
      BY <1>1, <1>4
    <2> QED
      BY <1>1, <1>2, <2>1, <2>2, <2>3
  <1> QED
    BY <1>11, <1>12, <1>13, <1>14, <1>15, <1>16, <1>17

\* Two types that one normal form stands for are alike.
LEMMA ReadingsAlike ==
  ASSUME NEW m, m.type = Plain("EntityOrCommon") => m.name \in Names,
         NEW T \in Readings(m), NEW U \in Readings(m)
  PROVE  Alike(T, U)
  <1>1. CASE m.type = Plain("EntityOrCommon")
    BY <1>1 DEF Readings, Alike, Confused
  <1>2. CASE m.type = Plain("Extension")
    <2>1. Readings(m) = {<<"extension", m.name[2]>>}
              \cup {<<"no extension", x>> : x \in {y \in Names : y[2] = m.name[2]}}
      BY <1>2, TagsDiffer DEF Readings, Namesakes
    <2>2. CASE T = <<"extension", m.name[2]>> /\ U # T
      <3>1. PICK x \in Names : x[2] = m.name[2] /\ U = <<"no extension", x>>
        BY <2>1, <2>2
      <3> QED
        BY <2>2, <3>1 DEF Alike, Confused
    <2>3. CASE T # <<"extension", m.name[2]>>
      <3>1. PICK x \in Names : x[2] = m.name[2] /\ T = <<"no extension", x>>
        BY <2>1, <2>3
      <3>2. CASE U = <<"extension", m.name[2]>>
        BY <3>1, <3>2 DEF Alike, Confused
      <3>3. CASE U # <<"extension", m.name[2]>>
        <4>1. PICK y \in Names : y[2] = m.name[2] /\ U = <<"no extension", y>>
          BY <2>1, <3>3
        <4> QED
          BY <3>1, <4>1 DEF Alike, Confused
      <3> QED
        BY <3>2, <3>3
    <2> QED
      BY <2>2, <2>3 DEF Alike
  <1>3. CASE m.type \notin {Plain("EntityOrCommon"), Plain("Extension")}
    BY <1>3 DEF Readings, Alike
  <1> QED
    BY <1>1, <1>2, <1>3

\* What _normalise_top makes equal has the same types, but for the confusions.
LEMMA CleanMeansSameTypes ==
  ASSUME NEW input \in Schema, NEW back \in Schema \cup Failures, Class(input, back) = "clean"
  PROVE  back \in Schema /\ AlikeSchemas(input, back)
  <1>1. ASSUME NEW s \in Schema
        PROVE  LET m == NormaliseTop(s)
               IN /\ TypesOf(s).shape \in Readings(m.shape) /\ TypesOf(s).attr \in Readings(m.attr)
                  /\ m.shape.type = Plain("EntityOrCommon") => m.shape.name \in Names
                  /\ m.attr.type = Plain("EntityOrCommon") => m.attr.name \in Names
    <2>1. s.shape \in Node \cup {Absent} /\ s.attr \in Node
      BY DEF Schema
    <2>2. NormaliseTop(s).attr = NormaliseTypeNode(s.attr) /\ TypesOf(s).attr = TypeOf(s.attr)
      BY DEF NormaliseTop, TypesOf
    <2>3. CASE s.shape = Absent
      <3>1. NormaliseTop(s).shape = TypeNode(Plain("Record"), NoName)
              /\ TypesOf(s).shape = <<"structure", "Record">>
        BY <2>3 DEF NormaliseTop, TypesOf
      <3>2. /\ TypeNode(Plain("Record"), NoName).type = Plain("Record")
            /\ Plain("Record") \notin NameTags /\ Plain("Record")[2] = "Record"
        BY NamesDiffer, TagsDiffer DEF TypeNode
      <3>4. TypeOf(TypeNode(Plain("Record"), NoName)) = <<"structure", "Record">>
        <4>1. \A t : t.type \in {Plain("Record"), Plain("Set")}
                  => TypeOf(t) = <<"structure", t.type[2]>>
          BY TypeOfKinds
        <4> QED
          BY <3>2, <4>1
      <3>5. Readings(TypeNode(Plain("Record"), NoName))
              = {TypeOf(TypeNode(Plain("Record"), NoName))}
        BY <3>2 DEF Readings, NameTags
      <3>3. TypesOf(s).shape \in Readings(NormaliseTop(s).shape)
        BY <3>1, <3>4, <3>5
      <3> QED
        BY <2>1, <2>2, <3>1, <3>2, <3>3, NormaliseKeepsType DEF NameTags
    <2>4. CASE s.shape # Absent
      <3>1. NormaliseTop(s).shape = NormaliseTypeNode(s.shape)
              /\ TypesOf(s).shape = TypeOf(s.shape) /\ s.shape \in Node
        BY <2>1, <2>4 DEF NormaliseTop, TypesOf
      <3> QED
        BY <2>1, <2>2, <3>1, NormaliseKeepsType
    <2> QED
      BY <2>3, <2>4
  <1>2. back \notin Failures /\ NormaliseTop(input) = NormaliseTop(back)
    <2>1. \A f \in Failures : f.failed # "clean"
      BY DEF Failures, Failed
    <2> QED
      BY <2>1 DEF Class
  <1>3. back \in Schema
    BY <1>2
  <1>4. Alike(TypesOf(input).shape, TypesOf(back).shape)
    BY <1>1, <1>2, <1>3, ReadingsAlike
  <1>5. Alike(TypesOf(input).attr, TypesOf(back).attr)
    BY <1>1, <1>2, <1>3, ReadingsAlike
  <1> QED
    BY <1>3, <1>4, <1>5 DEF AlikeSchemas

LEMMA ClassTyped ==
  ASSUME NEW input, NEW back
  PROVE  Class(input, back) \in SpClass
  <1>1. \A f \in Failures : f.failed \in {"parse_fail", "panic"}
    BY DEF Failures, Failed
  <1> QED
    BY <1>1 DEF Class, SpClass

-----------------------------------------------------------------------------
\* Types

LEMMA CasesGrow ==
  ASSUME NEW C \in SpCases, NEW v \in [wf : BOOLEAN, rust : SpClass, go : SpClass],
         Cardinality(DOMAIN C) + 1 \in Schemas
  PROVE  LET s == Cardinality(DOMAIN C) + 1
         IN /\ [q \in 1 .. s |-> IF q < s THEN C[q] ELSE v] \in SpCases
            /\ DOMAIN C = 1 .. (s - 1)
  <1>1. PICK k \in 0 .. NSchemas : C \in [1 .. k -> [wf : BOOLEAN, rust : SpClass, go : SpClass]]
    BY DEF SpCases
  <1>2. Cardinality(DOMAIN C) = k
    <2>1. DOMAIN C = 1 .. k /\ 1 \in Int /\ k \in Int
      BY <1>1
    <2>2. Cardinality(1 .. k) = IF 1 > k THEN 0 ELSE k - 1 + 1
      BY <2>1, FS_Interval
    <2> QED
      BY <2>1, <2>2
  <1> DEFINE s == k + 1
             D == [q \in 1 .. s |-> IF q < s THEN C[q] ELSE v]
  <1>3. s \in 0 .. NSchemas
    BY <1>2, NSchemasAssumption DEF Schemas
  <1>4. D \in [1 .. s -> [wf : BOOLEAN, rust : SpClass, go : SpClass]]
    <2>1. ASSUME NEW q \in 1 .. s PROVE D[q] \in [wf : BOOLEAN, rust : SpClass, go : SpClass]
      <3>1. CASE q < s
        BY <1>1, <3>1
      <3>2. CASE ~(q < s)
        BY <3>2
      <3> QED
        BY <3>1, <3>2
    <2> QED
      BY <2>1
  <1>5. D \in SpCases
    BY <1>3, <1>4 DEF SpCases
  <1>6. DOMAIN C = 1 .. (s - 1)
    BY <1>1
  <1> QED
    BY <1>2, <1>5, <1>6

LEMMA NoCases == <<>> \in SpCases /\ DOMAIN <<>> = {}
  <1>1. <<>> \in [1 .. 0 -> [wf : BOOLEAN, rust : SpClass, go : SpClass]]
    OBVIOUS
  <1>2. 0 \in 0 .. NSchemas
    BY NSchemasAssumption
  <1> QED
    BY <1>1, <1>2 DEF SpCases

LEMMA VerdictsTyped ==
  ASSUME NEW s, NEW dead
  PROVE  Verdicts(s, dead) \in [wf : BOOLEAN, rust : SpClass, go : SpClass]
  <1>1. (s \in wellFormed /\ "check" \notin dead) \in BOOLEAN
    OBVIOUS
  <1>2. /\ (IF "rust" \in dead THEN "parse_fail" ELSE Class(SCHEMAS[s], rustBack[s])) \in SpClass
        /\ (IF "go" \in dead THEN "panic" ELSE Class(SCHEMAS[s], goBack[s])) \in SpClass
    BY ClassTyped DEF SpClass
  <1> QED
    BY <1>1, <1>2 DEF Verdicts

\* One schema's step: what it adds is the three verdicts on that schema.
LEMMA CaseAdded ==
  ASSUME SpTypeOK, NEW i \in SpRuns, SpCase(i)
  PROVE  \E s \in Schemas, dead \in SUBSET {"check", "rust", "go"} :
            /\ DOMAIN cases[i] = 1 .. (s - 1) /\ DOMAIN cases'[i] = 1 .. s
            /\ cases' \in [SpRuns -> SpCases]
            /\ \A q \in 1 .. (s - 1) : cases'[i][q] = cases[i][q]
            /\ cases'[i][s] = Verdicts(s, dead)
            /\ \A e \in SpRuns \ {i} : cases'[e] = cases[e]
            /\ fixtures' = fixtures \cup {s}
            /\ hurt' = IF dead = {} THEN hurt ELSE hurt \cup {s}
  <1> DEFINE s == Cardinality(DOMAIN cases[i]) + 1
  <1>1. PICK dead \in SUBSET {"check", "rust", "go"} :
          /\ cases' = [cases EXCEPT ![i] = [q \in 1 .. s |->
                            IF q < s THEN cases[i][q] ELSE Verdicts(s, dead)]]
          /\ hurt' = IF dead = {} THEN hurt ELSE hurt \cup {s}
    BY DEF SpCase, SpTypeOK
  <1>2. s \in Schemas /\ fixtures' = fixtures \cup {s}
    BY DEF SpCase
  <1>3. cases[i] \in SpCases /\ cases \in [SpRuns -> SpCases]
    BY DEF SpTypeOK
  <1> DEFINE D == [q \in 1 .. s |-> IF q < s THEN cases[i][q] ELSE Verdicts(s, dead)]
  <1>4. D \in SpCases /\ DOMAIN cases[i] = 1 .. (s - 1)
    BY <1>2, <1>3, CasesGrow, VerdictsTyped
  <1>5. cases' = [cases EXCEPT ![i] = D]
    BY <1>1
  <1>6. s \in Nat \ {0}
    BY <1>2 DEF Schemas
  <1>7. DOMAIN D = 1 .. s /\ D[s] = Verdicts(s, dead) /\ \A q \in 1 .. (s - 1) : D[q] = cases[i][q]
    BY <1>6
  <1> HIDE DEF s, D
  <1>8. cases' \in [SpRuns -> SpCases] /\ cases'[i] = D
          /\ \A e \in SpRuns \ {i} : cases'[e] = cases[e]
    BY <1>3, <1>4, <1>5
  <1> QED
    BY <1>1, <1>2, <1>4, <1>7, <1>8

\* Every variable has its type in every reachable state.
THEOREM SpTypeCorrect == SpSpec => []SpTypeOK
  <1>1. SpInit => SpTypeOK
    BY NoCases DEF SpInit, SpTypeOK
  <1>2. SpTypeOK /\ [SpNext]_spVars => SpTypeOK'
    <2> SUFFICES ASSUME SpTypeOK, [SpNext]_spVars PROVE SpTypeOK'
      OBVIOUS
    <2> USE DEF spOwn, spFiles, spTruths, SpStages, SpEnded
    <2>1. ASSUME NEW i \in SpRuns, NEW stage \in SpEnded, SpEnd(i, stage)
          PROVE  /\ spPc' \in [SpRuns -> {"idle"} \cup SpStages \cup SpEnded]
                 /\ cases' \in [SpRuns -> SpCases]
                 /\ toFileGaps' \in [SpRuns -> SUBSET Schemas]
      BY <2>1, NoCases DEF SpEnd, SpGoto, SpTypeOK
    <2>2. ASSUME NEW i \in SpRuns, SpStart(i) PROVE SpTypeOK'
      BY <2>1, <2>2 DEF SpStart, SpGoto, SpTypeOK
    <2>3. ASSUME NEW i \in SpRuns, SpCase(i) PROVE SpTypeOK'
      BY <2>3, CaseAdded DEF SpCase, SpTypeOK
    <2>4. ASSUME NEW i \in SpRuns, SpSwept(i) PROVE SpTypeOK'
      <3>1. Gaps(cases[i]) \subseteq Schemas
        BY <2>4 DEF SpSwept, Gaps
      <3> QED
        BY <2>4, <3>1 DEF SpSwept, SpGoto, SpTypeOK
    <2>5. ASSUME NEW i \in SpRuns, SpFile(i) PROVE SpTypeOK'
      BY <2>5 DEF SpFile, SpTypeOK
    <2>6. ASSUME NEW i \in SpRuns, SpReport(i) PROVE SpTypeOK'
      <3>1. spSummary' \in SpCases
        BY <2>6, NoCases DEF SpReport, SpTypeOK
      <3>2. CASE spPc[i] = "results"
        BY <2>1, <2>6, <3>1, <3>2 DEF SpReport, SpTypeOK
      <3>3. CASE spPc[i] # "results"
        BY <2>6, <3>1, <3>3 DEF SpReport, SpGoto, SpTypeOK
      <3> QED
        BY <3>2, <3>3
    <2>7. ASSUME NEW i \in SpRuns, SpKill(i) PROVE SpTypeOK'
      BY <2>1, <2>7 DEF SpKill, SpTypeOK
    <2>8. CASE UNCHANGED spVars
      BY <2>8 DEF spVars, SpTypeOK
    <2> QED
      BY <2>2, <2>3, <2>4, <2>5, <2>6, <2>7, <2>8 DEF SpNext, SpStep
  <1> QED
    BY <1>1, <1>2, PTL DEF SpSpec

-----------------------------------------------------------------------------
\* What the cases say

\* The classes that come of a comparison.
Compared == {"clean", "silent_diff"}

\* A round trip that was compared has its class; of a schema on which no tool died everything is
\* as it is.
Honest(C) ==
  \A s \in DOMAIN C :
    /\ C[s].go \in Compared => C[s].go = Class(SCHEMAS[s], goBack[s])
    /\ C[s].rust \in Compared => C[s].rust = Class(SCHEMAS[s], rustBack[s])
    /\ s \notin hurt => /\ C[s].go = Class(SCHEMAS[s], goBack[s])
                        /\ C[s].wf = (s \in wellFormed)

HonestCases == Honest(spSummary) /\ \A i \in SpRuns : Honest(cases[i])

LEMMA HonestCasesInit == SpInit => HonestCases
  BY NoCases DEF SpInit, HonestCases, Honest

LEMMA HonestCasesStep ==
  ASSUME SpTypeOK, HonestCases, [SpNext]_spVars
  PROVE  HonestCases'
  <1> USE DEF spOwn, spFiles
  <1>1. UNCHANGED spTruths /\ hurt \subseteq hurt'
    <2>1. ASSUME NEW i \in SpRuns, SpCase(i) PROVE UNCHANGED spTruths /\ hurt \subseteq hurt'
      BY <2>1 DEF SpCase, spTruths
    <2> QED
      BY <2>1 DEF SpNext, SpStep, SpStart, SpSwept, SpFile, SpReport, SpKill, spVars
  <1>2. \A C : Honest(C) => \A s \in DOMAIN C :
          /\ C[s].go \in Compared => C[s].go = Class(SCHEMAS[s], goBack'[s])
          /\ C[s].rust \in Compared => C[s].rust = Class(SCHEMAS[s], rustBack'[s])
          /\ s \notin hurt' => /\ C[s].go = Class(SCHEMAS[s], goBack'[s])
                               /\ C[s].wf = (s \in wellFormed')
    BY <1>1 DEF Honest, spTruths
  <1> DEFINE HonestNow(C) == \A s \in DOMAIN C :
          /\ C[s].go \in Compared => C[s].go = Class(SCHEMAS[s], goBack'[s])
          /\ C[s].rust \in Compared => C[s].rust = Class(SCHEMAS[s], rustBack'[s])
          /\ s \notin hurt' => /\ C[s].go = Class(SCHEMAS[s], goBack'[s])
                               /\ C[s].wf = (s \in wellFormed')
  <1>3. HonestNow(<<>>)
    BY NoCases
  <1>4. ASSUME NEW i \in SpRuns, SpCase(i) PROVE HonestNow(cases'[i])
    <2>1. PICK s \in Schemas, dead \in SUBSET {"check", "rust", "go"} :
            /\ DOMAIN cases[i] = 1 .. (s - 1) /\ DOMAIN cases'[i] = 1 .. s
            /\ \A q \in 1 .. (s - 1) : cases'[i][q] = cases[i][q]
            /\ cases'[i][s] = Verdicts(s, dead)
            /\ hurt' = IF dead = {} THEN hurt ELSE hurt \cup {s}
      BY <1>4, CaseAdded
    <2> SUFFICES ASSUME NEW q \in 1 .. s
                 PROVE  /\ cases'[i][q].go \in Compared
                              => cases'[i][q].go = Class(SCHEMAS[q], goBack'[q])
                        /\ cases'[i][q].rust \in Compared
                              => cases'[i][q].rust = Class(SCHEMAS[q], rustBack'[q])
                        /\ q \notin hurt' => /\ cases'[i][q].go = Class(SCHEMAS[q], goBack'[q])
                                             /\ cases'[i][q].wf = (q \in wellFormed')
      BY <2>1
    <2>2. CASE q = s
      <3>1. /\ Verdicts(s, dead).go \in Compared
                  => Verdicts(s, dead).go = Class(SCHEMAS[s], goBack[s])
            /\ Verdicts(s, dead).rust \in Compared
                  => Verdicts(s, dead).rust = Class(SCHEMAS[s], rustBack[s])
        BY DEF Verdicts, Compared
      <3>2. dead = {} => /\ Verdicts(s, dead).go = Class(SCHEMAS[s], goBack[s])
                         /\ Verdicts(s, dead).wf = (s \in wellFormed)
        BY DEF Verdicts
      <3> QED
        BY <1>1, <2>1, <2>2, <3>1, <3>2 DEF spTruths
    <2>3. CASE q # s
      <3>1. q \in 1 .. (s - 1)
        BY <2>3 DEF Schemas
      <3>2. q \in DOMAIN cases[i] /\ cases'[i][q] = cases[i][q] /\ Honest(cases[i])
        BY <2>1, <3>1 DEF HonestCases
      <3> QED
        BY <1>2, <3>2
    <2> QED
      BY <2>2, <2>3
  <1>5. ASSUME NEW i \in SpRuns PROVE HonestNow(cases'[i])
    <2>1. CASE cases'[i] \in {cases[i], <<>>}
      <3>1. HonestNow(cases[i])
        BY <1>2 DEF HonestCases
      <3> HIDE DEF HonestNow
      <3> QED
        BY <1>3, <2>1, <3>1
    <2>2. CASE cases'[i] \notin {cases[i], <<>>}
      <3>1. PICK e \in SpRuns : SpStep(e) \/ SpKill(e)
        BY <2>2 DEF SpNext, spVars
      <3>2. ~SpStart(e) /\ ~SpSwept(e) /\ ~SpFile(e) /\ ~SpReport(e) /\ ~SpKill(e)
        BY <2>2 DEF SpStart, SpSwept, SpFile, SpReport, SpKill, SpEnd, SpTypeOK
      <3>3. SpCase(e)
        BY <3>1, <3>2 DEF SpStep
      <3>4. e = i
        BY <2>2, <3>3, CaseAdded
      <3> QED
        BY <1>4, <3>3, <3>4
    <2> QED
      BY <2>1, <2>2
  <1>6. HonestNow(spSummary')
    <2>1. HonestNow(spSummary) /\ \A i \in SpRuns : HonestNow(cases[i])
      BY <1>2 DEF HonestCases
    <2>2. spSummary' = spSummary \/ spSummary' = <<>> \/ \E i \in SpRuns : spSummary' = cases[i]
      <3>1. ASSUME NEW i \in SpRuns, SpCase(i) PROVE spSummary' = spSummary
        BY <3>1 DEF SpCase
      <3> QED
        BY <3>1 DEF SpNext, SpStep, SpStart, SpSwept, SpFile, SpReport, SpKill, spVars
    <2> HIDE DEF HonestNow
    <2> QED
      BY <1>3, <2>1, <2>2
  <1> QED
    BY <1>5, <1>6 DEF HonestCases, Honest

\* What honest cases call clean keeps its types.
LEMMA HonestSuffices == SpTypeOK /\ HonestCases => CleanKeepsTypes
  <1> SUFFICES ASSUME SpTypeOK, HonestCases, NEW s \in DOMAIN spSummary
               PROVE  /\ spSummary[s].go = "clean" => AlikeSchemas(SCHEMAS[s], goBack[s])
                      /\ spSummary[s].rust = "clean" => AlikeSchemas(SCHEMAS[s], rustBack[s])
    BY DEF CleanKeepsTypes
  <1>1. s \in Schemas
    BY NSchemasAssumption DEF SpTypeOK, SpCases, Schemas
  <1>2. /\ SCHEMAS[s] \in Schema /\ goBack[s] \in Schema \cup Failures
        /\ rustBack[s] \in Schema \cup Failures
    BY <1>1, SpBoundsAssumption DEF SpTypeOK, BacksFrom, Failures
  <1>3. Honest(spSummary)
    BY DEF HonestCases
  <1> QED
    BY <1>2, <1>3, CleanMeansSameTypes DEF Honest, Compared

\* What SUMMARY.md calls clean has not changed a type, whatever names and spellings
\* came back, also those that no round trip should bring, and wherever an
\* invocation was killed: all that _normalise_type_node can mistake is an Entity for
\* what its name is resolved to, and an Extension for another of its identifier.
THEOREM CleanIsClean == SpSpec => []CleanKeepsTypes
  <1>1. SpTypeOK /\ HonestCases /\ [SpNext]_spVars => HonestCases'
    BY HonestCasesStep
  <1> QED
    BY <1>1, SpTypeCorrect, HonestCasesInit, HonestSuffices, PTL DEF SpSpec

-----------------------------------------------------------------------------
\* What is filed

\* From the end of the sweep on an invocation has all cases, and the gaps among
\* them have their files or will get them.
GapsCovered ==
  /\ \A i \in SpRuns :
      /\ DOMAIN cases[i] \subseteq fixtures
      /\ spPc[i] \in {"file", "summary", "results"} => DOMAIN cases[i] = Schemas
      /\ spPc[i] = "file" => Gaps(cases[i]) \subseteq gapFiles \cup toFileGaps[i]
      /\ spPc[i] \in {"summary", "results"} => Gaps(cases[i]) \subseteq gapFiles
  /\ spSummary # <<>> => DOMAIN spSummary = Schemas
  /\ Gaps(spSummary) \subseteq gapFiles \cap fixtures

LEMMA NoGaps == Gaps(<<>>) = {}
  BY NoCases DEF Gaps

LEMMA GapsAreCases == ASSUME NEW C PROVE Gaps(C) \subseteq DOMAIN C
  BY DEF Gaps

LEMMA GapsCoveredInit == SpInit => GapsCovered
  BY NoGaps, NoCases DEF SpInit, GapsCovered

LEMMA GapsCoveredStep ==
  ASSUME SpTypeOK, GapsCovered, [SpNext]_spVars
  PROVE  GapsCovered'
  <1> USE DEF spOwn, spFiles
  <1> DEFINE Covered(i) ==
        /\ DOMAIN cases'[i] \subseteq fixtures'
        /\ spPc'[i] \in {"file", "summary", "results"} => DOMAIN cases'[i] = Schemas
        /\ spPc'[i] = "file" => Gaps(cases'[i]) \subseteq gapFiles' \cup toFileGaps'[i]
        /\ spPc'[i] \in {"summary", "results"} => Gaps(cases'[i]) \subseteq gapFiles'
  <1>1. ASSUME NEW i \in SpRuns, Covered(i), fixtures \subseteq fixtures', gapFiles \subseteq gapFiles',
               \A e \in SpRuns \ {i} : /\ spPc'[e] = spPc[e] /\ cases'[e] = cases[e]
                                       /\ toFileGaps'[e] = toFileGaps[e],
               spSummary' # <<>> => DOMAIN spSummary' = Schemas,
               Gaps(spSummary') \subseteq gapFiles' \cap fixtures'
        PROVE  GapsCovered'
    <2> HIDE DEF Covered
    <2>1. ASSUME NEW e \in SpRuns PROVE Covered(e)
      <3>1. CASE e = i
        BY <1>1, <3>1
      <3>2. CASE e # i
        BY <1>1, <3>2 DEF Covered, GapsCovered
      <3> QED
        BY <3>1, <3>2
    <2>2. Gaps(spSummary)' = Gaps(spSummary') /\ \A e : Gaps(cases[e])' = Gaps(cases'[e])
      BY DEF Gaps
    <2> QED
      BY <1>1, <2>1, <2>2 DEF Covered, GapsCovered
  <1>2. /\ spSummary # <<>> => DOMAIN spSummary = Schemas
        /\ Gaps(spSummary) \subseteq gapFiles \cap fixtures
    BY DEF GapsCovered
  <1>3. ASSUME NEW i \in SpRuns, NEW stage \in SpEnded, SpEnd(i, stage),
               UNCHANGED <<fixtures, gapFiles, spSummary>>
        PROVE  GapsCovered'
    <2>1. /\ spPc'[i] = stage /\ cases'[i] = <<>>
          /\ \A e \in SpRuns \ {i} : /\ spPc'[e] = spPc[e] /\ cases'[e] = cases[e]
                                      /\ toFileGaps'[e] = toFileGaps[e]
      BY <1>3 DEF SpEnd, SpGoto, SpTypeOK
    <2>2. Covered(i)
      BY <2>1, NoCases DEF SpEnded
    <2> QED
      BY <1>1, <1>2, <1>3, <2>1, <2>2
  <1>4. ASSUME NEW i \in SpRuns, SpStart(i) PROVE GapsCovered'
    <2>1. CASE SpGoto(i, "sweep") /\ UNCHANGED spOwn
      <3>1. spPc'[i] = "sweep" /\ \A e \in SpRuns \ {i} : spPc'[e] = spPc[e]
        BY <2>1 DEF SpGoto, SpTypeOK
      <3>2. Covered(i)
        BY <1>4, <2>1, <3>1 DEF GapsCovered, SpStart
      <3> QED
        BY <1>1, <1>2, <1>4, <2>1, <3>1, <3>2 DEF SpStart
    <2>2. CASE SpEnd(i, "exit1")
      BY <1>3, <1>4, <2>2 DEF SpStart, SpEnded
    <2> QED
      BY <1>4, <2>1, <2>2 DEF SpStart
  <1>5. ASSUME NEW i \in SpRuns, SpCase(i) PROVE GapsCovered'
    <2>1. PICK s \in Schemas :
            /\ DOMAIN cases[i] = 1 .. (s - 1) /\ DOMAIN cases'[i] = 1 .. s
            /\ \A e \in SpRuns \ {i} : cases'[e] = cases[e]
            /\ fixtures' = fixtures \cup {s}
      BY <1>5, CaseAdded
    <2>2. spPc[i] = "sweep" /\ UNCHANGED <<spPc, toFileGaps, gapFiles, spSummary>>
      BY <1>5 DEF SpCase
    <2>3. 1 .. s \subseteq (1 .. (s - 1)) \cup {s}
      BY DEF Schemas
    <2>4. Covered(i)
      BY <2>1, <2>2, <2>3 DEF GapsCovered
    <2> QED
      BY <1>1, <1>2, <2>1, <2>2, <2>4
  <1>6. ASSUME NEW i \in SpRuns, SpSwept(i) PROVE GapsCovered'
    <2>1. /\ spPc'[i] = "file" /\ toFileGaps'[i] = Gaps(cases[i]) /\ DOMAIN cases[i] = Schemas
          /\ \A e \in SpRuns \ {i} : spPc'[e] = spPc[e] /\ toFileGaps'[e] = toFileGaps[e]
          /\ UNCHANGED <<cases, fixtures, gapFiles, spSummary>>
      BY <1>6 DEF SpSwept, SpGoto, SpTypeOK
    <2>2. Covered(i)
      BY <2>1 DEF GapsCovered
    <2> QED
      BY <1>1, <1>2, <2>1, <2>2
  <1>7. ASSUME NEW i \in SpRuns, SpFile(i) PROVE GapsCovered'
    <2>1. PICK s \in toFileGaps[i] : /\ gapFiles' = gapFiles \cup {s}
                                    /\ toFileGaps' = [toFileGaps EXCEPT ![i] = @ \ {s}]
      BY <1>7 DEF SpFile
    <2>2. spPc[i] = "file" /\ UNCHANGED <<spPc, cases, fixtures, spSummary>>
      BY <1>7 DEF SpFile
    <2>3. /\ toFileGaps'[i] = toFileGaps[i] \ {s}
          /\ \A e \in SpRuns \ {i} : toFileGaps'[e] = toFileGaps[e]
      BY <2>1 DEF SpTypeOK
    <2>4. Covered(i)
      BY <2>1, <2>2, <2>3 DEF GapsCovered
    <2> QED
      BY <1>1, <1>2, <2>1, <2>2, <2>3, <2>4
  <1>8. ASSUME NEW i \in SpRuns, SpReport(i) PROVE GapsCovered'
    <2>1. UNCHANGED <<fixtures, gapFiles>>
      BY <1>8 DEF SpReport
    <2>2. CASE spPc[i] = "file"
      <3>1. /\ toFileGaps[i] = {} /\ spPc'[i] = "summary" /\ spSummary' = <<>>
            /\ UNCHANGED <<cases, toFileGaps>> /\ \A e \in SpRuns \ {i} : spPc'[e] = spPc[e]
        BY <1>8, <2>2 DEF SpReport, SpGoto, SpTypeOK
      <3>2. Covered(i)
        BY <2>1, <2>2, <3>1 DEF GapsCovered
      <3> QED
        BY <1>1, <2>1, <3>1, <3>2, NoGaps
    <2>3. CASE spPc[i] = "summary"
      <3>1. /\ spPc'[i] = "results" /\ spSummary' = cases[i]
            /\ UNCHANGED <<cases, toFileGaps>> /\ \A e \in SpRuns \ {i} : spPc'[e] = spPc[e]
        BY <1>8, <2>3 DEF SpReport, SpGoto, SpTypeOK
      <3>2. Covered(i)
        BY <2>1, <2>3, <3>1 DEF GapsCovered
      <3>3. /\ DOMAIN spSummary' = Schemas
            /\ Gaps(spSummary') \subseteq gapFiles \cap fixtures
        BY <2>3, <3>1, GapsAreCases DEF GapsCovered
      <3> QED
        BY <1>1, <2>1, <3>1, <3>2, <3>3
    <2>4. CASE spPc[i] = "results"
      BY <1>3, <1>8, <2>1, <2>4 DEF SpReport, SpEnded
    <2> QED
      BY <1>8, <2>2, <2>3, <2>4 DEF SpReport
  <1>9. ASSUME NEW i \in SpRuns, SpKill(i) PROVE GapsCovered'
    BY <1>3, <1>9 DEF SpKill, SpEnded
  <1>10. CASE UNCHANGED spVars
    <2>1. Gaps(spSummary)' = Gaps(spSummary) /\ \A i : Gaps(cases[i])' = Gaps(cases[i])
      BY <1>10 DEF Gaps, spVars
    <2> QED
      BY <1>10, <2>1 DEF GapsCovered, spVars
  <1> QED
    BY <1>4, <1>5, <1>6, <1>7, <1>8, <1>9, <1>10 DEF SpNext, SpStep

LEMMA CoverSuffices == SpTypeOK /\ HonestCases /\ GapsCovered => LossesAreFiled
  <1> SUFFICES ASSUME SpTypeOK, HonestCases, GapsCovered, spSummary # <<>>
               PROVE  /\ \A s \in wellFormed \ hurt :
                            goBack[s] \in Schema /\ ~AlikeSchemas(SCHEMAS[s], goBack[s])
                              => s \in gapFiles
                      /\ Gaps(spSummary) \subseteq gapFiles \cap fixtures
    BY DEF LossesAreFiled
  <1>1. Gaps(spSummary) \subseteq gapFiles \cap fixtures /\ DOMAIN spSummary = Schemas
    BY DEF GapsCovered
  <1>2. ASSUME NEW s \in wellFormed \ hurt,
               goBack[s] \in Schema, ~AlikeSchemas(SCHEMAS[s], goBack[s])
        PROVE  s \in gapFiles
    <2>1. s \in Schemas /\ SCHEMAS[s] \in Schema
      BY SpBoundsAssumption DEF SpTypeOK
    <2>2. Class(SCHEMAS[s], goBack[s]) # "clean"
      BY <1>2, <2>1, CleanMeansSameTypes
    <2>3. goBack[s] \notin Failures
      <3>1. \A f \in Failures : DOMAIN f = {"failed"}
        BY DEF Failures, Failed
      <3>2. DOMAIN goBack[s] = {"shape", "attr"}
        BY <1>2 DEF Schema
      <3>3. "shape" # "failed"
        OBVIOUS
      <3> QED
        BY <3>1, <3>2, <3>3
    <2>4. Class(SCHEMAS[s], goBack[s]) = "silent_diff"
      BY <2>2, <2>3 DEF Class
    <2>5. spSummary[s].go = "silent_diff" /\ spSummary[s].wf
      BY <1>1, <1>2, <2>1, <2>4 DEF HonestCases, Honest
    <2>6. s \in Gaps(spSummary)
      BY <1>1, <2>1, <2>5 DEF Gaps
    <2> QED
      BY <1>1, <2>6
  <1> QED
    BY <1>1, <1>2

\* Whoever else writes or was killed in the directory, what SUMMARY.md lists as
\* filed is filed, and that includes every well-formed schema whose types cedar-go
\* changed and on which no tool died.
THEOREM LossesStayFiled == SpSpec => []LossesAreFiled
  <1>1. SpTypeOK /\ HonestCases /\ [SpNext]_spVars => HonestCases'
    BY HonestCasesStep
  <1>2. SpTypeOK /\ GapsCovered /\ [SpNext]_spVars => GapsCovered'
    BY GapsCoveredStep
  <1> QED
    BY <1>1, <1>2, SpTypeCorrect, HonestCasesInit, GapsCoveredInit, CoverSuffices, PTL DEF SpSpec

-----------------------------------------------------------------------------
\* What is called different

\* The attribute is required, and a primitive is not spelled __cedar::Long, nor
\* an extension type decimal, where "type" is expected.
Usual(t) ==
  /\ t.required
  /\ t.type \notin EXTENSION_TYPES \cup {Reserved(p) : p \in {"Long", "String", "Boolean"}}
UsualSchema(s) == Usual(s.attr) /\ (s.shape # Absent => Usual(s.shape))

\* The one usual node _normalise_type_node makes of all the spellings of a type.
NormalForm(T) ==
    CASE T[1] = "extension" -> TypeNode(Plain("Extension"), Plain(T[2]))
      [] T[1] = "no extension" -> TypeNode(Plain("Extension"), Plain(T[2][2]))
      [] T[1] \in {"declared", "entity"} -> TypeNode(Plain("EntityOrCommon"), T[2])
      [] OTHER -> TypeNode(Plain(T[2]), NoName)

LEMMA OneNormalForm ==
  ASSUME NEW n \in Node, Usual(n)
  PROVE  NormaliseTypeNode(n) = NormalForm(TypeOf(n))
  <1> DEFINE primitive == {"Long", "String", "Boolean", "Bool"}
  <1> USE NamesDiffer, TagsDiffer
  <1>1. /\ n.type \in NameTags <=> n.name # NoName
        /\ n.type \in PRIMITIVE_TYPES \cup EXTENSION_TYPES \cup UserNames \cup CEDAR_BUILTIN_TYPES
        /\ n.name \in PRIMITIVE_TYPES \cup EXTENSION_TYPES \cup UserNames \cup {NoName}
        /\ n = [type |-> n.type, name |-> n.name, required |-> TRUE]
    BY DEF Node, Names, Usual
  <1>0. n \in [type : Names \cup CEDAR_BUILTIN_TYPES \cup {NoName},
               name : Names \cup CEDAR_BUILTIN_TYPES \cup {NoName}, required : {TRUE}]
    BY DEF Node, Usual
  <1>2. n.type \in UserNames \cup CEDAR_BUILTIN_TYPES
    <2>1. \A p \in PRIMITIVE_TYPES :
            \/ \E b \in primitive : p = Plain(b)
            \/ p \in {Reserved(r) : r \in {"Long", "String", "Boolean"}}
      BY DEF PRIMITIVE_TYPES
    <2>2. \A b \in primitive : Plain(b) \in CEDAR_BUILTIN_TYPES
      BY DEF CEDAR_BUILTIN_TYPES
    <2> QED
      BY <1>1, <2>1, <2>2 DEF Usual
  <1>3. UserNames \cap (PRIMITIVE_TYPES \cup EXTENSION_TYPES \cup CEDAR_BUILTIN_TYPES) = {}
    BY UserNamesAssumption
  <1>4. /\ \A t : t.type = Plain("Entity") => TypeOf(t) = <<"entity", t.name>>
        /\ \A t : t.type = Plain("EntityOrCommon") => TypeOf(t) = NamedType(t.name)
        /\ \A t : t.type = Plain("Extension") =>
              TypeOf(t) = IF t.name \in EXTENSION_TYPES THEN NamedType(t.name)
                          ELSE <<"no extension", t.name>>
    BY TypeOfKinds
  <1>5. \A t : t.type \notin NameTags \cup {Plain("Record"), Plain("Set")}
                => TypeOf(t) = NamedType(t.type)
    BY TypeOfKinds
  <1>6. \A x \in PRIMITIVE_TYPES : NamedType(x) = <<"primitive", Canonical(x[2])>>
    BY NamedTypes
  <1>7. \A x \in EXTENSION_TYPES : NamedType(x) = <<"extension", x[2]>>
    BY NamedTypes
  <1>8. ASSUME NEW x \in UserNames PROVE NamedType(x) = <<"declared", x>>
    BY <1>3 DEF NamedType
  <1>9. /\ \A p : NormalForm(<<"primitive", p>>) = TypeNode(Plain(p), NoName)
        /\ \A p : NormalForm(<<"structure", p>>) = TypeNode(Plain(p), NoName)
        /\ \A p : NormalForm(<<"extension", p>>) = TypeNode(Plain("Extension"), Plain(p))
        /\ \A p : NormalForm(<<"no extension", p>>) = TypeNode(Plain("Extension"), Plain(p[2]))
        /\ \A p : NormalForm(<<"entity", p>>) = TypeNode(Plain("EntityOrCommon"), p)
        /\ \A p : NormalForm(<<"declared", p>>) = TypeNode(Plain("EntityOrCommon"), p)
    BY DEF NormalForm
  <1>10. Plain("Entity") \in NameTags /\ Plain("EntityOrCommon") \in NameTags
          /\ Plain("Extension") \in NameTags
    BY DEF NameTags
  <1>11. CASE n.type = Plain("EntityOrCommon")
    <2>1. CASE n.name \in PRIMITIVE_TYPES
      <3>1. NormaliseTypeNode(n) = TypeNode(Plain(Canonical(n.name[2])), NoName)
        BY <1>11, <2>1, ExtensionNames, BuiltinNames, <1>10 DEF NormaliseTypeNode
      <3>2. TypeOf(n) = <<"primitive", Canonical(n.name[2])>>
        BY <1>4, <1>6, <1>11, <2>1
      <3> QED
        BY <1>9, <3>1, <3>2
    <2>2. CASE n.name \in EXTENSION_TYPES
      <3>1. NormaliseTypeNode(n) = TypeNode(Plain("Extension"), Plain(n.name[2]))
        BY <1>11, <2>2, ExtensionNames, BuiltinNames, <1>10 DEF NormaliseTypeNode
      <3>2. TypeOf(n) = <<"extension", n.name[2]>>
        BY <1>4, <1>7, <1>11, <2>2
      <3> QED
        BY <1>9, <3>1, <3>2
    <2>3. CASE n.name \in UserNames
      <3>1. NormaliseTypeNode(n) = n
        BY <1>1, <1>3, <1>10, <1>11, <2>3, BuiltinNames DEF NormaliseTypeNode
      <3>2. TypeOf(n) = <<"declared", n.name>>
        BY <1>4, <1>8, <1>11, <2>3
      <3>3. n = TypeNode(Plain("EntityOrCommon"), n.name)
        BY <1>1, <1>11 DEF TypeNode
      <3> QED
        BY <1>9, <3>1, <3>2, <3>3
    <2> QED
      BY <1>1, <1>10, <1>11, <2>1, <2>2, <2>3
  <1>12. CASE n.type = Plain("Extension")
    <2>1. NormaliseTypeNode(n) = [n EXCEPT !.name = Plain(n.name[2])]
      BY <1>12, <1>10, BuiltinNames DEF NormaliseTypeNode
    <2>2. NormaliseTypeNode(n) = TypeNode(Plain("Extension"), Plain(n.name[2]))
      <3>1. [n EXCEPT !.name = Plain(n.name[2])]
                = [type |-> n.type, name |-> Plain(n.name[2]), required |-> TRUE]
        BY <1>0, Rebuilt
      <3> QED
        BY <1>12, <2>1, <3>1 DEF TypeNode
    <2>3. CASE n.name \in EXTENSION_TYPES
      <3>1. TypeOf(n) = <<"extension", n.name[2]>>
        BY <1>4, <1>7, <1>12, <2>3
      <3> QED
        BY <1>9, <2>2, <3>1
    <2>4. CASE n.name \notin EXTENSION_TYPES
      <3>1. TypeOf(n) = <<"no extension", n.name>>
        BY <1>4, <1>12, <2>4
      <3> QED
        BY <1>9, <2>2, <3>1
    <2> QED
      BY <2>3, <2>4
  <1>13. CASE n.type = Plain("Entity")
    <2>1. NormaliseTypeNode(n) = TypeNode(Plain("EntityOrCommon"), n.name)
      BY <1>13, <1>10, BuiltinNames DEF NormaliseTypeNode
    <2>2. TypeOf(n) = <<"entity", n.name>>
      BY <1>4, <1>13
    <2> QED
      BY <1>9, <2>1, <2>2
  <1>14. CASE n.type \notin NameTags
    <2>1. n.name = NoName
      BY <1>1, <1>14
    <2>2. CASE n.type \in UserNames
      <3>1. n.type \notin NameTags \cup {Plain("Record"), Plain("Set"), Plain("Bool")}
        BY <1>3, <2>2 DEF CEDAR_BUILTIN_TYPES, NameTags
      <3>2. NormaliseTypeNode(n) = TypeNode(Plain("EntityOrCommon"), n.type)
        BY <1>3, <1>10, <2>1, <2>2, <3>1 DEF NormaliseTypeNode
      <3>3. TypeOf(n) = <<"declared", n.type>>
        BY <1>5, <1>8, <2>2, <3>1
      <3> QED
        BY <1>9, <3>2, <3>3
    <2>3. CASE n.type = Plain("Bool")
      <3>1. NormaliseTypeNode(n) = [n EXCEPT !.type = Plain("Boolean")]
        BY <2>3, BuiltinNames DEF NormaliseTypeNode
      <3>2. TypeOf(n) = <<"primitive", "Boolean">>
        <4>1. Plain("Bool") \in PRIMITIVE_TYPES /\ Canonical("Bool") = "Boolean"
          BY DEF PRIMITIVE_TYPES, Canonical
        <4> QED
          BY <1>5, <1>6, <2>3, <4>1
      <3>3. NormaliseTypeNode(n) = TypeNode(Plain("Boolean"), NoName)
        <4>1. [n EXCEPT !.type = Plain("Boolean")]
                  = [type |-> Plain("Boolean"), name |-> n.name, required |-> TRUE]
          BY <1>0, Rebuilt
        <4> QED
          BY <2>1, <3>1, <4>1 DEF TypeNode
      <3> QED
        BY <1>9, <3>2, <3>3
    <2>4. CASE n.type \in {Plain(p) : p \in {"Long", "String", "Boolean"}}
      <3>1. PICK p \in {"Long", "String", "Boolean"} : n.type = Plain(p)
        BY <2>4
      <3>2. NormaliseTypeNode(n) = n
        <4>1. Plain(p) \in CEDAR_BUILTIN_TYPES /\ Plain(p) # Plain("Bool")
          BY DEF CEDAR_BUILTIN_TYPES
        <4> QED
          BY <1>14, <1>10, <3>1, <4>1 DEF NormaliseTypeNode
      <3>3. TypeOf(n) = <<"primitive", p>>
        <4>1. Plain(p) \in PRIMITIVE_TYPES /\ Canonical(p) = p
          BY DEF PRIMITIVE_TYPES, Canonical
        <4> QED
          BY <1>5, <1>6, <3>1, <4>1
      <3>4. n = TypeNode(Plain(p), NoName)
        BY <1>1, <2>1, <3>1 DEF TypeNode
      <3> QED
        BY <1>9, <3>2, <3>3, <3>4
    <2>5. CASE n.type \in {Plain("Record"), Plain("Set")}
      <3>1. NormaliseTypeNode(n) = n
        <4>1. n.type \in CEDAR_BUILTIN_TYPES /\ n.type # Plain("Bool")
          BY <2>5, BuiltinNames
        <4> QED
          BY <1>14, <1>10, <4>1 DEF NormaliseTypeNode
      <3>2. TypeOf(n) = <<"structure", n.type[2]>> /\ n.type = Plain(n.type[2])
        BY <1>10, <1>14, <2>5 DEF TypeOf
      <3>3. n = TypeNode(Plain(n.type[2]), NoName)
        BY <1>1, <2>1, <3>2 DEF TypeNode
      <3> QED
        BY <1>9, <3>1, <3>2, <3>3
    <2> QED
      BY <1>2, <1>14, <2>2, <2>3, <2>4, <2>5 DEF CEDAR_BUILTIN_TYPES, NameTags
  <1> QED
    BY <1>11, <1>12, <1>13, <1>14 DEF NameTags

\* Between usual schemas _normalise_top decides whether the types are the same.
LEMMA NormalFormsDecide ==
  ASSUME NEW input \in Schema, UsualSchema(input),
         NEW back \in Schema, UsualSchema(back),
         TypesOf(back) = TypesOf(input)
  PROVE  NormaliseTop(input) = NormaliseTop(back)
  <1>1. ASSUME NEW s \in Schema, UsualSchema(s)
        PROVE  NormaliseTop(s) = [shape |-> NormalForm(TypesOf(s).shape),
                                  attr |-> NormalForm(TypesOf(s).attr)]
    <2>1. s.attr \in Node /\ Usual(s.attr) /\ TypesOf(s).attr = TypeOf(s.attr)
      BY <1>1 DEF Schema, UsualSchema, TypesOf
    <2>2. NormaliseTypeNode(s.attr) = NormalForm(TypesOf(s).attr)
      BY <2>1, OneNormalForm
    <2>3. CASE s.shape = Absent
      <3>1. TypesOf(s).shape = <<"structure", "Record">>
        BY <2>3 DEF TypesOf
      <3>2. NormalForm(<<"structure", "Record">>) = TypeNode(Plain("Record"), NoName)
        BY DEF NormalForm
      <3> QED
        BY <2>2, <2>3, <3>1, <3>2 DEF NormaliseTop
    <2>4. CASE s.shape # Absent
      <3>1. s.shape \in Node /\ Usual(s.shape) /\ TypesOf(s).shape = TypeOf(s.shape)
        BY <1>1, <2>4 DEF Schema, UsualSchema, TypesOf
      <3>2. NormaliseTypeNode(s.shape) = NormalForm(TypesOf(s).shape)
        BY <3>1, OneNormalForm
      <3> QED
        BY <2>2, <2>4, <3>2 DEF NormaliseTop
    <2> QED
      BY <2>3, <2>4
  <1> QED
    BY <1>1

\* The exact part of SilentDiffsDiffer: between usual schemas.
UsualDiffsDiffer ==
  \A s \in DOMAIN spSummary :
    UsualSchema(SCHEMAS[s]) =>
      /\ spSummary[s].go = "silent_diff" /\ UsualSchema(goBack[s])
            => TypesOf(goBack[s]) # TypesOf(SCHEMAS[s])
      /\ spSummary[s].rust = "silent_diff" /\ UsualSchema(rustBack[s])
            => TypesOf(rustBack[s]) # TypesOf(SCHEMAS[s])

\* What SUMMARY.md calls a silent diff, of either engine, has other types, unless
\* the schema that went in or the one that came back has an optional attribute or
\* spells a reserved or an extension name where _normalise_type_node takes every
\* name it does not know for a declared one.
THEOREM SilentDiffsAreReal == SpSpec => []UsualDiffsDiffer
  <1>1. SpTypeOK /\ HonestCases /\ [SpNext]_spVars => HonestCases'
    BY HonestCasesStep
  <1>2. SpTypeOK /\ HonestCases => UsualDiffsDiffer
    <2> SUFFICES ASSUME SpTypeOK, HonestCases, NEW s \in DOMAIN spSummary,
                        UsualSchema(SCHEMAS[s])
                 PROVE  /\ spSummary[s].go = "silent_diff" /\ UsualSchema(goBack[s])
                              => TypesOf(goBack[s]) # TypesOf(SCHEMAS[s])
                        /\ spSummary[s].rust = "silent_diff" /\ UsualSchema(rustBack[s])
                              => TypesOf(rustBack[s]) # TypesOf(SCHEMAS[s])
      BY DEF UsualDiffsDiffer
    <2>1. s \in Schemas
      BY NSchemasAssumption DEF SpTypeOK, SpCases, Schemas
    <2>2. /\ SCHEMAS[s] \in Schema /\ goBack[s] \in Schema \cup Failures
          /\ rustBack[s] \in Schema \cup Failures
      BY <2>1, SpBoundsAssumption DEF SpTypeOK, BacksFrom, Failures
    <2>3. ASSUME NEW back \in Schema \cup Failures, UsualSchema(back),
                 Class(SCHEMAS[s], back) = "silent_diff"
          PROVE  TypesOf(back) # TypesOf(SCHEMAS[s])
      <3>1. \A f \in Failures : f.failed # "silent_diff"
        BY DEF Failures, Failed
      <3>2. back \in Schema /\ NormaliseTop(SCHEMAS[s]) # NormaliseTop(back)
        BY <2>3, <3>1 DEF Class
      <3> QED
        BY <2>2, <2>3, <3>2, NormalFormsDecide
    <2>4. /\ spSummary[s].go = "silent_diff" => Class(SCHEMAS[s], goBack[s]) = "silent_diff"
          /\ spSummary[s].rust = "silent_diff" => Class(SCHEMAS[s], rustBack[s]) = "silent_diff"
      BY DEF HonestCases, Honest, Compared
    <2> QED
      BY <2>2, <2>3, <2>4
  <1> QED
    BY <1>1, <1>2, SpTypeCorrect, HonestCasesInit, PTL DEF SpSpec
=============================================================================
