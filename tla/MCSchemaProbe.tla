--------------------------- MODULE MCSchemaProbe ---------------------------
(* One schema with an optional attribute, for TLC: cedar-go spells the type *)
(* of the attribute in another way and keeps it optional, or drops that.    *)
EXTENDS SchemaProbe

Optionals(type, name, required) ==
    [shape |-> TypeNode(Plain("Record"), NoName),
     attr |-> [type |-> Plain(type), name |-> name, required |-> required]]

OptString   == <<Optionals("String", NoName, FALSE)>>
Respellings == <<{Optionals("EntityOrCommon", Plain("String"), r) : r \in BOOLEAN}>>
============================================================================
