------------------------------ MODULE MCWire ------------------------------
(***************************************************************************)
(* Wire for the messages of demo.proto, and the versions of demo.proto     *)
(* that a writer may have been built from.                                 *)
(***************************************************************************)
EXTENDS Wire, DemoMessages

-----------------------------------------------------------------------------
(* Another version of demo.proto may have a type with a field more, with a   *)
(* number that is not used here; without its last field; or with a field of  *)
(* another wire type.                                                        *)

Extras == {Text(15, "extra"), Field(15, "extra", "double", FALSE, "none"),
           One(15, "extra", "Extra")}

Extra == <<Text(1, "inner"), Int32(2, "more")>>

Retyped(f) == IF WireType(f) = 2 THEN Int32(f.no, f.name) ELSE Text(f.no, f.name)

Neighbours(T) ==
  {<<x>> \o T : x \in Extras}
  \cup {[T EXCEPT ![i] = Retyped(T[i])] : i \in DOMAIN T}
  \cup (IF T = <<>> THEN {} ELSE {Front(T)})

RECURSIVE Reached(_)
Reached(type) ==
  {type} \cup UNION {Reached(f.type) : f \in {g \in Range(DemoTypes[type]) : g.kind = "message"}}

\* Of the types in a message one may be another than the reader's.
MCWriters(type) ==
  LET Table == [t \in Reached(type) \cup {"Extra"} |-> IF t = "Extra" THEN Extra ELSE DemoTypes[t]]
  IN  {Table} \cup UNION {{[Table EXCEPT ![t] = T] : T \in Neighbours(DemoTypes[t])} :
                           t \in Reached(type)}

-----------------------------------------------------------------------------
(* Each field is given its extreme values; a message in it is empty, full,   *)
(* or has a single field.                                                    *)

RECURSIVE Full(_, _)
FullValue(V, f) ==
  CASE f.kind = "message" -> IF f.repeated THEN <<createBase(V[f.type]), Full(V, V[f.type])>>
                                           ELSE <<Full(V, V[f.type])>>
    [] f.kind = "bool"    -> TRUE
    [] OTHER              -> IF f.repeated THEN <<0, f.no>> ELSE f.no
Full(V, T) == [name \in Names(T) |-> FullValue(V, FieldNamed(T, name))]

Scalars(V, f) ==
  CASE f.kind = "int32" -> {-1, 1, Int32Half}
    [] f.kind = "int64" -> {-1, MaxSafe, MaxSafe + 1, -MaxSafe - 1}
    [] OTHER            -> {FullValue(V, f)}

RECURSIVE Values(_, _)
Values(V, f) ==
  IF f.kind # "message" THEN Scalars(V, f)
  ELSE LET T    == V[f.type]
           base == createBase(T)
           one  == {base, Full(V, T)} \cup
                   UNION {{[base EXCEPT ![T[i].name] = v] : v \in Values(V, T[i])} : i \in DOMAIN T}
       IN  IF f.repeated THEN {<<base, m>> : m \in one} ELSE {<<m>> : m \in one}

\* Messages with values for up to two fields.
MCObjects(V, type) ==
  LET one == UNION {{f.name :> v : v \in Values(V, f)} : f \in Range(V[type])}
  IN  {fromPartial(V[type], object) : object \in {<<>>} \cup one \cup {a @@ b : a, b \in one}}
=============================================================================
