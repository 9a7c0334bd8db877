-------------------------------- MODULE Serde --------------------------------
(***************************************************************************)
(* How serde_json writes and reads a type of src/lsp: a schema says what   *)
(* the derive attributes of a Rust type say (names on the wire, optional   *)
(* members, untagged and tagged enums, flattening), Encode is to_value and *)
(* Decode is from_value.  serde is a library: this module is modelled from *)
(* the attributes the source uses.                                         *)
(*                                                                         *)
(* JSON values and Rust values are records with one field, named for the   *)
(* kind of value, so that values of different kinds are never compared.    *)
(* Numbers and strings are members of small sets.                          *)
(*                                                                         *)
(* serde also reads a struct from an array of its members in the order of  *)
(* their declaration, which is why a struct has an order here, unless it   *)
(* flattens another or is the inline alternative of an untagged enum.      *)
(***************************************************************************)
EXTENDS Integers, Sequences, TLC

-----------------------------------------------------------------------------
(* JSON values *)
Null == [null |-> TRUE]
Object(members) == [object |-> members]
Array(items) == [array |-> items]
String(s) == [string |-> s]
Number(n) == [number |-> n]
Boolean(b) == [boolean |-> b]

IsObject(j) == "object" \in DOMAIN j
IsArray(j) == "array" \in DOMAIN j
IsString(j) == "string" \in DOMAIN j
NoMembers == [m \in {} |-> Null]

-----------------------------------------------------------------------------
(* Schemas *)
Bool == [bool |-> TRUE]
Num == [num |-> TRUE]                       \* u32, i32, i64, f64
Str == [str |-> TRUE]                       \* String, Uri, open string enums
AnyValue == [any |-> TRUE]                       \* serde_json::Value
Ints(ns) == [ints |-> ns]                   \* an enum of the int_enum! macro
Words(ws) == [words |-> ws]                 \* a fieldless enum with string names
Vec(T) == [vec |-> T]
MapTo(T) == [map |-> T]                     \* a HashMap or Map from strings
Tuple(Ts) == [tuple |-> Ts]
Union(Ts) == [union |-> Ts]                 \* #[serde(untagged)], in order
Tagged(Ts) == [tagged |-> Ts]               \* #[serde(tag = "kind")]
Ref(name) == [ref |-> name]                 \* a named type

\* Members of a struct that are not simply required.
Opt(T) == [opt |-> T]                       \* Option, default, skipped if None
Many(T) == [many |-> T]                     \* Vec, default, skipped if empty
Nullable(T) == [nullable |-> T]             \* Option written as null if None
Default(T) == [default |-> T]               \* #[serde(default)], always written
Rest == [rest |-> TRUE]                     \* #[serde(flatten)] of a Map: "rest"

Kind(T) == CHOOSE k \in DOMAIN T \ {"order"} : TRUE

\* A struct whose members are read by their names only.
ByName(fields) == [struct |-> fields]

\* A struct, as the sequence of its members, each a function of one name; several
\* of one type, and several that are Option<bool>.
Struct(members) ==
    [struct |-> [f \in UNION {DOMAIN members[i] : i \in DOMAIN members} |->
                    members[CHOOSE i \in DOMAIN members : f \in DOMAIN members[i]][f]],
     order |-> [i \in DOMAIN members |-> CHOOSE f \in DOMAIN members[i] : TRUE]]
Each(names, T) == [i \in DOMAIN names |-> names[i] :> T]
Flags(names) == Each(names, Opt(Bool))

-----------------------------------------------------------------------------
(* Writing: to_value.  `types` gives the schema of each named type.        *)
(* A Rust value is [bool |-> b], [num |-> n], [str |-> s], [any |-> json], *)
(* [vec |-> sequence], [map |-> function], [variant |-> i, of |-> value]   *)
(* or [struct |-> the members that are not None].                          *)
RECURSIVE Encode(_, _, _)
Encode(types, T, v) ==
    CASE Kind(T) = "bool" -> Boolean(v.bool)
      [] Kind(T) \in {"num", "ints"} -> Number(v.num)
      [] Kind(T) \in {"str", "words"} -> String(v.str)
      [] Kind(T) = "any" -> v.any
      [] Kind(T) = "ref" -> Encode(types, types[T.ref], v)
      [] Kind(T) = "vec" -> Array([i \in DOMAIN v.vec |-> Encode(types, T.vec, v.vec[i])])
      [] Kind(T) = "tuple" -> Array([i \in DOMAIN v.vec |-> Encode(types, T.tuple[i], v.vec[i])])
      [] Kind(T) = "map" -> Object([k \in DOMAIN v.map |-> Encode(types, T.map, v.map[k])])
      [] Kind(T) = "union" -> Encode(types, T.union[v.variant], v.of)
      [] Kind(T) = "tagged" ->
            Object(("kind" :> String(v.variant))
                       @@ Encode(types, T.tagged[v.variant], v.of).object)
      [] Kind(T) = "struct" ->
            LET F == T.struct
                m == v.struct
                skipped(f) == Kind(F[f]) = "many" /\ m[f].vec = <<>>
                plain == {f \in DOMAIN m : f # "rest" /\ ~skipped(f)}
                member(f) == CASE Kind(F[f]) = "many" -> Encode(types, Vec(F[f].many), m[f])
                               [] Kind(F[f]) = "opt" -> Encode(types, F[f].opt, m[f])
                               [] Kind(F[f]) = "nullable" -> Encode(types, F[f].nullable, m[f])
                               [] Kind(F[f]) = "default" -> Encode(types, F[f].default, m[f])
                               [] OTHER -> Encode(types, F[f], m[f])
                nulls == {f \in DOMAIN F \ DOMAIN m : Kind(F[f]) = "nullable"}
            IN Object([f \in plain |-> member(f)]
                          @@ [f \in nulls |-> Null]
                          @@ IF "rest" \in DOMAIN m THEN m["rest"].map ELSE NoMembers)

-----------------------------------------------------------------------------
(* Reading: from_value.  Decode is {value}, or {} where serde fails. *)
RECURSIVE Decode(_, _, _)

Only(S) == CHOOSE x \in S : TRUE

\* All of the parts, or none of them.
All(parts) == IF \E i \in DOMAIN parts : parts[i] = {} THEN {}
              ELSE {[i \in DOMAIN parts |-> Only(parts[i])]}

\* The members of a struct: an Option reads null and nothing as None, a member
\* with a default may be missing, any other must be there; members without a
\* field go to the flattened map, and are ignored where there is none.
DecodeStruct(types, F, given) ==
    LET absent(f) == f \notin DOMAIN given
        none(f) == absent(f) \/ given[f] = Null
        fields == DOMAIN F \ {"rest"}
        omitted == {f \in fields : Kind(F[f]) \in {"opt", "nullable"} /\ none(f)}
        read(f) == CASE Kind(F[f]) = "opt" -> Decode(types, F[f].opt, given[f])
                     [] Kind(F[f]) = "nullable" -> Decode(types, F[f].nullable, given[f])
                     [] Kind(F[f]) = "many" -> IF absent(f) THEN {[vec |-> <<>>]}
                                               ELSE Decode(types, Vec(F[f].many), given[f])
                     [] Kind(F[f]) = "default" ->
                            Decode(types, F[f].default,
                                   IF absent(f) THEN Object(NoMembers) ELSE given[f])
                     [] OTHER -> IF absent(f) THEN {} ELSE Decode(types, F[f], given[f])
        others == [k \in DOMAIN given \ fields |-> given[k]]
    IN {[struct |-> IF "rest" \in DOMAIN F THEN m @@ ("rest" :> [map |-> others]) ELSE m] :
           m \in All([f \in fields \ omitted |-> read(f)])}

\* The members of a struct in order.  The last of them may be missing if they
\* have a default, and none may be left over.
DecodeRow(types, T, items) ==
    LET given == [f \in {T.order[i] : i \in DOMAIN items \cap DOMAIN T.order} |->
                      items[CHOOSE i \in DOMAIN items : T.order[i] = f]]
    IN IF \/ Len(items) > Len(T.order)
          \/ \E f \in DOMAIN T.struct \ DOMAIN given : Kind(T.struct[f]) = "nullable"
       THEN {}
       ELSE DecodeStruct(types, T.struct, given)

Decode(types, T, j) ==
    CASE Kind(T) = "any" -> {[any |-> j]}
      [] Kind(T) = "ref" -> Decode(types, types[T.ref], j)
      [] Kind(T) = "bool" -> IF "boolean" \in DOMAIN j THEN {[bool |-> j.boolean]} ELSE {}
      [] Kind(T) = "num" -> IF "number" \in DOMAIN j THEN {[num |-> j.number]} ELSE {}
      [] Kind(T) = "str" -> IF IsString(j) THEN {[str |-> j.string]} ELSE {}
      [] Kind(T) = "ints" ->
            IF "number" \in DOMAIN j /\ j.number \in T.ints THEN {[num |-> j.number]} ELSE {}
      [] Kind(T) = "words" ->
            {[str |-> w] : w \in {w \in T.words : j \in {String(w), Object(w :> Null)}}}
      [] Kind(T) = "vec" -> IF ~IsArray(j) THEN {}
            ELSE {[vec |-> s] : s \in All([i \in DOMAIN j.array |-> Decode(types, T.vec, j.array[i])])}
      [] Kind(T) = "tuple" -> IF ~IsArray(j) \/ Len(j.array) # Len(T.tuple) THEN {}
            ELSE {[vec |-> s] :
                     s \in All([i \in DOMAIN j.array |-> Decode(types, T.tuple[i], j.array[i])])}
      [] Kind(T) = "map" -> IF ~IsObject(j) THEN {}
            ELSE {[map |-> m] :
                     m \in All([k \in DOMAIN j.object |-> Decode(types, T.map, j.object[k])])}
      [] Kind(T) = "struct" ->
            CASE IsObject(j) -> DecodeStruct(types, T.struct, j.object)
              [] IsArray(j) /\ "order" \in DOMAIN T -> DecodeRow(types, T, j.array)
              [] OTHER -> {}
      \* the first alternative that reads the value
      [] Kind(T) = "union" ->
            LET reads == {i \in DOMAIN T.union : Decode(types, T.union[i], j) # {}}
                first == CHOOSE i \in reads : \A k \in reads : i <= k
            IN IF reads = {} THEN {}
               ELSE {[variant |-> first, of |-> v] : v \in Decode(types, T.union[first], j)}
      \* the alternative the tag names, which reads the other members; the tag of
      \* an array is its first item
      [] Kind(T) = "tagged" ->
            LET kind == CASE IsObject(j) /\ "kind" \in DOMAIN j.object -> j.object["kind"]
                          [] IsArray(j) /\ j.array # <<>> -> Head(j.array)
                          [] OTHER -> Null
                others == IF IsArray(j) THEN Array(Tail(j.array))
                          ELSE Object([k \in DOMAIN j.object \ {"kind"} |-> j.object[k]])
            IN IF ~IsString(kind) \/ kind.string \notin DOMAIN T.tagged THEN {}
               ELSE {[variant |-> kind.string, of |-> v] :
                        v \in Decode(types, T.tagged[kind.string], others)}

-----------------------------------------------------------------------------
(* Samples of a type: for a struct the value with the required members     *)
(* only, the value with every member, and each value that differs from the *)
(* first in one member; nested values vary to the given depth.             *)
RECURSIVE Samples(_, _, _)
RECURSIVE Least(_, _)

Field(T) == CASE Kind(T) = "opt" -> T.opt [] Kind(T) = "many" -> Vec(T.many)
              [] Kind(T) = "nullable" -> T.nullable [] Kind(T) = "default" -> T.default
              [] Kind(T) = "rest" -> MapTo(AnyValue) [] OTHER -> T

Least(types, T) ==
    CASE Kind(T) = "bool" -> [bool |-> TRUE]
      [] Kind(T) = "num" -> [num |-> 7]
      [] Kind(T) = "str" -> [str |-> "text"]
      [] Kind(T) = "any" -> [any |-> String("any")]
      [] Kind(T) = "ints" -> [num |-> CHOOSE n \in T.ints : TRUE]
      [] Kind(T) = "words" -> [str |-> CHOOSE w \in T.words : TRUE]
      [] Kind(T) = "ref" -> Least(types, types[T.ref])
      [] Kind(T) = "vec" -> [vec |-> <<>>]
      [] Kind(T) = "map" -> [map |-> NoMembers]
      [] Kind(T) = "tuple" -> [vec |-> [i \in DOMAIN T.tuple |-> Least(types, T.tuple[i])]]
      [] Kind(T) = "union" -> [variant |-> 1, of |-> Least(types, T.union[1])]
      [] Kind(T) = "tagged" -> LET k == Kind(T.tagged)
                               IN [variant |-> k, of |-> Least(types, T.tagged[k])]
      [] Kind(T) = "struct" ->
            [struct |-> [f \in {g \in DOMAIN T.struct : Kind(T.struct[g]) \notin {"opt", "nullable"}}
                            |-> Least(types, Field(T.struct[f]))]]

Samples(types, T, depth) ==
    CASE Kind(T) = "bool" -> {[bool |-> b] : b \in BOOLEAN}
      [] Kind(T) = "ints" -> {[num |-> n] : n \in T.ints}
      [] Kind(T) = "words" -> {[str |-> w] : w \in T.words}
      [] Kind(T) = "ref" -> Samples(types, types[T.ref], depth)
      [] Kind(T) = "vec" -> {[vec |-> <<>>]}
                                \cup {[vec |-> <<v>>] : v \in Samples(types, T.vec, depth)}
      [] Kind(T) = "map" -> {[map |-> NoMembers]}
                                \cup {[map |-> ("key" :> v)] : v \in Samples(types, T.map, depth)}
      [] Kind(T) = "union" -> UNION {{[variant |-> i, of |-> v] :
                                         v \in Samples(types, T.union[i], depth)} :
                                     i \in DOMAIN T.union}
      [] Kind(T) = "tagged" -> UNION {{[variant |-> k, of |-> v] :
                                          v \in Samples(types, T.tagged[k], depth)} :
                                      k \in DOMAIN T.tagged}
      [] Kind(T) = "struct" ->
            LET F == T.struct
                least == Least(types, T).struct
                full == [f \in DOMAIN F |->
                            IF f \in DOMAIN least THEN least[f] ELSE Least(types, Field(F[f]))]
                with(f, v) == (f :> v) @@ least
            IN {[struct |-> least]}
                   \cup IF depth = 0 THEN {}
                        ELSE {[struct |-> full]}
                             \cup UNION {{[struct |-> with(f, v)] :
                                             v \in Samples(types, Field(F[f]), depth - 1)} :
                                         f \in DOMAIN F}
      [] OTHER -> {Least(types, T)}
=============================================================================
