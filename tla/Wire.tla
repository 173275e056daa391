-------------------------------- MODULE Wire --------------------------------
(***************************************************************************)
(* How a message gets from one service to another: the code that ts-proto  *)
(* generates for each message type.  The caller gives a message with all   *)
(* of its fields, as its type demands and as fromPartial makes of some,    *)
(* encode writes it, and the other side decodes it, which may have been    *)
(* built from an older or a newer demo.proto than the writer: services are *)
(* deployed one by one.                                                    *)
(*                                                                         *)
(* A table of types has, for each type, the sequence of its fields.  A     *)
(* text is a number, 0 being the empty one.  A message maps the names of   *)
(* its fields to values; a submessage that may be undefined is a sequence  *)
(* of at most one, a repeated field a sequence.                            *)
(*                                                                         *)
(* The wire is a sequence of words: a tag, a number, a length or the       *)
(* contents of a text each take one, so that a length counts words.        *)
(*                                                                         *)
(* What the generated code does by calling itself for a message within a   *)
(* message is done here level by level, from the deepest messages up.      *)
(***************************************************************************)
EXTENDS Integers, SequencesExt

CONSTANTS
  Types,          \* the types the reader knows
  Methods,        \* of each method, the types of its request and response
  Writers(_),     \* the tables that the writer of a type of message may know
  Objects(_, _),  \* the messages that who knows a table gives for a type
  MaxDepth,       \* bound: how deep messages are nested
  Int32Half,      \* 2^31
  Int64Half,      \* 2^63
  MaxSafe         \* Number.MAX_SAFE_INTEGER

VARIABLES
  method,    \* the method called, an index of Methods
  side,      \* whether its request or its response is on its way
  known,     \* the table the writer knows
  given,     \* what the caller gave: a function from the names
  wire,      \* the words written
  got,       \* what decode made of them
  stage      \* "idle", "given", "written" or "read"

vars == <<method, side, known, given, wire, got, stage>>

-----------------------------------------------------------------------------
(* Types and messages.                                                       *)

Names(T) == {T[i].name : i \in DOMAIN T}

Unset(f) == CASE f.kind = "message" \/ f.repeated -> <<>>
              [] f.kind = "bool"                  -> FALSE
              [] OTHER                            -> 0

FieldNamed(T, name) == T[CHOOSE i \in DOMAIN T : T[i].name = name]

createBase(T) == [name \in Names(T) |-> Unset(FieldNamed(T, name))]

\* A partial message has some of the names only.
fromPartial(T, object) ==
  [name \in Names(T) |->
     IF name \in DOMAIN object THEN object[name] ELSE createBase(T)[name]]

WireType(f) == CASE f.kind \in {"string", "message"} -> 2
                 [] f.kind = "double"                -> 1
                 [] OTHER                            -> 0

TagOf(f) == 8 * f.no + WireType(f)

\* What the fields of p[2] hold of messages, each with its type; p is a pair of a
\* type and a message of this type or an object with some of its names.
Inside(V, p) ==
  UNION {{<<f.type, p[2][f.name][k]>> : k \in DOMAIN p[2][f.name]} :
           f \in {g \in Range(V[p[1]]) : g.kind = "message" /\ g.name \in DOMAIN p[2]}}

\* What p holds of messages 0, 1, 2 ... levels down, and all that it holds.
Levels(V, p) ==
  LET at[n \in 0..MaxDepth] ==
        IF n = 0 THEN {p} ELSE UNION {Inside(V, q) : q \in at[n - 1]}
  IN  at

Parts(V, p) == UNION {Levels(V, p)[n] : n \in 0..MaxDepth}

-----------------------------------------------------------------------------
(* Writing.                                                                  *)

Ldelim(words) == <<Len(words)>> \o words

\* One value, without its tag: a negative number is written as 64 bits.
EncodeValue(enc, f, v) ==
  CASE f.kind = "message" -> Ldelim(enc[<<f.type, v>>])
    [] f.kind = "string"  -> Ldelim(IF v = 0 THEN <<>> ELSE <<v>>)
    [] f.kind = "bool"    -> <<IF v THEN 1 ELSE 0>>
    [] OTHER              -> <<v % (2 * Int64Half)>>

\* One value after its tag.
EncodeElement(enc, f, v) == <<TagOf(f)>> \o EncodeValue(enc, f, v)

\* The values of a field that are written: not the one that is its default.
Elements(f, v) == IF f.kind = "message" \/ f.repeated THEN v
                  ELSE IF v = Unset(f) THEN <<>> ELSE <<v>>

\* The words of the first 0, 1, 2 ... values of a field.
FieldWords(enc, f, v) ==
  LET each == Elements(f, v)
      words[k \in 0..Len(each)] ==
        IF k = 0 THEN <<>> ELSE words[k - 1] \o EncodeElement(enc, f, each[k])
  IN  words

EncodeField(enc, f, v) == FieldWords(enc, f, v)[Len(Elements(f, v))]

\* The words of the first 0, 1, 2 ... fields of p[2], enc having those of the
\* messages inside.
MessageWords(V, enc, p) ==
  LET S == V[p[1]]
      words[i \in 0..Len(S)] ==
        IF i = 0 THEN <<>> ELSE words[i - 1] \o EncodeField(enc, S[i], p[2][S[i].name])
  IN  words

EncodeMessage(V, enc, p) == MessageWords(V, enc, p)[Len(V[p[1]])]

\* The words of what p holds: at n, of what has at most n levels inside.
Encodings(V, p) ==
  LET parts == Parts(V, p)
      enc[n \in 0..MaxDepth] ==
        [q \in parts |-> EncodeMessage(V, IF n = 0 THEN <<>> ELSE enc[n - 1], q)]
  IN  enc

encode(V, p) == Encodings(V, p)[MaxDepth][p]

-----------------------------------------------------------------------------
(* Reading.                                                                  *)

Signed(w, half) == ((w + half) % (2 * half)) - half

\* Variant: only numbers that are too large are refused.
LongToNumberTop(n) == [val |-> n, ok |-> n <= MaxSafe]

longToNumber(n) == [val |-> n, ok |-> -MaxSafe <= n /\ n <= MaxSafe]

\* Where a value of an unknown field ends that starts at p.
SkipType(type, w, p) == IF type = 2 THEN p + 1 + w[p] ELSE p + 1

\* The value at p of a field, where it ends, and whether it could be read; dec has
\* what decode makes of the words from one place to another.
Read(dec, w, f, p) ==
  CASE f.kind = "message" ->
         LET d == dec[<<f.type, p + 1, p + 1 + w[p]>>]
         IN  [val |-> d.msg, at |-> d.at, ok |-> d.ok]
    [] f.kind = "string" ->
         [val |-> IF w[p] = 0 THEN 0 ELSE w[p + 1], at |-> p + 1 + w[p], ok |-> TRUE]
    [] f.kind = "int64" ->
         LET n == longToNumber(Signed(w[p], Int64Half))
         IN  [val |-> n.val, at |-> p + 1, ok |-> n.ok]
    [] f.kind = "int32" -> [val |-> Signed(w[p], Int32Half), at |-> p + 1, ok |-> TRUE]
    [] f.kind = "bool"  -> [val |-> w[p] # 0, at |-> p + 1, ok |-> TRUE]

\* Variant: the last value counts of a repeated field, too.
PutLast(m, f, v) ==
  [m EXCEPT ![f.name] = IF f.kind = "message" \/ f.repeated THEN <<v>> ELSE v]

\* A repeated field grows; of any other the last value counts.
Put(m, f, v) ==
  [m EXCEPT ![f.name] = IF f.repeated THEN Append(@, v)
                        ELSE IF f.kind = "message" THEN <<v>> ELSE v]

\* The fields of T with the number a tag carries; with the wire type it carries,
\* too, a field is read, and otherwise skipped.
Expected(T, tag) == {i \in DOMAIN T : T[i].no = tag \div 8 /\ TagOf(T[i]) = tag}

\* One turn of the loop of decode, from s to the state it leaves: the message so
\* far, where it has read to, whether all could be read, and whether it goes on.
Turn(dec, w, T, end, s) ==
  IF ~s.on \/ s.at >= end THEN s
  ELSE IF Expected(T, w[s.at]) # {}
    THEN LET f == T[CHOOSE i \in Expected(T, w[s.at]) : TRUE]
             r == Read(dec, w, f, s.at + 1)
         IN  [msg |-> IF r.ok THEN Put(s.msg, f, r.val) ELSE s.msg,
              at |-> r.at, ok |-> r.ok, on |-> r.ok]
  ELSE IF w[s.at] % 8 = 4 \/ w[s.at] = 0 THEN [s EXCEPT !.at = @ + 1, !.on = FALSE]
  ELSE [s EXCEPT !.at = SkipType(w[s.at] % 8, w, @ + 1)]

\* The loop of decode for a message of type x[1] in the words from x[2] to x[3];
\* a turn takes a word at least.
Loop(dec, w, x) ==
  LET turn[n \in 0..Len(w)] ==
        IF n = 0 THEN [msg |-> createBase(Types[x[1]]), at |-> x[2], ok |-> TRUE, on |-> TRUE]
        ELSE Turn(dec, w, Types[x[1]], x[3], turn[n - 1])
  IN  turn

\* What decode makes of words: at n, of at most n of them, as a message in a
\* message has fewer words.
Decodings(w) ==
  LET dec[n \in 0..Len(w)] ==
        [x \in (DOMAIN Types) \X Nat \X Nat |->
           Loop(IF n = 0 THEN <<>> ELSE dec[n - 1], w, x)[Len(w)]]
  IN  dec

decode(w, type) == Decodings(w)[Len(w)][<<type, 1, Len(w) + 1>>]

-----------------------------------------------------------------------------
(* JSON.  An object has the names it has keys for.                           *)

\* Variant: a number that is not above its default is left out.
ToObjectAbove(js, p) ==
  LET T == Types[p[1]]
  IN  [name \in {n \in Names(T) : LET f == FieldNamed(T, n)
                                  IN  /\ p[2][n] # Unset(f)
                                      /\ f.kind \in {"int32", "int64"} => p[2][n] > 0} |->
         LET f == FieldNamed(T, name)
         IN  IF f.kind = "message"
               THEN [k \in DOMAIN p[2][name] |-> js[<<f.type, p[2][name][k]>>]]
               ELSE p[2][name]]

\* The object of a message, js having those of the messages inside.
ToObject(js, p) ==
  LET T == Types[p[1]]
  IN  [name \in {n \in Names(T) : p[2][n] # Unset(FieldNamed(T, n))} |->
         LET f == FieldNamed(T, name)
         IN  IF f.kind = "message"
               THEN [k \in DOMAIN p[2][name] |-> js[<<f.type, p[2][name][k]>>]]
               ELSE p[2][name]]

ToObjects(p) ==
  LET parts == Parts(Types, p)
      js[n \in 0..MaxDepth] == [q \in parts |-> ToObject(IF n = 0 THEN <<>> ELSE js[n - 1], q)]
  IN  js

toJSON(p) == ToObjects(p)[MaxDepth][p]

\* The message of an object, back having those of the objects inside.
FromObject(back, p) ==
  LET T == Types[p[1]]
  IN  [name \in Names(T) |->
         LET f == FieldNamed(T, name)
         IN  IF name \notin DOMAIN p[2] THEN Unset(f)
             ELSE IF f.kind = "message"
               THEN [k \in DOMAIN p[2][name] |-> back[<<f.type, p[2][name][k]>>]]
               ELSE p[2][name]]

FromObjects(p) ==
  LET parts == Parts(Types, p)
      back[n \in 0..MaxDepth] ==
        [q \in parts |-> FromObject(IF n = 0 THEN <<>> ELSE back[n - 1], q)]
  IN  back

fromJSON(p) == FromObjects(p)[MaxDepth][p]

-----------------------------------------------------------------------------
(* What the constants are to be.                                             *)

Fields ==
  [no : Nat \ {0}, name : STRING, repeated : BOOLEAN, type : STRING,
   kind : {"string", "bool", "int32", "int64", "double", "message"}]

\* Fields of a type differ in number and name.  Only strings and messages repeat:
\* numbers would be packed.
IsTable(V) ==
  \A type \in DOMAIN V :
    LET T == V[type]
    IN  /\ T \in Seq(Fields)
        /\ \A i, j \in DOMAIN T : i # j => T[i].no # T[j].no /\ T[i].name # T[j].name
        /\ \A f \in Range(T) : /\ f.kind = "message" => f.type \in DOMAIN V
                               /\ f.repeated => f.kind \in {"string", "message"}

\* A number is not used again for a field of another kind that is written alike.
Agrees(V) ==
  \A type \in DOMAIN V \cap DOMAIN Types :
    \A g \in Range(V[type]), f \in Range(Types[type]) :
      TagOf(g) = TagOf(f) => g.kind = f.kind /\ g.repeated = f.repeated /\ g.type = f.type

IsScalar(f, v) == CASE f.kind \in {"int32", "int64"} -> v \in -Int64Half .. Int64Half - 1
                    [] f.kind = "bool"               -> v \in BOOLEAN
                    [] OTHER                         -> v \in Nat

IsValue(f, v) ==
  IF f.kind = "message" \/ f.repeated
    THEN /\ v \in Seq(Range(v))
         /\ f.repeated \/ Len(v) <= 1
         /\ f.kind # "message" => \A k \in DOMAIN v : IsScalar(f, v[k])
    ELSE IsScalar(f, v)

\* p[2] is a message of type p[1], to the bottom.
IsMessage(V, p) ==
  /\ \A n \in 0..MaxDepth : \A q \in Levels(V, p)[n] :
       /\ DOMAIN q[2] = Names(V[q[1]])
       /\ \A f \in Range(V[q[1]]) : IsValue(f, q[2][f.name])
  /\ \A q \in Levels(V, p)[MaxDepth] : Inside(V, q) = {}

ASSUME WireAssumption ==
  /\ Int32Half \in Nat \ {0} /\ Int64Half \in Nat \ {0} /\ Int64Half % Int32Half = 0
  /\ MaxSafe \in Nat /\ MaxDepth \in Nat
  /\ IsTable(Types)
  /\ \A type \in DOMAIN Types : \A f \in Range(Types[type]) : f.kind # "double"
  /\ \A c \in DOMAIN Methods, s \in {"request", "response"} :
       LET type == Methods[c][s]
       IN  /\ type \in DOMAIN Types
           /\ \A V \in Writers(type) :
                /\ type \in DOMAIN V /\ IsTable(V) /\ Agrees(V)
                /\ \A object \in Objects(V, type) :
                     IsMessage(V, <<type, object>>)

-----------------------------------------------------------------------------
Nothing == [msg |-> <<>>, at |-> 0, ok |-> TRUE, on |-> TRUE]

Init ==
  /\ method = 0 /\ side = "request"
  /\ known = <<>> /\ given = <<>>
  /\ wire = <<>> /\ got = Nothing
  /\ stage = "idle"

Expects == Methods[method][side]   \* the type of the message on its way

\* A client begins a request, or a server a response.
Begin(c, s) ==
  /\ stage = "idle"
  /\ method' = c /\ side' = s
  /\ known' \in Writers(Methods[c][s])
  /\ given' \in Objects(known', Methods[c][s])
  /\ stage' = "given"
  /\ UNCHANGED <<wire, got>>

\* The value is written as it is given.
Sent == <<Expects, given>>

\* requestSerialize, responseSerialize.
Serialize ==
  /\ stage = "given"
  /\ wire' = encode(known, Sent)
  /\ stage' = "written"
  /\ UNCHANGED <<method, side, known, given, got>>

\* requestDeserialize, responseDeserialize.
Deserialize ==
  /\ stage = "written"
  /\ got' = decode(wire, Expects)
  /\ stage' = "read"
  /\ UNCHANGED <<method, side, known, given, wire>>

Next ==
  \/ \E c \in DOMAIN Methods, s \in {"request", "response"} : Begin(c, s)
  \/ Serialize
  \/ Deserialize

Spec == Init /\ [][Next]_vars

-----------------------------------------------------------------------------
(* Properties.                                                               *)

\* A value as a reader is to have it, mean having the messages inside.
ValueMeant(mean, f, v) ==
  CASE f.kind = "message" -> [k \in DOMAIN v |-> mean[<<f.type, v[k]>>]]
    [] f.kind = "int32"   -> Signed(v, Int32Half)
    [] OTHER              -> v

\* The fields of S that are written as f is.
Written(S, f) == {i \in DOMAIN S : TagOf(S[i]) = TagOf(f)}

\* What the reader is to make of a message whose writer knew V.
Meant(mean, V, p) ==
  LET S == V[p[1]]
      T == Types[p[1]]
  IN  [name \in Names(T) |->
         LET f == FieldNamed(T, name)
         IN  IF Written(S, f) = {} THEN Unset(f)
             ELSE LET g == S[CHOOSE i \in Written(S, f) : TRUE]
                  IN  ValueMeant(mean, f, p[2][g.name])]

Meanings(V, p) ==
  LET parts == Parts(V, p)
      mean[n \in 0..MaxDepth] == [q \in parts |-> Meant(IF n = 0 THEN <<>> ELSE mean[n - 1], V, q)]
  IN  mean

Meaning(V, p) == Meanings(V, p)[MaxDepth][p]

\* Whether a reader meets, in p, a number it cannot represent; bad has the
\* messages inside in which it does.
HasUnsafe(bad, V, p) ==
  /\ p[1] \in DOMAIN Types
  /\ \E f \in Range(Types[p[1]]) : \E i \in Written(V[p[1]], f) :
       LET v == p[2][V[p[1]][i].name]
       IN  \/ f.kind = "int64" /\ v \notin -MaxSafe .. MaxSafe
           \/ f.kind = "message" /\ \E k \in DOMAIN v : <<f.type, v[k]>> \in bad

UnsafeIn(V, p) ==
  LET parts == Parts(V, p)
      bad[n \in 0..MaxDepth] == {q \in parts : HasUnsafe(IF n = 0 THEN {} ELSE bad[n - 1], V, q)}
  IN  bad

Unsafe(V, p) == p \in UnsafeIn(V, p)[MaxDepth]

\* A message is read as it was meant, to its end, whatever fields its writer did
\* not know yet, knew besides or took for something else, at any depth: what the
\* reader does not expect it skips, and what it misses has its default.
ReadAsMeant ==
  stage = "read" /\ got.ok =>
    /\ got.msg = Meaning(known, Sent)
    /\ got.at = Len(wire) + 1

\* A call fails at its reader for one reason only: an int64, wherever in the
\* message, that a JavaScript number does not represent.
OnlyUnsafeUnitsFail == stage = "read" => (got.ok <=> ~Unsafe(known, Sent))

\* A message that was read survives being turned into JSON and back, although
\* toJSON leaves out every field that has its default.
JsonKeepsTheMessage ==
  stage = "read" /\ got.ok =>
    fromJSON(<<Expects, toJSON(<<Expects, got.msg>>)>>) = got.msg
=============================================================================
