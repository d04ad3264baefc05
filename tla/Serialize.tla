------------------------------- MODULE Serialize -------------------------------
(***************************************************************************)
(* What becomes of a value on its way into a json text and back: data.c,   *)
(* the serializers of its types, json.c and the actions of json.grammar.   *)
(* A text is the tree its parser sees; the characters of a string are left *)
(* out, but for the words that mean something.                             *)
(***************************************************************************)
EXTENDS Integers, Sequences, SequencesExt, FiniteSets, Functions, TLC

CONSTANTS
  PlainWords,    \* words that mean nothing
  Keys,          \* keys of dictionaries
  Ints           \* numbers

(* A value is <<type, content>>: <<"str", word>>, <<"list", values>>,      *)
(* <<"dict", [key -> value]>>, <<"exception", [code, message, throwable]>>,*)
(* <<"args", [args, kwargs]>>, <<"name", word>> for any type that is not   *)
(* built in and has no serializer; <<"quoted", word>> is a string in quotes*)
Null_ == <<"null", "null">>
Bool_(b) == <<"bool", b>>
Str_(w) == <<"str", w>>
Dict_(entries) == <<"dict", entries>>
KnownTypes == {"dictionary", "exception", "arguments", "name"}
TypeKey == "__obl_type__"

VARIABLES
  serValue,      \* the value that is encoded
  serText,       \* its text, or NoText
  serGot         \* what was decoded from it
serVars == <<serValue, serText, serGot>>
NoText == <<"none", 0>>

\* What a value looks like: data_tostring.
AsString(v) == IF v[1] = "bool" THEN (IF v[2] THEN "true" ELSE "false") ELSE v[2]
-----------------------------------------------------------------------------
(* data_serialize: a type that is not built in becomes a dictionary with   *)
(* its name; a string gets its quotes there and then, but the message of   *)
(* an exception and the text of a value without a serializer do not.       *)
Tagged(entries, type) == Dict_((TypeKey :> <<"quoted", type>>) @@ entries)

_str_serialize(w) == <<"quoted", w>>

RECURSIVE data_serialize(_)
_list_serialize(items) == <<"list", [i \in DOMAIN items |-> data_serialize(items[i])]>>
_dictionary_serialize(entries) == [k \in DOMAIN entries |-> data_serialize(entries[k])]
_exception_serialize(e) ==
  [code |-> <<"int", e.code>>, message |-> Str_(e.message), throwable |-> data_serialize(e.throwable),
   stacktrace |-> data_serialize(Null_)]
_arguments_serialize(a) == [args |-> _list_serialize(a.args), kwargs |-> Tagged(_dictionary_serialize(a.kwargs), "dictionary")]
data_serialize(v) ==
  CASE v[1] = "str" -> _str_serialize(v[2])
    [] v[1] = "list" -> _list_serialize(v[2])
    [] v[1] = "dict" -> Tagged(_dictionary_serialize(v[2]), "dictionary")
    [] v[1] = "exception" -> Tagged(_exception_serialize(v[2]), "exception")
    [] v[1] = "args" -> Tagged(_arguments_serialize(v[2]), "arguments")
    [] v[1] = "name" -> Tagged([value |-> Str_(v[2])], "name")
    [] OTHER -> v

(* data_encode: what is not in quotes is written as it is.                 *)
RECURSIVE data_encode(_)
_list_encode(items) == [i \in DOMAIN items |-> data_encode(items[i])]
_dictionary_encode(entries) ==
  {<<"qstring", k, data_encode(entries[k])>> : k \in DOMAIN entries}
data_encode(v) ==
  CASE v[1] = "quoted" -> <<"qstring", v[2]>>
    [] v[1] = "str" -> IF v[2] \in {"null", "true", "false"} THEN <<"keyword", v[2]>> ELSE <<"garbage", v[2]>>
    [] v[1] = "int" -> <<"number", v[2]>>
    [] v[1] \in {"null", "bool"} -> <<"keyword", AsString(v)>>
    [] v[1] = "list" -> <<"array", _list_encode(v[2])>>
    [] OTHER -> <<"object", _dictionary_encode(v[2])>>

json_encode(v) == data_encode(data_serialize(v))
-----------------------------------------------------------------------------
(* The text that a constant of the grammar decodes to: "ptr:null",         *)
(* "bool:1", "bool:0".                                                     *)
data_decode(type, text) == IF type = "ptr" THEN Null_ ELSE Bool_(text = "1")
parser_push_const(word) ==
  CASE word = "null" -> data_decode("ptr", "null")
    [] word = "true" -> data_decode("bool", "1")
    [] OTHER -> data_decode("bool", "0")

(* Strings that are words of json become what they mean; "false" does not. *)
_str_deserialize(w) ==
  CASE w = "null" -> Null_
    [] w \in {"true", "false"} -> Bool_(TRUE)
    [] OTHER -> Str_(w)

_exception_deserialize(d) ==
  <<"exception", [code |-> IF "code" \in DOMAIN d THEN d["code"][2] ELSE 0,
                  message |-> AsString(d["message"]), throwable |-> d["throwable"]]>>
_arguments_deserialize(d) == <<"args", [args |-> d["args"][2], kwargs |-> d["kwargs"][2]]>>

\* Wrong: the name of the type would stay among the entries.
TagStays(d) == Dict_(d)

(* A dictionary that names its type becomes a value of that type; a type   *)
(* that nobody has registered is forgotten.                                *)
_dictionary_deserialize(d) ==
  LET type == IF TypeKey \in DOMAIN d THEN AsString(d[TypeKey]) ELSE "dictionary"
  IN CASE type = "exception" -> _exception_deserialize(d)
       [] type = "arguments" -> _arguments_deserialize(d)
       [] type = "name" /\ "value" \in DOMAIN d -> <<"name", AsString(d["value"])>>
       [] OTHER -> Dict_(Restrict(d, DOMAIN d \ {TypeKey}))

RECURSIVE data_deserialize(_)
_list_deserialize(items) == [i \in DOMAIN items |-> data_deserialize(items[i])]
data_deserialize(v) ==
  CASE v[1] = "str" -> _str_deserialize(v[2])
    [] v[1] = "list" -> <<"list", _list_deserialize(v[2])>>
    [] v[1] = "dict" -> _dictionary_deserialize(v[2])
    [] OTHER -> v

(* The values the actions push.  The name and the value of a pair are      *)
(* deserialized as soon as both are there; the rest when the text ends.    *)
\* parser_rollup_nvp: the name is a string again when it is a key.
parser_rollup_nvp(pair) == <<AsString(data_deserialize(Str_(pair[2]))), data_deserialize(pair[3])>>

json_parse_to_dictionary(nvps) ==
  Dict_([k \in {n[1] : n \in nvps} |-> (CHOOSE n \in nvps : n[1] = k)[2]])

RECURSIVE Parsed(_)
Parsed(t) ==
  CASE t[1] = "qstring" -> Str_(t[2])
    [] t[1] = "number" -> <<"int", t[2]>>
    [] t[1] = "keyword" -> parser_push_const(t[2])
    [] t[1] = "array" -> <<"list", [i \in DOMAIN t[2] |-> Parsed(t[2][i])]>>
    [] OTHER -> json_parse_to_dictionary({parser_rollup_nvp(<<p[1], p[2], Parsed(p[3])>>) : p \in t[2]})

RECURSIVE IsJson(_)
IsJson(t) ==
  CASE t[1] = "garbage" -> FALSE
    [] t[1] = "array" -> \A i \in DOMAIN t[2] : IsJson(t[2][i])
    [] t[1] = "object" -> \A p \in t[2] : IsJson(p[3])
    [] OTHER -> TRUE

json_parse_get_value(t) == data_deserialize(Parsed(t))
json_decode(t) == IF IsJson(t) THEN json_parse_get_value(t) ELSE <<"exception", [code |-> "ErrorSyntax", message |-> "", throwable |-> Null_]>>
-----------------------------------------------------------------------------
SerWords == PlainWords \cup {"null", "true", "false"}
Atoms == {Null_, Bool_(TRUE), Bool_(FALSE)} \cup {<<"int", i>> : i \in Ints} \cup {Str_(w) : w \in SerWords}
       \cup {<<"name", w>> : w \in PlainWords}
Over(S) ==
  {<<"list", s>> : s \in BoundedSeq(S, 2)}
  \cup UNION {{Dict_(d) : d \in [K -> S]} : K \in {K \in SUBSET Keys : Cardinality(K) <= 2}}
Thrown == {<<"exception", [code |-> 1, message |-> w, throwable |-> t]>> : w \in SerWords, t \in {Null_} \cup {Str_(v) : v \in PlainWords}}
ArgsOver(S) == {<<"args", [args |-> a, kwargs |-> k]>> : a \in BoundedSeq(S, 1), k \in UNION {[K -> S] : K \in {{}} \cup {{k} : k \in Keys}}}
ValuesRead ==
  LET flat == Atoms \cup Thrown \cup Over(Atoms) \cup ArgsOver(Atoms)
  IN flat \cup {<<"list", <<v>>>> : v \in flat} \cup {Dict_([k \in {k2} |-> v]) : v \in flat, k2 \in Keys}

SerializeInit == serValue \in ValuesRead /\ serText = NoText /\ serGot = NoText
_function_encode == serText = NoText /\ serText' = json_encode(serValue) /\ UNCHANGED <<serValue, serGot>>
_function_decode == serText # NoText /\ serGot = NoText /\ serGot' = json_decode(serText) /\ UNCHANGED <<serValue, serText>>
SerializeNext == _function_encode \/ _function_decode
-----------------------------------------------------------------------------
(* Nothing in it reads as a word of json, and nothing is written without   *)
(* its quotes.                                                             *)
RECURSIVE Faithful(_)
Faithful(v) ==
  CASE v[1] = "str" -> v[2] \in PlainWords
    [] v[1] \in {"exception", "name"} -> FALSE
    [] v[1] = "list" -> \A i \in DOMAIN v[2] : Faithful(v[2][i])
    [] v[1] = "dict" -> \A k \in DOMAIN v[2] : k # "false" /\ Faithful(v[2][k])
    [] v[1] = "args" -> /\ \A i \in DOMAIN v[2].args : Faithful(v[2].args[i])
                        /\ \A k \in DOMAIN v[2].kwargs : k # "false" /\ Faithful(v[2].kwargs[k])
    [] OTHER -> TRUE

(* json.c:51 -- what is encoded is decoded again, whatever is nested in    *)
(* what, with the types of all values, unless a string in it is one of     *)
(* the words of json, a key is "false", or something in it is written      *)
(* without quotes: then the text is refused, or other words come back.     *)
TextGivesBack ==
  serGot # NoText => (Faithful(serValue) => serGot = serValue)
=============================================================================
