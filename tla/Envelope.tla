------------------------------- MODULE Envelope -------------------------------
(***************************************************************************)
(* How commands and events are wrapped for kIPC: src/src/control.rs, with  *)
(* parse_inbound of src/src/krpc.rs, and what kIPC and kOS make of it.     *)
(* A JSON value is a record whose one field names its type; get on a       *)
(* missing key is Null, which no as_... accepts either.                    *)
(***************************************************************************)
EXTENDS Naturals, SequencesExt

Num(n) == [num |-> n]
Str(s) == [str |-> s]
Bool(b) == [bool |-> b]
Obj(fields) == [obj |-> fields]
Arr(items) == [arr |-> items]
Null == [null |-> "null"]

Is(x, type) == DOMAIN x = {type}
Get(x, key) == IF Is(x, "obj") /\ key \in DOMAIN x.obj THEN x.obj[key] ELSE Null
StrOr(x, default) == IF Is(x, "str") THEN x.str ELSE default
BoolOr(x, default) == IF Is(x, "bool") THEN x.bool ELSE default

-----------------------------------------------------------------------------
encode_dict_value(payload) ==
  Obj([type |-> Str("dict"), data |-> payload, keys |-> Arr(<<>>), values |-> Arr(<<>>)])

encode_list(items) == Obj([type |-> Str("list"), data |-> items])

(* The object inside, or Null for an error.                                *)
Paired(keys, values) ==
  [k \in {keys[i].str : i \in DOMAIN keys} |-> values[Max({i \in DOMAIN keys : keys[i].str = k})]]

(* An event in keys and values is taken for one without fields.            *)
decode_data(env) == IF Is(Get(env, "data"), "obj") THEN Get(env, "data") ELSE Null

decode_dict(env) ==
  LET data == Get(env, "data")  keys == Get(env, "keys")  values == Get(env, "values") IN
  IF Get(env, "type") # Str("dict") THEN Null
  ELSE IF Is(data, "obj") /\ DOMAIN data.obj # {} THEN data
  ELSE IF /\ Is(keys, "arr") /\ Is(values, "arr") /\ Len(keys.arr) = Len(values.arr)
          /\ \A i \in DOMAIN keys.arr : Is(keys.arr[i], "str")
       THEN Obj(Paired(keys.arr, values.arr))
       ELSE Null

-----------------------------------------------------------------------------
(* What kIPC hands to the kOS program: a Lexicon in [lex], a List in       *)
(* [list], or Null when it rejects the message.  It takes primitives as    *)
(* they are, and containers only in envelopes.                             *)
Primitive(x) == Is(x, "num") \/ Is(x, "str") \/ Is(x, "bool") \/ Is(x, "null")
Enveloped(x) == Get(x, "type") = Str("dict") /\ DOMAIN x.obj = {"type", "data", "keys", "values"}
Flat(x) ==
  \/ Primitive(x)
  \/ Get(x, "type") = Str("list") /\ \A i \in DOMAIN x.obj.data.arr : Primitive(x.obj.data.arr[i])
  \/ Enveloped(x) /\ \A k \in DOMAIN x.obj.data.obj : Primitive(x.obj.data.obj[k])
Unwrapped(x) ==
  IF Primitive(x) THEN x
  ELSE IF Enveloped(x) THEN [lex |-> x.obj.data.obj] ELSE [list |-> x.obj.data.arr]
Deserialized(env) ==
  IF Enveloped(env) /\ \A k \in DOMAIN env.obj.data.obj : Flat(env.obj.data.obj[k])
  THEN [lex |-> [k \in DOMAIN env.obj.data.obj |-> Unwrapped(env.obj.data.obj[k])]]
  ELSE Null

(* The other way round, a Lexicon in either shape the encoder has been     *)
(* seen to give it.                                                        *)
Serialized(lex) ==
  LET names == SetToSeq(DOMAIN lex) IN
  {encode_dict_value(Obj(lex)),
   Obj([type |-> Str("dict"), data |-> Obj(<<>>),
        keys |-> Arr([i \in DOMAIN names |-> Str(names[i])]),
        values |-> Arr([i \in DOMAIN names |-> lex[names[i]]])])}

-----------------------------------------------------------------------------
(* parse_inbound; "" stands for None where a string may be missing.        *)
Dropped == [kind |-> "dropped"]

parse_inbound(raw) ==
  LET payload == decode_dict(raw)
      field(key) == StrOr(Get(payload, key), "")
      has(key) == Is(Get(payload, key), "str") IN
  CASE field("kind") = "command_ack" /\ has("op") -> [kind |-> "command_ack", op |-> field("op")]
    [] field("kind") = "script_done" /\ has("path") ->
         [kind |-> "script_done", path |-> field("path"), boot |-> field("boot"),
          ok |-> BoolOr(Get(payload, "ok"), TRUE), reason |-> field("reason")]
    [] field("kind") = "heartbeat" /\ has("boot") ->
         [kind |-> "heartbeat", boot |-> field("boot"), path |-> field("path"),
          active |-> BoolOr(Get(payload, "active"), FALSE)]
    [] OTHER -> Dropped
===============================================================================
