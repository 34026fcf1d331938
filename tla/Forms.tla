-------------------------------- MODULE Forms --------------------------------
(***************************************************************************)
(* How the library turns JSON objects into its own and back.  A from_json  *)
(* is a sequence of fields, read in the order of its statements until one  *)
(* throws; a to_json is a sequence of fields that are written.  Values are *)
(* opaque: a field tells only of which kind of JSON value it is, what      *)
(* becomes of its member if the key is absent or null, and that any other  *)
(* kind of value throws.                                                   *)
(***************************************************************************)
EXTENDS Integers, SequencesExt

\* A JSON value: its kind, and which value it is, a tuple that is empty for a
\* default.  The kind "gone" stands for a key that the object does not have, "odd"
\* for a kind that no field takes, "fitting" for the kind that a field expects.
Default == <<>>
Value(kind, v) == [kind |-> kind, v |-> v]
Gone == Value("gone", Default)
Null == Value("null", Default)
Odd  == Value("odd", Default)

Field(kind, key, gone, null) ==
    [member |-> key, key |-> key, kind |-> kind, gone |-> gone, null |-> null]

\* A field whose key fills a member of another name.
Into(member, field) == [field EXCEPT !.member = member]

\* Fields of one sort with several keys.
All(F(_, _), kind, keys) == [i \in DOMAIN keys |-> F(kind, keys[i])]

\* json[key].get<T>(), where the key has to be there ...
Must(kind, key)     == Field(kind, key, "throws", "throws")
\* ... where a null is skipped ...
MustKeep(kind, key) == Field(kind, key, "throws", "keeps")
\* ... and where a null becomes the default: snowflake, permission and
\* usually_empty_vector read so, ranges over a list, and what tests is_null().
MustNull(kind, key) == Field(kind, key, "throws", "default")
\* json.value(key, default) of a type that takes no null ...
May(kind, key)      == Field(kind, key, "default", "throws")
\* ... and of one that does (std::optional, snowflake, permission).
MayNull(kind, key)  == Field(kind, key, "default", "default")
\* A key that is looked for: contains() or find().
IfThere(kind, key)  == Field(kind, key, "keeps", "throws")
\* ... or whose null and absence are both skipped.
Keep(kind, key)     == Field(kind, key, "keeps", "keeps")
\* A field that is read, and nothing is done with it (timestamps).
Present(key)        == Into("nothing", MustNull("any", key))

-----------------------------------------------------------------------------
\* What a field does with a value.
Outcome(field, value) ==
    CASE value.kind = "gone" -> field.gone
      [] value.kind = "null" -> field.null
      [] OTHER -> IF value.kind \in {field.kind, "fitting"} \/ field.kind = "any"
                  THEN "takes" ELSE "throws"

\* A from_json on an object that is there, of JSON whose keys have the values
\* json[key]: the fields before the first that throws fill their members, a
\* later one over an earlier one.
ReadInto(fields, obj, json) ==
    LET outcome(i) == Outcome(fields[i], json[fields[i].key])
        bad        == {i \in DOMAIN fields : outcome(i) = "throws"}
        read       == IF bad = {} THEN DOMAIN fields ELSE 1 .. Min(bad) - 1
        fills(m)   == {i \in read : fields[i].member = m /\ outcome(i) # "keeps"}
    IN  [threw |-> bad # {},
         obj |-> [m \in DOMAIN obj |->
                    IF fills(m) = {} THEN obj[m] ELSE json[fields[Max(fills(m))].key].v]]

Keys(fields)    == {fields[i].key : i \in DOMAIN fields}
Members(fields) == {fields[i].member : i \in DOMAIN fields}

\* A field that is written always, and one that is written if it has a value.
Writes(kind, key)    == [member |-> key, key |-> key, kind |-> kind, always |-> TRUE]
WritesSet(kind, key) == [member |-> key, key |-> key, kind |-> kind, always |-> FALSE]

\* A member that holds an object of which nothing is set.
Hollow == <<"hollow">>

\* A to_json: the value of a key, Gone if it is not written.  JSON is null until
\* a key of it is assigned, so a hollow object is written as null ...
WrittenAs(fields, obj, k) ==
    LET of == {i \in DOMAIN fields : fields[i].key = k
                 /\ (fields[i].always \/ obj[fields[i].member] # Default)}
    IN  IF of = {} THEN Gone
        ELSE LET f == fields[CHOOSE i \in of : TRUE]
             IN  IF f.kind = "object" /\ obj[f.member] = Hollow THEN Null
                 ELSE Value(f.kind, obj[f.member])

\* ... as is the whole object if nothing of it is written.
StaysNull(fields, obj) == \A k \in Keys(fields) : WrittenAs(fields, obj, k) = Gone

\* A from_json on null instead of an object: it finds no key that it looks for,
\* and throws at any other.
ThrowsOnNull(fields) == \E i \in DOMAIN fields : fields[i].gone # "keeps"

=============================================================================
