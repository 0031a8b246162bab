---------------------------- MODULE JsonDocument ----------------------------
(***************************************************************************)
(* JSON values, as far as the code asks: a value is a record with one      *)
(* field, whose name is the type; an object is a function from its keys.   *)
(* File systems hold documents as the result of loadJsonFile.              *)
(***************************************************************************)
EXTENDS Integers, Sequences, FiniteSets

Text(s) == [string |-> s]
Whole(n) == [integer |-> n]
Real == [real |-> TRUE]         \* a number that is no integer
Null == [null |-> TRUE]
Array(q) == [array |-> q]
Object(f) == [object |-> f]

(* loadJsonFile: the document or the code of the error.                    *)
Loaded(v) == [loaded |-> v]
Unreadable == [error |-> "E_FILE_READ"]
Unparsable == [error |-> "E_JSON_PARSE"]
IsLoaded(r) == "loaded" \in DOMAIN r

IsObject(v) == "object" \in DOMAIN v
Has(o, k) == IsObject(o) /\ k \in DOMAIN o.object
HasType(o, k, types) == Has(o, k) /\ DOMAIN o.object[k] \subseteq types
Get(o, k) == o.object[k]

(* The out parameters of the extractors keep these values on failure.      *)
TextOf(o, k) == IF HasType(o, k, {"string"}) THEN Get(o, k).string ELSE ""
ItemsOf(o, k) == IF HasType(o, k, {"array"}) THEN Get(o, k).array ELSE <<>>

IsSequence(s) == Len(s) \in Nat /\ s = [i \in 1..Len(s) |-> s[i]]

(* The keys of an allowlist that are there (copyIfPresent for each of      *)
(* them); a value nothing was copied to stays null.                        *)
Kept(o, allowed) ==
    [k \in (IF IsObject(o) THEN DOMAIN o.object ELSE {}) \cap allowed |-> o.object[k]]
Copied(f) == IF DOMAIN f = {} THEN Null ELSE Object(f)
Project(o, allowed) == Copied(Kept(o, allowed))

----------------------------------------------------------------------------
(* Every value inside a value, itself included, down to six levels, which  *)
(* is as deep as the documents go.                                         *)
IsContainer(v) == DOMAIN v \subseteq {"object", "array"}
Parts(v) ==
    IF IsObject(v) THEN {v.object[k] : k \in DOMAIN v.object}
    ELSE IF DOMAIN v = {"array"} THEN {v.array[i] : i \in DOMAIN v.array} ELSE {}

Values(v) ==
    LET Down(S) == S \cup UNION {Parts(u) : u \in S}
    IN  Down(Down(Down(Down(Down(Down({v}))))))

(* containsForbiddenKey visits every key at every level.                   *)
KeysWithin(v) == UNION {DOMAIN u.object : u \in {w \in Values(v) : IsObject(w)}}
============================================================================
