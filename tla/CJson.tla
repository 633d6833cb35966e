------------------------------- MODULE CJson -------------------------------
(***************************************************************************)
(* The part of daemon/cJSON.c the daemon uses: the parser, the lookup of   *)
(* members and the two edits of a tree that merging policies needs.        *)
(*                                                                         *)
(* A text is a sequence of tokens, its end one more token "end" (the NUL,  *)
(* which the parser takes for white space it cannot pass).  The string of  *)
(* a token is a sequence of words, so that prefixes, suffixes and parts of *)
(* paths and names are what they are in the code.  A cJSON item is a       *)
(* record; the list of its children, linked in the code, is a sequence.    *)
(***************************************************************************)
EXTENDS Integers, Sequences, SequencesExt

CONSTANTS
  NestingLimit,   \* CJSON_NESTING_LIMIT
  LowerCase       \* words with capitals, and what tolower makes of them

ASSUME JsonAssumption == NestingLimit \in Nat \ {0}

\* k: which token; s: the words of a string; n: the value of a number.
TokenKinds == {"{", "}", "[", "]", ",", ":", "string", "number",
               "true", "false", "null", "end"}
Token(k)   == [k |-> k, s |-> <<>>, n |-> 0]
StrToken(s) == [k |-> "string", s |-> s, n |-> 0]
NumToken(n) == [k |-> "number", s |-> <<>>, n |-> n]

\* The text of a document, bottom up.
Str(s)   == <<StrToken(s)>>
Num(n)   == <<NumToken(n)>>
True     == <<Token("true")>>
JoinComma(texts) ==
  LET join[i \in 0..Len(texts)] ==
        IF i = 0 THEN <<>>
        ELSE IF i = 1 THEN texts[1]
        ELSE join[i - 1] \o <<Token(",")>> \o texts[i]
  IN join[Len(texts)]
Arr(elements) == <<Token("[")>> \o JoinComma(elements) \o <<Token("]")>>
Obj(members)  ==
  <<Token("{")>>
  \o JoinComma([i \in DOMAIN members |->
       <<StrToken(<<members[i][1]>>), Token(":")>> \o members[i][2]])
  \o <<Token("}")>>

-----------------------------------------------------------------------------
\* Items.  NoName is the NULL string of array elements and of the root, unlike
\* the empty name <<>>: no word of a token is empty.  NULL is the item that a
\* lookup misses.
NoName   == <<"">>
New_Item == [type |-> "Invalid", string |-> NoName, valuestring |-> <<>>,
             valuedouble |-> 0, child |-> <<>>]
NULL     == [New_Item EXCEPT !.type = "NULL pointer"]

IsString(item) == item.type = "String"
IsNumber(item) == item.type = "Number"
IsArray(item)  == item.type = "Array"
IsObject(item) == item.type = "Object"
IsTrue(item)   == item.type = "True"
IsBool(item)   == item.type \in {"True", "False"}

ToLower(word) == IF word \in DOMAIN LowerCase THEN LowerCase[word] ELSE word
SameButCase(s, t) ==
  /\ NoName \notin {s, t} /\ Len(s) = Len(t)
  /\ \A i \in 1..Len(s) : ToLower(s[i]) = ToLower(t[i])

\* The first item of a list that passes a test.
FirstOf(list, Test(_)) ==
  LET i == SelectInSeq(list, Test) IN IF i = 0 THEN NULL ELSE list[i]
Named(item) == IF item.string = NoName THEN NULL ELSE item

\* get_object_item, case_sensitive: a child without a name ends the search.
GetObjectItemCaseSensitive(object, key) ==
  Named(FirstOf(object.child, LAMBDA c : c.string \in {NoName, key}))

\* get_object_item, case-insensitive: a child without a name is passed over.
\* IndexOf is the place of what it finds, 0 if it finds nothing.
IndexOf(object, key) ==
  SelectInSeq(object.child, LAMBDA c : SameButCase(c.string, key))
GetObjectItem(object, key) ==
  FirstOf(object.child, LAMBDA c : SameButCase(c.string, key))

AddItemToArray(array, item) ==
  IF NULL \in {array, item} THEN array ELSE [array EXCEPT !.child = Append(@, item)]

AddItemToObject(object, key, item) ==
  AddItemToArray(object, IF NoName = key THEN NULL ELSE [item EXCEPT !.string = key])

\* Slip: what follows the item is not linked to the replacement.
ReplaceItemInObjectSlip(object, key, replacement) ==
  IF object = NULL \/ IndexOf(object, key) = 0 THEN object
  ELSE [object EXCEPT !.child =
          Append(SubSeq(@, 1, IndexOf(object, key) - 1), [replacement EXCEPT !.string = key])]

\* The replacement takes the place of the item, but the spelling of key.
ReplaceItemInObject(object, key, replacement) ==
  IF object = NULL \/ IndexOf(object, key) = 0 THEN object
  ELSE [object EXCEPT !.child[IndexOf(object, key)] = [replacement EXCEPT !.string = key]]

CreateObject    == [New_Item EXCEPT !.type = "Object"]
CreateNumber(n) == [New_Item EXCEPT !.type = "Number", !.valuedouble = n]
AddNumberToObject(object, key, n) == AddItemToObject(object, <<key>>, CreateNumber(n))

\* cJSON_PrintUnformatted, for an object without arrays and objects in it: the
\* daemon prints no other.
PrintValue(item) ==
  CASE item.type = "Number" -> Num(item.valuedouble)
    [] item.type = "String" -> Str(item.valuestring)
    [] item.type = "True"   -> True
    [] item.type = "False"  -> <<Token("false")>>
    [] item.type = "NULL"   -> <<Token("null")>>
PrintUnformatted(object) ==
  Obj([i \in DOMAIN object.child |->
         <<object.child[i].string[1], PrintValue(object.child[i])>>])

-----------------------------------------------------------------------------
\* Parse results: where the parser stopped and what it built.  An item comes
\* as a sequence of one, a list of children as a sequence of all.
Failed         == [ok |-> FALSE, at |-> 0, items |-> <<>>]
Built(at, items) == [ok |-> TRUE, at |-> at, items |-> items]

ParseString(tok) == [New_Item EXCEPT !.type = "String", !.valuestring = tok.s]
ParseNumber(tok) == [New_Item EXCEPT !.type = "Number", !.valuedouble = tok.n]

\* Slip: the end of the text ends a list too.
EndsListSlip(tok, close) == tok.k \in {close, "end"}
\* A list ends with its bracket and nothing else.
EndsList(tok, close) == tok.k = close

At(text, i)   == IF i <= Len(text) THEN text[i] ELSE Token("end")
Leaf(i, item) == Built(i + 1, <<item>>)

\* The parser is a recursive function of its place: what to parse - a value, or
\* what is left of the elements of an array or of the members of an object -,
\* the index of the next token and the depth.  The operators below are its
\* cases and get it as "parse".
Place(what, i, d) == [what |-> what, i |-> i, d |-> d]
Places(text) == [what : {"value", "elements", "members"},
                 i : 1..(Len(text) + 1), d : 0..NestingLimit]

\* The bracket that opens a list at i, and the list.
OpenList(text, parse, i, d, type, list, close) ==
  IF d >= NestingLimit THEN Failed
  ELSE IF At(text, i + 1).k = close
  THEN Built(i + 2, <<[New_Item EXCEPT !.type = type]>>)
  ELSE LET r == parse[Place(list, i + 1, d + 1)] IN
       IF r.ok THEN Built(r.at, <<[New_Item EXCEPT !.type = type, !.child = r.items]>>)
       ELSE Failed

\* After an item of a list: its end, or a comma and more of it.
RestOfList(text, parse, item, j, d, list, close) ==
  IF EndsList(At(text, j), close) THEN Built(j + 1, <<item>>)
  ELSE IF At(text, j).k # "," THEN Failed
  ELSE LET r == parse[Place(list, j + 1, d)] IN
       IF r.ok THEN Built(r.at, <<item>> \o r.items) ELSE Failed

parse_value(text, parse, i, d) ==
  LET k == At(text, i).k IN
  CASE k = "null"   -> Leaf(i, [New_Item EXCEPT !.type = "NULL"])
    [] k = "false"  -> Leaf(i, [New_Item EXCEPT !.type = "False"])
    [] k = "true"   -> Leaf(i, [New_Item EXCEPT !.type = "True"])
    [] k = "string" -> Leaf(i, ParseString(At(text, i)))
    [] k = "number" -> Leaf(i, ParseNumber(At(text, i)))
    [] k = "["      -> OpenList(text, parse, i, d, "Array", "elements", "]")
    [] k = "{"      -> OpenList(text, parse, i, d, "Object", "members", "}")
    [] OTHER        -> Failed

parse_array(text, parse, i, d) ==
  LET r == parse[Place("value", i, d)] IN
  IF r.ok THEN RestOfList(text, parse, r.items[1], r.at, d, "elements", "]") ELSE Failed

parse_object(text, parse, i, d) ==
  LET label == At(text, i)
      value == parse[Place("value", i + 2, d)]
  IN IF label.k = "string" /\ At(text, i + 1).k = ":" /\ value.ok
     THEN RestOfList(text, parse, [value.items[1] EXCEPT !.string = label.s],
                     value.at, d, "members", "}")
     ELSE Failed

parse_at(text, parse, p) ==
  CASE p.what = "value"    -> parse_value(text, parse, p.i, p.d)
    [] p.what = "elements" -> parse_array(text, parse, p.i, p.d)
    [] p.what = "members"  -> parse_object(text, parse, p.i, p.d)

Parser(text) ==
  LET parse[p \in Places(text)] == parse_at(text, parse, p)
  IN parse[Place("value", 1, 0)]

\* cJSON_Parse: NULL if there is no value; text after the value is ignored.
Parse(text) == LET r == Parser(text) IN IF r.ok THEN r.items[1] ELSE NULL

=============================================================================
