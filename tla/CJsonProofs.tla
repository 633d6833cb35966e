---------------------------- MODULE CJsonProofs ----------------------------
(***************************************************************************)
(* Proofs about cJSON, for texts of any length and any nesting limit: what *)
(* a lookup finds, what the parser makes of a part of a document or of one *)
(* with something behind it, and of an object of numbers that is printed.  *)
(***************************************************************************)
EXTENDS CJson, SequenceTheorems, WellFoundedInduction, TLAPS

-----------------------------------------------------------------------------
(* Numbers.                                                                 *)

\* A set of natural numbers that is not empty has a least number.
LEMMA Least ==
  ASSUME NEW S \in SUBSET Nat, S # {}
  PROVE  \E n \in S : \A m \in S : n <= m
<1> DEFINE R == OpToRel(<, Nat)
<1>1. IsWellFoundedOn(R, Nat)
  BY NatLessThanWellFounded
<1>2. \A x, y \in Nat : x < y => <<x, y>> \in R
  BY DEF OpToRel
<1> HIDE DEF R
<1>3. PICK n \in S : \A m \in S : ~(<<m, n>> \in R)
  BY <1>1, WFMin
<1>4. ASSUME NEW m \in S PROVE n <= m
  <2>1. n \in Nat /\ m \in Nat /\ ~(m < n)
    BY <1>2, <1>3
  <2>2. QED BY <2>1
<1>5. QED BY <1>4

\* Induction up to N over a set.
LEMMA UpTo ==
  ASSUME NEW N \in Nat, NEW S, 0 \in S, \A n \in 1..N : n - 1 \in S => n \in S
  PROVE  \A n \in 0..N : n \in S
<1> DEFINE Bad == {n \in 0..N : n \notin S}
<1> SUFFICES ASSUME Bad # {} PROVE FALSE
  OBVIOUS
<1>1. PICK n \in Bad : \A m \in Bad : n <= m
  <2>1. Bad \in SUBSET Nat
    OBVIOUS
  <2> HIDE DEF Bad
  <2>2. QED BY <2>1, Least
<1>2. n # 0 /\ n - 1 \in 0..N /\ n \in 1..N /\ ~(n <= n - 1)
  BY <1>1
<1>3. n - 1 \in S
  BY <1>1, <1>2
<1>4. QED BY <1>1, <1>2, <1>3

\* The least number is Min.
LEMMA MinIs ==
  ASSUME NEW S \in SUBSET Nat, S # {}
  PROVE  Min(S) \in S /\ \A n \in S : Min(S) <= n
<1>1. \E n \in S : \A m \in S : n <= m
  BY Least
<1>2. QED BY <1>1 DEF Min

-----------------------------------------------------------------------------
(* Lookups.                                                                 *)

\* The first child that has the key, with none without a name in front of it.
FirstAt(object, key, i) ==
  /\ i \in 1..Len(object.child) /\ object.child[i].string = <<key>>
  /\ \A j \in 1..(i - 1) : object.child[j].string \notin {NoName, <<key>>}

\* The lookup finds it.
LEMMA ItemAt ==
  ASSUME NEW object, Len(object.child) \in Nat, NEW key, <<key>> # NoName,
         NEW i \in Nat, FirstAt(object, key, i)
  PROVE  GetObjectItemCaseSensitive(object, <<key>>) = object.child[i]
<1> DEFINE I == {j \in 1..Len(object.child) : object.child[j].string \in {NoName, <<key>>}}
<1>1. i \in I /\ I \in SUBSET Nat
  <2>1. i \in 1..Len(object.child) /\ object.child[i].string \in {NoName, <<key>>}
    BY DEF FirstAt
  <2>2. QED BY <2>1
<1>2. Min(I) \in I /\ Min(I) <= i
  BY <1>1, MinIs
<1>3. Min(I) = i
  <2>1. ~(Min(I) \in 1..(i - 1))
    BY <1>2 DEF FirstAt
  <2>2. Min(I) \in Nat /\ i \in Nat /\ Min(I) >= 1
    BY <1>1, <1>2
  <2>3. QED BY <1>2, <2>1, <2>2
<1>4. object.child[i].string # NoName
  BY DEF FirstAt
<1>5. i # 0 /\ I # {}
  BY <1>1
<1>6. SelectInSeq(object.child, LAMBDA c : c.string \in {NoName, <<key>>}) = i
  BY <1>3, <1>5 DEF SelectInSeq
<1>7. QED BY <1>4, <1>5, <1>6 DEF GetObjectItemCaseSensitive, FirstOf, Named

\* If the lookup finds something, that is it.
LEMMA ItemSome ==
  ASSUME NEW object, Len(object.child) \in Nat, NEW key, GetObjectItemCaseSensitive(object, <<key>>) # NULL
  PROVE  \E i \in 1..Len(object.child) : FirstAt(object, key, i) /\ GetObjectItemCaseSensitive(object, <<key>>) = object.child[i]
<1> DEFINE I == {j \in 1..Len(object.child) : object.child[j].string \in {NoName, <<key>>}}
           i == SelectInSeq(object.child, LAMBDA c : c.string \in {NoName, <<key>>})
<1>1. i = IF I # {} THEN Min(I) ELSE 0
  BY DEF SelectInSeq
<1>2. GetObjectItemCaseSensitive(object, <<key>>) = Named(IF i = 0 THEN NULL ELSE object.child[i])
  BY DEF GetObjectItemCaseSensitive, FirstOf
<1> HIDE DEF i
<1>3. i # 0
  BY <1>2 DEF Named, NULL, New_Item, NoName
<1>4. i \in I /\ \A j \in I : i <= j
  <2>1. I # {} /\ I \in SUBSET Nat
    BY <1>1, <1>3
  <2>2. QED BY <1>1, <2>1, MinIs
<1>5. GetObjectItemCaseSensitive(object, <<key>>) = object.child[i] /\ object.child[i].string # NoName
  BY <1>2, <1>3 DEF Named
<1>6. FirstAt(object, key, i)
  <2>1. object.child[i].string = <<key>> /\ i \in 1..Len(object.child)
    BY <1>4, <1>5
  <2>2. ASSUME NEW j \in 1..(i - 1) PROVE object.child[j].string \notin {NoName, <<key>>}
    <3>1. j \in 1..Len(object.child) /\ ~(i <= j)
      BY <2>1
    <3>2. QED BY <1>4, <3>1
  <2>3. QED BY <2>1, <2>2 DEF FirstAt
<1>7. QED BY <1>5, <1>6 DEF FirstAt

\* The lookup that ignores case finds the first.
LEMMA IndexOfFinds ==
  ASSUME NEW object, Len(object.child) \in Nat, NEW key
  PROVE  LET i == IndexOf(object, key) IN
         /\ i \in 0..Len(object.child)
         /\ GetObjectItem(object, key) = IF i = 0 THEN NULL ELSE object.child[i]
         /\ i # 0 => SameButCase(object.child[i].string, key)
         /\ \A j \in 1..Len(object.child) :
              SameButCase(object.child[j].string, key) => i # 0 /\ i <= j
<1> DEFINE I == {j \in 1..Len(object.child) : SameButCase(object.child[j].string, key)}
           i == IndexOf(object, key)
<1>1. i = IF I # {} THEN Min(I) ELSE 0
  BY DEF IndexOf, SelectInSeq
<1>2. GetObjectItem(object, key) = IF i = 0 THEN NULL ELSE object.child[i]
  BY DEF GetObjectItem, FirstOf, IndexOf
<1> HIDE DEF i
<1>3. CASE I = {}
  BY <1>1, <1>2, <1>3 DEF i
<1>4. CASE I # {}
  <2>1. I \in SUBSET Nat /\ i = Min(I)
    BY <1>1, <1>4
  <2>2. i \in I /\ \A j \in I : i <= j
    BY <1>4, <2>1, MinIs
  <2>3. QED BY <1>2, <2>2 DEF i
<1>5. QED BY <1>3, <1>4

-----------------------------------------------------------------------------
(***************************************************************************)
(* The parser.  It looks at no token behind the one where it stops, so a   *)
(* document followed by the rest of another parses as before, and a        *)
(* document cut short does not parse at all.  The parser calls itself      *)
(* behind its place or, from a list to its first value, at the same place: *)
(* a rank that grows with every call and is bounded by the length of the   *)
(* text.  The inductions are over that rank, by the least number for which *)
(* a statement fails.                                                      *)
(***************************************************************************)

\* The first value of a list is parsed at the place of the list, and after it.
Rank(p) == 2 * p.i + (IF p.what = "value" THEN 1 ELSE 0)

\* Where a parser that succeeds stops.
Advances(text, parse, p) == parse[p].ok => parse[p].at \in (p.i + 1)..(Len(text) + 1)

\* Two functions agree on what they parse behind i.
AgreeBehind(text, g, h, i) ==
  \A q \in Places(text) : q.i > i => g[q] = h[q] /\ Advances(text, g, q)

\* The end of the text is no token the parser passes.
LEMMA AtInside ==
  ASSUME NEW text, Len(text) \in Nat, NEW i \in Nat \ {0}, At(text, i).k # "end"
  PROVE  i <= Len(text)
  BY DEF At, Token

\* A list and its opening bracket depend on what is parsed behind the bracket
\* only, and if they parse the parser has moved on, within the text.
LEMMA OpenListLocal ==
  ASSUME NEW text, Len(text) \in Nat, NEW g, NEW h,
         NEW i \in 1..(Len(text) + 1), NEW d \in 0..NestingLimit, i <= Len(text),
         NEW type, NEW list \in {"elements", "members"}, NEW close, close # "end",
         AgreeBehind(text, g, h, i)
  PROVE  LET r == OpenList(text, g, i, d, type, list, close) IN
         /\ OpenList(text, h, i, d, type, list, close) = r
         /\ r.ok => r.at \in (i + 1)..(Len(text) + 1)
<1> DEFINE q == Place(list, i + 1, d + 1)
           r == OpenList(text, g, i, d, type, list, close)
<1>1. CASE d >= NestingLimit
  BY <1>1 DEF OpenList, Failed
<1>2. CASE ~(d >= NestingLimit) /\ At(text, i + 1).k = close
  <2>1. i + 1 <= Len(text)
    BY <1>2, AtInside
  <2>2. r = Built(i + 2, <<[New_Item EXCEPT !.type = type]>>) /\ OpenList(text, h, i, d, type, list, close) = r
    BY <1>2 DEF OpenList
  <2>3. QED BY <2>1, <2>2 DEF Built
<1>3. CASE ~(d >= NestingLimit) /\ At(text, i + 1).k # close
  <2>1. q \in Places(text) /\ q.i = i + 1
    <3>1. list \in {"value", "elements", "members"} /\ i + 1 \in 1..(Len(text) + 1) /\ d + 1 \in 0..NestingLimit
      BY <1>3, JsonAssumption
    <3>2. QED BY <3>1 DEF Place, Places
  <2>2. g[q] = h[q] /\ Advances(text, g, q)
    BY <2>1 DEF AgreeBehind
  <2>3. r = IF g[q].ok THEN Built(g[q].at, <<[New_Item EXCEPT !.type = type, !.child = g[q].items]>>) ELSE Failed
    BY <1>3 DEF OpenList
  <2>4. OpenList(text, h, i, d, type, list, close) = r
    BY <1>3, <2>2 DEF OpenList
  <2>5. r.ok => g[q].ok /\ r.at = g[q].at
    BY <2>3 DEF Built, Failed
  <2>6. QED BY <2>1, <2>2, <2>4, <2>5 DEF Advances
<1>4. QED BY <1>1, <1>2, <1>3

\* So does what follows an item of a list, on what is parsed behind it.
LEMMA RestOfListLocal ==
  ASSUME NEW text, Len(text) \in Nat, NEW g, NEW h, NEW item,
         NEW j \in 1..(Len(text) + 1), NEW i \in 1..(Len(text) + 1), i < j, NEW d \in 0..NestingLimit,
         NEW list \in {"elements", "members"}, NEW close, close # "end",
         AgreeBehind(text, g, h, i)
  PROVE  LET r == RestOfList(text, g, item, j, d, list, close) IN
         /\ RestOfList(text, h, item, j, d, list, close) = r
         /\ r.ok => r.at \in (j + 1)..(Len(text) + 1)
<1> DEFINE q == Place(list, j + 1, d)
           r == RestOfList(text, g, item, j, d, list, close)
<1>1. CASE EndsList(At(text, j), close)
  <2>1. j <= Len(text)
    BY <1>1, AtInside DEF EndsList
  <2>2. r = Built(j + 1, <<item>>) /\ RestOfList(text, h, item, j, d, list, close) = r
    BY <1>1 DEF RestOfList
  <2>3. QED BY <2>1, <2>2 DEF Built
<1>2. CASE ~EndsList(At(text, j), close) /\ At(text, j).k # ","
  BY <1>2 DEF RestOfList, Failed
<1>3. CASE ~EndsList(At(text, j), close) /\ At(text, j).k = ","
  <2>1. j <= Len(text)
    <3>1. At(text, j).k # "end"
      BY <1>3
    <3>2. j \in Nat \ {0}
      OBVIOUS
    <3>3. QED BY <3>1, <3>2, AtInside
  <2>2. q \in Places(text) /\ q.i = j + 1
    <3>1. list \in {"value", "elements", "members"} /\ j + 1 \in 1..(Len(text) + 1)
      BY <2>1
    <3>2. QED BY <3>1 DEF Place, Places
  <2>3. g[q] = h[q] /\ Advances(text, g, q)
    <3>1. q.i > i
      BY <2>2
    <3>2. QED BY <2>2, <3>1 DEF AgreeBehind
  <2>4. r = IF g[q].ok THEN Built(g[q].at, <<item>> \o g[q].items) ELSE Failed
    BY <1>3 DEF RestOfList
  <2>5. RestOfList(text, h, item, j, d, list, close) = r
    BY <1>3, <2>3 DEF RestOfList
  <2>6. r.ok => g[q].ok /\ r.at = g[q].at
    BY <2>4 DEF Built, Failed
  <2>7. QED BY <2>2, <2>3, <2>5, <2>6 DEF Advances
<1>4. QED BY <1>1, <1>2, <1>3

\* A value depends on its token and what is parsed behind it.
LEMMA ValueLocal ==
  ASSUME NEW text, Len(text) \in Nat, NEW g, NEW h,
         NEW i \in 1..(Len(text) + 1), NEW d \in 0..NestingLimit, AgreeBehind(text, g, h, i)
  PROVE  LET r == parse_value(text, g, i, d) IN
         /\ parse_value(text, h, i, d) = r
         /\ r.ok => r.at \in (i + 1)..(Len(text) + 1)
<1> DEFINE k == At(text, i).k
           r == parse_value(text, g, i, d)
<1>1. CASE k \in {"null", "false", "true", "string", "number"}
  <2>1. i <= Len(text)
    <3>1. k # "end"
      BY <1>1
    <3>2. QED BY <3>1, AtInside
  <2>2. \E item : r = Leaf(i, item) /\ parse_value(text, h, i, d) = r
    BY <1>1 DEF parse_value
  <2>3. QED BY <2>1, <2>2 DEF Leaf, Built
<1>2. CASE k \in {"[", "{"}
  <2>1. i <= Len(text)
    <3>1. k # "end"
      BY <1>2
    <3>2. QED BY <3>1, AtInside
  <2>2. CASE k = "["
    <3>1. /\ r = OpenList(text, g, i, d, "Array", "elements", "]")
          /\ parse_value(text, h, i, d) = OpenList(text, h, i, d, "Array", "elements", "]")
      BY <2>2 DEF parse_value
    <3>2. "elements" \in {"elements", "members"} /\ "]" # "end"
      OBVIOUS
    <3> HIDE DEF k, r
    <3>3. LET o == OpenList(text, g, i, d, "Array", "elements", "]") IN
          /\ OpenList(text, h, i, d, "Array", "elements", "]") = o
          /\ o.ok => o.at \in (i + 1)..(Len(text) + 1)
      BY <2>1, <3>2, OpenListLocal
    <3>4. QED BY <3>1, <3>3 DEF r
  <2>3. CASE k = "{"
    <3>1. /\ r = OpenList(text, g, i, d, "Object", "members", "}")
          /\ parse_value(text, h, i, d) = OpenList(text, h, i, d, "Object", "members", "}")
      BY <2>3 DEF parse_value
    <3>2. "members" \in {"elements", "members"} /\ "}" # "end"
      OBVIOUS
    <3> HIDE DEF k, r
    <3>3. LET o == OpenList(text, g, i, d, "Object", "members", "}") IN
          /\ OpenList(text, h, i, d, "Object", "members", "}") = o
          /\ o.ok => o.at \in (i + 1)..(Len(text) + 1)
      BY <2>1, <3>2, OpenListLocal
    <3>4. QED BY <3>1, <3>3 DEF r
  <2>4. QED BY <1>2, <2>2, <2>3
<1>3. CASE k \notin {"null", "false", "true", "string", "number", "[", "{"}
  <2>1. r = Failed /\ parse_value(text, h, i, d) = r
    BY <1>3 DEF parse_value
  <2>2. QED BY <2>1 DEF Failed
<1>4. QED BY <1>1, <1>2, <1>3

\* What the parser builds depends on what it builds behind only.
LEMMA ParseAtLocal ==
  ASSUME NEW text, Len(text) \in Nat, NEW g, NEW h, NEW p \in Places(text),
         \A q \in Places(text) : Rank(q) > Rank(p) => g[q] = h[q] /\ Advances(text, g, q)
  PROVE  LET r == parse_at(text, g, p) IN
         /\ parse_at(text, h, p) = r
         /\ r.ok => r.at \in (p.i + 1)..(Len(text) + 1)
<1> DEFINE i == p.i
           d == p.d
           r == parse_at(text, g, p)
<1>1. p.what \in {"value", "elements", "members"} /\ i \in 1..(Len(text) + 1) /\ d \in 0..NestingLimit
  BY DEF Places
<1>2. AgreeBehind(text, g, h, i)
  <2>1. ASSUME NEW q \in Places(text), q.i > i PROVE Rank(q) > Rank(p)
    <3>1. q.i \in Nat /\ q.i >= i + 1
      BY <1>1, <2>1 DEF Places
    <3>2. QED BY <1>1, <3>1 DEF Rank
  <2>2. QED BY <2>1 DEF AgreeBehind
<1>3. CASE p.what = "value"
  <2>1. r = parse_value(text, g, i, d) /\ parse_at(text, h, p) = parse_value(text, h, i, d)
    BY <1>3 DEF parse_at
  <2>2. QED BY <1>1, <1>2, <2>1, ValueLocal
<1>4. CASE p.what = "elements"
  <2> DEFINE q == Place("value", i, d)
  <2>1. q \in Places(text) /\ q.i = i /\ q.what = "value"
    BY <1>1 DEF Place, Places
  <2>2. Rank(q) > Rank(p)
    BY <1>1, <1>4, <2>1 DEF Rank
  <2>3. g[q] = h[q] /\ Advances(text, g, q)
    BY <2>1, <2>2
  <2>4. /\ r = IF g[q].ok THEN RestOfList(text, g, g[q].items[1], g[q].at, d, "elements", "]") ELSE Failed
        /\ parse_at(text, h, p) =
             IF g[q].ok THEN RestOfList(text, h, g[q].items[1], g[q].at, d, "elements", "]") ELSE Failed
    BY <1>4, <2>3 DEF parse_at, parse_array
  <2>5. CASE ~g[q].ok
    BY <2>4, <2>5 DEF Failed
  <2>6. CASE g[q].ok
    <3>1. g[q].at \in (i + 1)..(Len(text) + 1)
      BY <2>1, <2>3, <2>6 DEF Advances
    <3>2. /\ RestOfList(text, h, g[q].items[1], g[q].at, d, "elements", "]") = r
          /\ r.ok => r.at \in (g[q].at + 1)..(Len(text) + 1)
      <4>1. g[q].at \in 1..(Len(text) + 1) /\ i < g[q].at
        BY <1>1, <3>1
      <4>2. r = RestOfList(text, g, g[q].items[1], g[q].at, d, "elements", "]")
        BY <2>4, <2>6
      <4>3. "elements" \in {"elements", "members"} /\ "]" # "end"
        OBVIOUS
      <4> HIDE DEF i, d, q, r
      <4>4. LET o == RestOfList(text, g, g[q].items[1], g[q].at, d, "elements", "]") IN
            /\ RestOfList(text, h, g[q].items[1], g[q].at, d, "elements", "]") = o
            /\ o.ok => o.at \in (g[q].at + 1)..(Len(text) + 1)
        BY <1>1, <1>2, <4>1, <4>3, RestOfListLocal
      <4>5. QED BY <4>2, <4>4
    <3>3. QED BY <1>1, <2>4, <2>6, <3>1, <3>2
  <2>7. QED BY <2>5, <2>6
<1>5. CASE p.what = "members"
  <2> DEFINE q == Place("value", i + 2, d)
             label == At(text, i)
             item == [g[q].items[1] EXCEPT !.string = label.s]
             named == label.k = "string" /\ At(text, i + 1).k = ":"
  <2>1. CASE ~named
    <3>1. r = Failed /\ parse_at(text, h, p) = Failed
      BY <1>5, <2>1 DEF parse_at, parse_object
    <3>2. QED BY <3>1 DEF Failed
  <2>2. CASE named
    <3>1. i + 1 <= Len(text)
      <4>1. At(text, i + 1).k # "end" /\ i + 1 \in Nat \ {0}
        BY <1>1, <2>2
      <4>2. QED BY <4>1, AtInside
    <3>2. q \in Places(text) /\ q.i = i + 2 /\ q.what = "value"
      BY <1>1, <3>1 DEF Place, Places
    <3>3. g[q] = h[q] /\ Advances(text, g, q)
      BY <1>1, <1>2, <3>2 DEF AgreeBehind
    <3>4. /\ r = IF g[q].ok THEN RestOfList(text, g, item, g[q].at, d, "members", "}") ELSE Failed
          /\ parse_at(text, h, p) =
               IF g[q].ok THEN RestOfList(text, h, item, g[q].at, d, "members", "}") ELSE Failed
      BY <1>5, <2>2, <3>3 DEF parse_at, parse_object
    <3>5. CASE ~g[q].ok
      BY <3>4, <3>5 DEF Failed
    <3>6. CASE g[q].ok
      <4>1. g[q].at \in (i + 3)..(Len(text) + 1)
        BY <1>1, <3>2, <3>3, <3>6 DEF Advances
      <4>2. g[q].at \in 1..(Len(text) + 1) /\ i < g[q].at
        BY <1>1, <4>1
      <4>3. r = RestOfList(text, g, item, g[q].at, d, "members", "}")
        BY <3>4, <3>6
      <4>4. /\ RestOfList(text, h, item, g[q].at, d, "members", "}") = r
            /\ r.ok => r.at \in (g[q].at + 1)..(Len(text) + 1)
        <5>1. "members" \in {"elements", "members"} /\ "}" # "end"
          OBVIOUS
        <5> HIDE DEF i, d, q, r, item, named
        <5>2. LET o == RestOfList(text, g, item, g[q].at, d, "members", "}") IN
              /\ RestOfList(text, h, item, g[q].at, d, "members", "}") = o
              /\ o.ok => o.at \in (g[q].at + 1)..(Len(text) + 1)
          BY <1>1, <1>2, <4>2, <5>1, RestOfListLocal
        <5>3. QED BY <4>3, <5>2
      <4>5. parse_at(text, h, p) = r
        BY <3>4, <3>6, <4>4
      <4> HIDE DEF i, d, q, r, item, named
      <4>6. r.ok => r.at \in (i + 1)..(Len(text) + 1)
        <5>1. \A a \in (i + 3)..(Len(text) + 1) : \A b \in (a + 1)..(Len(text) + 1) :
                b \in (i + 1)..(Len(text) + 1)
          BY <1>1
        <5>2. QED BY <4>1, <4>4, <5>1
      <4>7. QED BY <4>5, <4>6 DEF i, r
    <3>7. QED BY <3>5, <3>6
  <2>3. QED BY <2>1, <2>2
<1>6. QED BY <1>1, <1>3, <1>4, <1>5

-----------------------------------------------------------------------------
\* g is the parser from rank k on.
ParsesFrom(text, g, k) ==
  \A p \in Places(text) : Rank(p) >= k => g[p] = parse_at(text, g, p) /\ Advances(text, g, p)

\* The length of the text bounds the ranks.
LEMMA RankBound ==
  ASSUME NEW text, Len(text) \in Nat, NEW p \in Places(text)
  PROVE  Rank(p) \in 0..(2 * Len(text) + 3)
<1>1. p.i \in 1..(Len(text) + 1)
  BY DEF Places
<1>2. QED BY <1>1 DEF Rank

\* The parser is a function: it calls itself at higher ranks only, and ranks
\* are bounded by the length of the text.
LEMMA ParserExists ==
  ASSUME NEW text, Len(text) \in Nat
  PROVE  \E g : g = [p \in Places(text) |-> parse_at(text, g, p)] /\ ParsesFrom(text, g, 0)
<1> DEFINE K == {k \in Nat : \E g : g = [p \in Places(text) |-> g[p]] /\ ParsesFrom(text, g, k)}
<1>1. \A p \in Places(text) : Rank(p) \in 0..(2 * Len(text) + 3)
  BY RankBound
<1>2. 2 * Len(text) + 4 \in K
  <2> DEFINE g == [p \in Places(text) |-> Failed]
  <2>1. ParsesFrom(text, g, 2 * Len(text) + 4)
    BY <1>1 DEF ParsesFrom
  <2>2. g = [p \in Places(text) |-> g[p]] /\ 2 * Len(text) + 4 \in Nat
    OBVIOUS
  <2>3. QED BY <2>1, <2>2
<1>3. PICK k \in K : \A m \in K : k <= m
  <2>1. K # {} /\ K \in SUBSET Nat
    BY <1>2
  <2> HIDE DEF K
  <2>2. QED BY <2>1, Least
<1>4. PICK g : g = [p \in Places(text) |-> g[p]] /\ ParsesFrom(text, g, k)
  BY <1>3
<1>5. k = 0
  <2> SUFFICES ASSUME k # 0 PROVE FALSE
    OBVIOUS
  <2>1. k \in Nat /\ k - 1 \in Nat
    BY <1>3
  <2> DEFINE h == [p \in Places(text) |-> IF Rank(p) >= k THEN g[p] ELSE parse_at(text, g, p)]
  <2>2. ASSUME NEW p \in Places(text), Rank(p) >= k - 1
        PROVE  h[p] = parse_at(text, h, p) /\ Advances(text, h, p)
    <3>1. \A q \in Places(text) : Rank(q) > Rank(p) => Rank(q) >= k
      BY <1>1, <2>1, <2>2
    <3>2. \A q \in Places(text) : Rank(q) > Rank(p) => g[q] = h[q] /\ Advances(text, g, q)
      BY <1>4, <3>1 DEF ParsesFrom
    <3>3. h[p] = parse_at(text, g, p)
      BY <1>4 DEF ParsesFrom
    <3> HIDE DEF h
    <3>4. /\ parse_at(text, h, p) = parse_at(text, g, p)
          /\ parse_at(text, g, p).ok => parse_at(text, g, p).at \in (p.i + 1)..(Len(text) + 1)
      BY <3>2, ParseAtLocal
    <3>5. QED BY <3>3, <3>4 DEF Advances
  <2>3. h = [p \in Places(text) |-> h[p]]
    OBVIOUS
  <2> HIDE DEF h
  <2>4. ParsesFrom(text, h, k - 1)
    BY <2>2 DEF ParsesFrom
  <2>5. k - 1 \in K
    BY <2>1, <2>3, <2>4
  <2>6. k <= k - 1
    BY <1>3, <2>5
  <2>7. QED BY <2>1, <2>6
<1>6. \A p \in Places(text) : g[p] = parse_at(text, g, p)
  BY <1>1, <1>4, <1>5 DEF ParsesFrom
<1>7. g = [p \in Places(text) |-> parse_at(text, g, p)]
  BY <1>4, <1>6
<1>8. QED BY <1>4, <1>5, <1>7

\* What the parser of a text builds, place by place.
Parses(text) == CHOOSE g : g = [p \in Places(text) |-> parse_at(text, g, p)]

\* Parser is one call of the function parse_at defines, at the root, and every
\* call of it that succeeds has moved on, within the text.
LEMMA ParserSteps ==
  ASSUME NEW text, Len(text) \in Nat
  PROVE  /\ Parser(text) = Parses(text)[Place("value", 1, 0)]
         /\ \A p \in Places(text) :
              Parses(text)[p] = parse_at(text, Parses(text), p) /\ Advances(text, Parses(text), p)
<1> DEFINE g == Parses(text)
<1>1. Parser(text) = g[Place("value", 1, 0)]
  BY Zenon DEF Parser, Parses
<1>2. g = [p \in Places(text) |-> parse_at(text, g, p)]
  <2>1. \E f : f = [p \in Places(text) |-> parse_at(text, f, p)]
    BY ParserExists
  <2>2. QED BY <2>1, Zenon DEF Parses
<1> HIDE DEF g
<1>3. \A p \in Places(text) : g[p] = parse_at(text, g, p)
  BY <1>2
<1>4. \A p \in Places(text) : Advances(text, g, p)
  <2> SUFFICES ASSUME NEW p0 \in Places(text), ~Advances(text, g, p0) PROVE FALSE
    OBVIOUS
  <2> DEFINE Bad == {n \in Nat : \E p \in Places(text) : ~Advances(text, g, p) /\ Rank(p) + n = 2 * Len(text) + 3}
  <2>1. 2 * Len(text) + 3 - Rank(p0) \in Bad
    BY RankBound
  <2>2. PICK n \in Bad : \A m \in Bad : n <= m
    <3>1. Bad \in SUBSET Nat /\ Bad # {}
      BY <2>1
    <3> HIDE DEF Bad
    <3>2. QED BY <3>1, Least
  <2>3. PICK p \in Places(text) : ~Advances(text, g, p) /\ Rank(p) + n = 2 * Len(text) + 3
    BY <2>2
  <2>4. ASSUME NEW q \in Places(text), Rank(q) > Rank(p) PROVE Advances(text, g, q)
    <3> SUFFICES ASSUME ~Advances(text, g, q) PROVE FALSE
      OBVIOUS
    <3>1. Rank(q) \in 0..(2 * Len(text) + 3) /\ Rank(p) \in 0..(2 * Len(text) + 3) /\ n \in Nat
      BY <2>2, RankBound
    <3>2. 2 * Len(text) + 3 - Rank(q) \in Bad
      BY <3>1
    <3>3. n <= 2 * Len(text) + 3 - Rank(q)
      BY <2>2, <3>2
    <3>4. QED BY <2>3, <2>4, <3>1, <3>3
  <2>5. Advances(text, g, p)
    <3>1. parse_at(text, g, p).ok => parse_at(text, g, p).at \in (p.i + 1)..(Len(text) + 1)
      BY <2>4, ParseAtLocal
    <3>2. QED BY <1>3, <3>1 DEF Advances
  <2>6. QED BY <2>3, <2>5
<1>5. QED BY <1>1, <1>3, <1>4 DEF g

-----------------------------------------------------------------------------
\* Two texts have the same tokens in front of a.
SameUpTo(t, u, a) ==
  a \in 1..(Len(t) + 1) /\ a \in 1..(Len(u) + 1) /\ \A i \in 1..(a - 1) : t[i] = u[i]

\* Fewer tokens are the same as well.
LEMMA SameBelow ==
  ASSUME NEW t, NEW u, Len(t) \in Nat, Len(u) \in Nat, NEW b, SameUpTo(t, u, b), NEW a \in 1..b
  PROVE  SameUpTo(t, u, a)
  BY DEF SameUpTo

\* The parser sees the same token in both texts.
LEMMA SameAt ==
  ASSUME NEW t, NEW u, Len(t) \in Nat, Len(u) \in Nat, NEW a, SameUpTo(t, u, a),
         NEW i \in Nat \ {0}, i < a
  PROVE  At(u, i) = At(t, i)
  BY DEF SameUpTo, At

\* Behind i, whatever g builds from tokens that t and u share, h builds as well.
FollowsBehind(t, u, g, h, i) ==
  \A q \in Places(t) :
    q.i > i => Advances(t, g, q) /\ (g[q].ok /\ SameUpTo(t, u, g[q].at) => h[q] = g[q])

\* s is r, if r is built from tokens that t and u share.
KeptBy(t, u, r, s) == r.ok /\ SameUpTo(t, u, r.at) => s = r

\* A list and its opening bracket, built from shared tokens, are built from both.
LEMMA OpenListPrefix ==
  ASSUME NEW t, NEW u, Len(t) \in Nat, Len(u) \in Nat, NEW g, NEW h,
         NEW i \in 1..(Len(t) + 1), NEW d \in 0..NestingLimit, i <= Len(t),
         NEW type, NEW list \in {"elements", "members"}, NEW close, close # "end",
         FollowsBehind(t, u, g, h, i)
  PROVE  KeptBy(t, u, OpenList(t, g, i, d, type, list, close), OpenList(u, h, i, d, type, list, close))
<1> DEFINE q == Place(list, i + 1, d + 1)
           r == OpenList(t, g, i, d, type, list, close)
<1> SUFFICES ASSUME r.ok, SameUpTo(t, u, r.at) PROVE OpenList(u, h, i, d, type, list, close) = r
  BY DEF KeptBy
<1>1. ~(d >= NestingLimit)
  BY DEF OpenList, Failed
<1>2. CASE At(t, i + 1).k = close
  <2>1. i + 1 <= Len(t)
    BY <1>2, AtInside
  <2>2. r = Built(i + 2, <<[New_Item EXCEPT !.type = type]>>)
    BY <1>1, <1>2 DEF OpenList
  <2>3. r.at = i + 2
    BY <2>2 DEF Built
  <2>4. At(u, i + 1) = At(t, i + 1)
    BY <2>3, SameAt
  <2>5. QED BY <1>1, <1>2, <2>4 DEF OpenList
<1>3. CASE At(t, i + 1).k # close
  <2>1. q \in Places(t) /\ q.i = i + 1
    <3>1. list \in {"value", "elements", "members"} /\ i + 1 \in 1..(Len(t) + 1) /\ d + 1 \in 0..NestingLimit
      BY <1>1, JsonAssumption
    <3>2. QED BY <3>1 DEF Place, Places
  <2>2. r = IF g[q].ok THEN Built(g[q].at, <<[New_Item EXCEPT !.type = type, !.child = g[q].items]>>) ELSE Failed
    BY <1>1, <1>3 DEF OpenList
  <2>3. g[q].ok /\ r.at = g[q].at
    BY <2>2 DEF Built, Failed
  <2>4. Advances(t, g, q) /\ h[q] = g[q]
    BY <2>1, <2>3 DEF FollowsBehind
  <2>5. g[q].at > i + 1
    BY <2>1, <2>3, <2>4 DEF Advances
  <2>6. At(u, i + 1) = At(t, i + 1)
    BY <2>3, <2>5, SameAt
  <2>7. QED BY <1>1, <1>3, <2>4, <2>6 DEF OpenList
<1>4. QED BY <1>2, <1>3

\* So is what follows an item of a list.
LEMMA RestOfListPrefix ==
  ASSUME NEW t, NEW u, Len(t) \in Nat, Len(u) \in Nat, NEW g, NEW h, NEW item,
         NEW j \in 1..(Len(t) + 1), NEW i \in 1..(Len(t) + 1), i < j, NEW d \in 0..NestingLimit,
         NEW list \in {"elements", "members"}, NEW close, close # "end",
         FollowsBehind(t, u, g, h, i)
  PROVE  KeptBy(t, u, RestOfList(t, g, item, j, d, list, close), RestOfList(u, h, item, j, d, list, close))
<1> DEFINE q == Place(list, j + 1, d)
           r == RestOfList(t, g, item, j, d, list, close)
<1> SUFFICES ASSUME r.ok, SameUpTo(t, u, r.at) PROVE RestOfList(u, h, item, j, d, list, close) = r
  BY DEF KeptBy
<1>1. CASE EndsList(At(t, j), close)
  <2>1. r = Built(j + 1, <<item>>)
    BY <1>1 DEF RestOfList
  <2>2. r.at = j + 1
    BY <2>1 DEF Built
  <2>3. At(u, j) = At(t, j)
    BY <2>2, SameAt
  <2>4. QED BY <1>1, <2>3 DEF RestOfList
<1>2. CASE ~EndsList(At(t, j), close)
  <2>1. At(t, j).k = ","
    BY <1>2 DEF RestOfList, Failed
  <2>2. j <= Len(t)
    <3>1. At(t, j).k # "end"
      BY <2>1
    <3>2. j \in Nat \ {0}
      OBVIOUS
    <3>3. QED BY <3>1, <3>2, AtInside
  <2>3. q \in Places(t) /\ q.i = j + 1
    <3>1. list \in {"value", "elements", "members"} /\ j + 1 \in 1..(Len(t) + 1)
      BY <2>2
    <3>2. QED BY <3>1 DEF Place, Places
  <2>4. r = IF g[q].ok THEN Built(g[q].at, <<item>> \o g[q].items) ELSE Failed
    BY <1>2, <2>1 DEF RestOfList
  <2>5. g[q].ok /\ r.at = g[q].at
    BY <2>4 DEF Built, Failed
  <2>6. Advances(t, g, q) /\ h[q] = g[q]
    <3>1. q.i > i
      BY <2>3
    <3>2. QED BY <2>3, <2>5, <3>1 DEF FollowsBehind
  <2>7. g[q].at > j
    BY <2>3, <2>5, <2>6 DEF Advances
  <2>8. At(u, j) = At(t, j)
    BY <2>5, <2>7, SameAt
  <2>9. QED BY <1>2, <2>1, <2>6, <2>8 DEF RestOfList
<1>3. QED BY <1>1, <1>2

\* So is a value.
LEMMA ValuePrefix ==
  ASSUME NEW t, NEW u, Len(t) \in Nat, Len(u) \in Nat, NEW g, NEW h,
         NEW i \in 1..(Len(t) + 1), NEW d \in 0..NestingLimit, AgreeBehind(t, g, g, i),
         FollowsBehind(t, u, g, h, i),
         parse_value(t, g, i, d).ok, SameUpTo(t, u, parse_value(t, g, i, d).at)
  PROVE  parse_value(u, h, i, d) = parse_value(t, g, i, d)
<1> DEFINE k == At(t, i).k
           r == parse_value(t, g, i, d)
<1>1. r.at \in (i + 1)..(Len(t) + 1)
  BY ValueLocal
<1>2. At(u, i) = At(t, i)
  BY <1>1, SameAt
<1>3. CASE k \in {"null", "false", "true", "string", "number"}
  BY <1>2, <1>3 DEF parse_value
<1>4. CASE k = "["
  <2>1. /\ r = OpenList(t, g, i, d, "Array", "elements", "]")
        /\ parse_value(u, h, i, d) = OpenList(u, h, i, d, "Array", "elements", "]")
    BY <1>2, <1>4 DEF parse_value
  <2>2. "elements" \in {"elements", "members"} /\ "]" # "end" /\ i <= Len(t)
    BY <1>1
  <2> HIDE DEF k, r
  <2>3. KeptBy(t, u, OpenList(t, g, i, d, "Array", "elements", "]"), OpenList(u, h, i, d, "Array", "elements", "]"))
    BY <2>2, OpenListPrefix
  <2>4. QED BY <2>1, <2>3 DEF r, KeptBy
<1>5. CASE k = "{"
  <2>1. /\ r = OpenList(t, g, i, d, "Object", "members", "}")
        /\ parse_value(u, h, i, d) = OpenList(u, h, i, d, "Object", "members", "}")
    BY <1>2, <1>5 DEF parse_value
  <2>2. "members" \in {"elements", "members"} /\ "}" # "end" /\ i <= Len(t)
    BY <1>1
  <2> HIDE DEF k, r
  <2>3. KeptBy(t, u, OpenList(t, g, i, d, "Object", "members", "}"), OpenList(u, h, i, d, "Object", "members", "}"))
    BY <2>2, OpenListPrefix
  <2>4. QED BY <2>1, <2>3 DEF r, KeptBy
<1>6. CASE k \notin {"null", "false", "true", "string", "number", "[", "{"}
  <2>1. r = Failed
    BY <1>6 DEF parse_value
  <2>2. QED BY <2>1 DEF Failed
<1>7. QED BY <1>3, <1>4, <1>5, <1>6

\* What is built from the tokens two texts share is built from both.
LEMMA ParseAtPrefix ==
  ASSUME NEW t, NEW u, Len(t) \in Nat, Len(u) \in Nat, NEW g, NEW h, NEW p \in Places(t),
         \A q \in Places(t) : Advances(t, g, q),
         \A q \in Places(t) : Rank(q) > Rank(p) =>
           (g[q].ok /\ SameUpTo(t, u, g[q].at) => h[q] = g[q]),
         parse_at(t, g, p).ok, SameUpTo(t, u, parse_at(t, g, p).at)
  PROVE  parse_at(u, h, p) = parse_at(t, g, p)
<1> DEFINE i == p.i
           d == p.d
           r == parse_at(t, g, p)
<1>1. p.what \in {"value", "elements", "members"} /\ i \in 1..(Len(t) + 1) /\ d \in 0..NestingLimit
  BY DEF Places
<1>2. FollowsBehind(t, u, g, h, i) /\ AgreeBehind(t, g, g, i)
  <2>1. ASSUME NEW q \in Places(t), q.i > i PROVE Rank(q) > Rank(p)
    <3>1. q.i \in Nat /\ q.i >= i + 1
      BY <1>1, <2>1 DEF Places
    <3>2. QED BY <1>1, <3>1 DEF Rank
  <2>2. QED BY <2>1 DEF FollowsBehind, AgreeBehind
<1>3. r.at \in (i + 1)..(Len(t) + 1)
  BY ParseAtLocal
<1>4. CASE p.what = "value"
  <2>1. r = parse_value(t, g, i, d) /\ parse_at(u, h, p) = parse_value(u, h, i, d)
    BY <1>4 DEF parse_at
  <2>2. QED BY <1>1, <1>2, <2>1, ValuePrefix
<1>5. CASE p.what = "elements"
  <2> DEFINE q == Place("value", i, d)
             li == "elements"
             cl == "]"
  <2>1. q \in Places(t) /\ q.i = i /\ q.what = "value"
    BY <1>1 DEF Place, Places
  <2>2. Rank(q) > Rank(p)
    BY <1>1, <1>5, <2>1 DEF Rank
  <2>3. r = IF g[q].ok THEN RestOfList(t, g, g[q].items[1], g[q].at, d, li, cl) ELSE Failed
    BY <1>5 DEF parse_at, parse_array
  <2>4. g[q].ok
    BY <2>3 DEF Failed
  <2>5. g[q].at \in 1..(Len(t) + 1) /\ i < g[q].at
    <3>1. Advances(t, g, q)
      BY <2>1
    <3>2. QED BY <1>1, <2>1, <2>4, <3>1 DEF Advances
  <2>6. r = RestOfList(t, g, g[q].items[1], g[q].at, d, li, cl)
    BY <2>3, <2>4
  <2>7. li \in {"elements", "members"} /\ cl # "end"
    OBVIOUS
  <2>8. h[q] = g[q]
    <3> HIDE DEF q
    <3>1. AgreeBehind(t, g, g, i) /\ RestOfList(t, g, g[q].items[1], g[q].at, d, li, cl).ok
      BY <1>2, <2>6
    <3> HIDE DEF i, d, r, li, cl
    <3>2. RestOfList(t, g, g[q].items[1], g[q].at, d, li, cl).at \in (g[q].at + 1)..(Len(t) + 1)
      BY <1>1, <2>5, <2>7, <3>1, RestOfListLocal
    <3>3. SameUpTo(t, u, g[q].at)
      BY <2>5, <2>6, <3>2, SameBelow DEF r
    <3>4. QED BY <2>1, <2>2, <2>4, <3>3
  <2>9. parse_at(u, h, p) = RestOfList(u, h, g[q].items[1], g[q].at, d, li, cl)
    BY <1>5, <2>4, <2>8 DEF parse_at, parse_array
  <2> HIDE DEF q, i, d, r, li, cl
  <2>10. KeptBy(t, u, RestOfList(t, g, g[q].items[1], g[q].at, d, li, cl), RestOfList(u, h, g[q].items[1], g[q].at, d, li, cl))
    BY <1>1, <1>2, <2>5, <2>7, RestOfListPrefix
  <2>11. QED BY <2>6, <2>9, <2>10 DEF r, KeptBy
<1>6. CASE p.what = "members"
  <2> DEFINE q == Place("value", i + 2, d)
             li == "members"
             cl == "}"
             label == At(t, i)
             item == [g[q].items[1] EXCEPT !.string = label.s]
  <2>1. label.k = "string" /\ At(t, i + 1).k = ":" /\ g[q].ok
    BY <1>6 DEF parse_at, parse_object, Failed
  <2>2. r = RestOfList(t, g, item, g[q].at, d, li, cl)
    BY <1>6, <2>1 DEF parse_at, parse_object
  <2>3. i + 1 <= Len(t)
    <3>1. At(t, i + 1).k # "end" /\ i + 1 \in Nat \ {0}
      BY <1>1, <2>1
    <3>2. QED BY <3>1, AtInside
  <2>4. q \in Places(t) /\ q.i = i + 2 /\ q.what = "value"
    BY <1>1, <2>3 DEF Place, Places
  <2>5. g[q].at \in (i + 3)..(Len(t) + 1)
    <3>1. Advances(t, g, q)
      BY <2>4
    <3>2. QED BY <1>1, <2>1, <2>4, <3>1 DEF Advances
  <2>6. g[q].at \in 1..(Len(t) + 1) /\ i < g[q].at /\ i + 1 < g[q].at
    BY <1>1, <2>5
  <2>7. li \in {"elements", "members"} /\ cl # "end"
    OBVIOUS
  <2>8. RestOfList(t, g, item, g[q].at, d, li, cl).ok
        /\ SameUpTo(t, u, RestOfList(t, g, item, g[q].at, d, li, cl).at)
    BY <2>2
  <2>9. h[q] = g[q] /\ At(u, i) = label /\ At(u, i + 1) = At(t, i + 1)
    <3> HIDE DEF q, i, d, r, item, label, li, cl
    <3>1. RestOfList(t, g, item, g[q].at, d, li, cl).at \in (g[q].at + 1)..(Len(t) + 1)
      BY <1>1, <1>2, <2>6, <2>7, <2>8, RestOfListLocal
    <3>2. SameUpTo(t, u, g[q].at)
      BY <2>6, <2>8, <3>1, SameBelow
    <3>3. q.i > i
      BY <1>1, <2>4
    <3>4. h[q] = g[q]
      BY <1>2, <2>1, <2>4, <3>2, <3>3 DEF FollowsBehind
    <3>5. At(u, i) = At(t, i) /\ At(u, i + 1) = At(t, i + 1)
      BY <1>1, <2>6, <3>2, SameAt
    <3>6. QED BY <3>4, <3>5 DEF label
  <2>10. parse_at(u, h, p) = RestOfList(u, h, item, g[q].at, d, li, cl)
    BY <1>6, <2>1, <2>9 DEF parse_at, parse_object
  <2> HIDE DEF q, i, d, r, item, label, li, cl
  <2>11. KeptBy(t, u, RestOfList(t, g, item, g[q].at, d, li, cl), RestOfList(u, h, item, g[q].at, d, li, cl))
    BY <1>1, <1>2, <2>6, <2>7, RestOfListPrefix
  <2>12. QED BY <2>2, <2>8, <2>10, <2>11 DEF r, KeptBy
<1>7. QED BY <1>1, <1>4, <1>5, <1>6

\* By induction on the ranks: whatever the parser builds from a text, it builds
\* from every text with the same tokens up to there.
LEMMA PlacePrefix ==
  ASSUME NEW t, NEW u, Len(t) \in Nat, Len(u) \in Nat, NEW p0 \in Places(t)
  PROVE  KeptBy(t, u, Parses(t)[p0], Parses(u)[p0])
<1> DEFINE g == Parses(t)
           h == Parses(u)
           Kept(p) == KeptBy(t, u, g[p], h[p])
           Bad == {n \in Nat : \E p \in Places(t) : ~Kept(p) /\ Rank(p) + n = 2 * Len(t) + 3}
<1>1. \A p \in Places(t) : g[p] = parse_at(t, g, p) /\ Advances(t, g, p)
  BY ParserSteps
<1>2. \A p \in Places(u) : h[p] = parse_at(u, h, p)
  BY ParserSteps
<1> HIDE DEF g, h
<1> SUFFICES ASSUME ~Kept(p0) PROVE FALSE
  BY DEF g, h
<1>3. 2 * Len(t) + 3 - Rank(p0) \in Bad
  BY RankBound
<1>4. PICK n \in Bad : \A m \in Bad : n <= m
  <2>1. Bad \in SUBSET Nat /\ Bad # {}
    BY <1>3
  <2> HIDE DEF Bad
  <2>2. QED BY <2>1, Least
<1>5. PICK p \in Places(t) : ~Kept(p) /\ Rank(p) + n = 2 * Len(t) + 3
  BY <1>4
<1>6. ASSUME NEW q \in Places(t), Rank(q) > Rank(p) PROVE Kept(q)
  <2> SUFFICES ASSUME ~Kept(q) PROVE FALSE
    OBVIOUS
  <2>1. Rank(q) \in 0..(2 * Len(t) + 3) /\ Rank(p) \in 0..(2 * Len(t) + 3) /\ n \in Nat
    BY <1>4, RankBound
  <2>2. 2 * Len(t) + 3 - Rank(q) \in Bad
    BY <2>1
  <2>3. n <= 2 * Len(t) + 3 - Rank(q)
    BY <1>4, <2>2
  <2>4. QED BY <1>5, <1>6, <2>1, <2>3
<1>7. Kept(p)
  <2> SUFFICES ASSUME g[p].ok, SameUpTo(t, u, g[p].at) PROVE h[p] = g[p]
    BY DEF KeptBy
  <2>1. \A q \in Places(t) : Rank(q) > Rank(p) => (g[q].ok /\ SameUpTo(t, u, g[q].at) => h[q] = g[q])
    BY <1>6 DEF KeptBy
  <2>2. parse_at(t, g, p).ok /\ SameUpTo(t, u, parse_at(t, g, p).at)
    BY <1>1
  <2>3. parse_at(u, h, p) = parse_at(t, g, p)
    BY <1>1, <2>1, <2>2, ParseAtPrefix
  <2>4. p \in Places(u)
    <3>1. p.i \in 1..(Len(t) + 1) /\ p = [what |-> p.what, i |-> p.i, d |-> p.d]
          /\ p.what \in {"value", "elements", "members"} /\ p.d \in 0..NestingLimit
      BY DEF Places
    <3>2. g[p].at \in (p.i + 1)..(Len(t) + 1)
      BY <1>1 DEF Advances
    <3>3. g[p].at \in 1..(Len(u) + 1)
      BY DEF SameUpTo
    <3>4. p.i \in 1..(Len(u) + 1)
      BY <3>1, <3>2, <3>3
    <3>5. QED BY <3>1, <3>4 DEF Places
  <2>5. QED BY <1>1, <1>2, <2>3, <2>4
<1>8. QED BY <1>5, <1>7

\* The root of a document.
LEMMA RootPlace ==
  ASSUME NEW text, Len(text) \in Nat
  PROVE  Place("value", 1, 0) \in Places(text) /\ Place("value", 1, 0).i = 1
<1>1. 0 \in 0..NestingLimit /\ 1 \in 1..(Len(text) + 1)
  BY JsonAssumption
<1>2. QED BY <1>1 DEF Place, Places

\* A text the parser takes parses the same with anything behind it.
THEOREM ParserIgnoresTail ==
  ASSUME NEW T, NEW b \in Seq(T), NEW x \in Seq(T), Parser(b).ok
  PROVE  Parser(b \o x) = Parser(b)
<1> DEFINE p == Place("value", 1, 0)
           u == b \o x
<1>1. /\ u \in Seq(T) /\ Len(u) = Len(b) + Len(x) /\ Len(b) \in Nat /\ Len(x) \in Nat /\ Len(u) \in Nat
      /\ \A i \in 1..Len(b) : u[i] = b[i]
  OBVIOUS
<1> HIDE DEF u
<1>2. p \in Places(b) /\ p.i = 1
  BY <1>1, RootPlace
<1>3. Parser(b) = Parses(b)[p] /\ Parser(u) = Parses(u)[p] /\ Advances(b, Parses(b), p)
  BY <1>1, <1>2, ParserSteps
<1>4. KeptBy(b, u, Parses(b)[p], Parses(u)[p])
  BY <1>1, <1>2, PlacePrefix
<1>5. Parser(b).at \in 2..(Len(b) + 1)
  BY <1>2, <1>3 DEF Advances
<1>6. SameUpTo(b, u, Parser(b).at)
  BY <1>1, <1>5 DEF SameUpTo
<1>7. QED BY <1>3, <1>4, <1>6 DEF KeptBy, u

\* No proper prefix of a document is one: the parser wants the last token of a
\* text it takes to the end.
THEOREM ParserWantsAll ==
  ASSUME NEW T, NEW b \in Seq(T), Parser(b).ok, Parser(b).at = Len(b) + 1,
         NEW n \in 0..Len(b), n < Len(b)
  PROVE  ~Parser(SubSeq(b, 1, n)).ok
<1> DEFINE p == Place("value", 1, 0)
           t == SubSeq(b, 1, n)
<1>1. t \in Seq(T) /\ Len(t) = n /\ Len(b) \in Nat /\ Len(t) \in Nat /\ \A i \in 1..n : t[i] = b[i]
  OBVIOUS
<1> HIDE DEF t
<1> SUFFICES ASSUME Parser(t).ok PROVE FALSE
  BY DEF t
<1>2. p \in Places(t) /\ p.i = 1
  BY <1>1, RootPlace
<1>3. Parser(t) = Parses(t)[p] /\ Parser(b) = Parses(b)[p] /\ Advances(t, Parses(t), p)
  BY <1>1, <1>2, ParserSteps
<1>4. KeptBy(t, b, Parses(t)[p], Parses(b)[p])
  BY <1>1, <1>2, PlacePrefix
<1>5. Parser(t).at \in 2..(n + 1)
  BY <1>1, <1>2, <1>3 DEF Advances
<1>6. SameUpTo(t, b, Parser(t).at)
  BY <1>1, <1>5 DEF SameUpTo
<1>7. Parser(b) = Parser(t)
  BY <1>3, <1>4, <1>6 DEF KeptBy
<1>8. QED BY <1>1, <1>5, <1>7

\* cJSON_Parse gives an item whenever the parser succeeds, and NULL otherwise.
LEMMA ParseGivesItem ==
  ASSUME NEW text, Len(text) \in Nat
  PROVE  Parser(text).ok <=> Parse(text) # NULL
<1> DEFINE p == Place("value", 1, 0)
           g == Parses(text)
           r == parse_value(text, g, 1, 0)
<1>1. Parser(text) = r
  <2>1. p \in Places(text) /\ Parser(text) = g[p] /\ g[p] = parse_at(text, g, p)
    BY RootPlace, ParserSteps
  <2>2. parse_at(text, g, p) = r
    BY DEF parse_at, Place
  <2>3. QED BY <2>1, <2>2
<1> HIDE DEF g
<1>2. ASSUME r.ok PROVE r.items[1] # NULL
  <2>1. r.items[1].type # "NULL pointer"
    BY <1>2 DEF parse_value, Leaf, OpenList, Built, Failed, New_Item, ParseString, ParseNumber
  <2>2. QED BY <2>1 DEF NULL, New_Item
<1>3. QED BY <1>1, <1>2 DEF Parse

-----------------------------------------------------------------------------
(***************************************************************************)
(* Printing.  An object of numbers is printed as four tokens a member, and *)
(* the parser makes the same object of them.                               *)
(***************************************************************************)

\* The tokens that are no word.
Opening == Token("{")
Colon   == Token(":")
Comma   == Token(",")
Closing == Token("}")

\* What JoinComma has written after n texts, from what it had written before.
Joined(before, texts, n) ==
  IF n = 1 THEN texts[1] ELSE before \o <<Comma>> \o texts[n]
JoinSteps(texts) ==
  CHOOSE g : g = [n \in 0..Len(texts) |->
                    IF n = 0 THEN <<>>
                    ELSE IF n = 1 THEN texts[1]
                    ELSE g[n - 1] \o <<Token(",")>> \o texts[n]]

LEMMA JoinLoop ==
  ASSUME NEW texts, Len(texts) \in Nat
  PROVE  /\ JoinSteps(texts)[0] = <<>>
         /\ \A n \in 1..Len(texts) : JoinSteps(texts)[n] = Joined(JoinSteps(texts)[n - 1], texts, n)
         /\ JoinComma(texts) = JoinSteps(texts)[Len(texts)]
<1> DEFINE N == Len(texts)
           Next1(g, n) == IF n = 0 THEN <<>> ELSE Joined(g[n - 1], texts, n)
           Good(g, k) == \A n \in 0..k : g[n] = Next1(g, n)
           K == {k \in 0..N : \E g : Good(g, k)}
<1>0. N \in Nat
  OBVIOUS
<1>1. 0 \in K
  <2> DEFINE g == [n \in {0} |-> <<>>]
  <2>1. Good(g, 0)
    OBVIOUS
  <2> HIDE DEF Good
  <2>2. QED BY <2>1
<1>2. ASSUME NEW k \in 1..N, k - 1 \in K PROVE k \in K
  <2>1. PICK g : Good(g, k - 1)
    BY <1>2
  <2> DEFINE h == [n \in 0..k |-> IF n = k THEN Joined(g[k - 1], texts, k) ELSE g[n]]
  <2>2. ASSUME NEW n \in 0..k PROVE h[n] = Next1(h, n)
    <3>1. CASE n = 0
      BY <2>1, <3>1
    <3>2. CASE n \in 1..(k - 1)
      <4>1. n - 1 \in 0..k /\ n # k /\ n - 1 # k /\ n # 0 /\ n \in 0..(k - 1)
        BY <3>2
      <4>2. h[n] = g[n] /\ h[n - 1] = g[n - 1]
        BY <4>1
      <4>3. g[n] = Joined(g[n - 1], texts, n)
        BY <2>1, <4>1
      <4> HIDE DEF h
      <4>4. QED BY <4>1, <4>2, <4>3
    <3>3. CASE n = k
      <4>1. k - 1 \in 0..k /\ k - 1 # k /\ k # 0 /\ k \in 0..k
        OBVIOUS
      <4>2. h[k - 1] = g[k - 1] /\ h[k] = Joined(g[k - 1], texts, k)
        BY <4>1
      <4> HIDE DEF h
      <4>3. QED BY <3>3, <4>1, <4>2
    <3>4. QED BY <3>1, <3>2, <3>3
  <2> HIDE DEF h
  <2>3. Good(h, k)
    BY <2>2
  <2> HIDE DEF Good
  <2>4. QED BY <2>3
<1>3. N \in K
  <2> HIDE DEF K, N
  <2>1. N \in 0..N
    BY <1>0
  <2>2. QED BY <1>0, <1>1, <1>2, <2>1, UpTo
<1>4. \E g : g = [n \in 0..N |-> Next1(g, n)]
  <2>1. PICK g : Good(g, N)
    BY <1>3
  <2> DEFINE h == [n \in 0..N |-> g[n]]
  <2>2. ASSUME NEW n \in 0..N PROVE h[n] = Next1(h, n)
    <3>1. n # 0 => n - 1 \in 0..N
      BY <1>0
    <3>2. h[n] = g[n] /\ (n # 0 => h[n - 1] = g[n - 1])
      BY <3>1
    <3>3. g[n] = Next1(g, n)
      BY <2>1
    <3> HIDE DEF h
    <3>4. QED BY <3>2, <3>3
  <2>3. h = [n \in 0..N |-> h[n]]
    OBVIOUS
  <2> HIDE DEF h, N
  <2>4. h = [n \in 0..N |-> Next1(h, n)]
    BY <2>2, <2>3
  <2>5. QED BY <2>4
<1> DEFINE after == JoinSteps(texts)
<1>5. after = [n \in 0..N |-> Next1(after, n)]
  BY <1>4, Zenon DEF JoinSteps, Joined, Comma
<1>6. JoinComma(texts) = after[N]
  BY Zenon DEF JoinComma, JoinSteps
<1> HIDE DEF after
<1>7. \A n \in 0..N : after[n] = Next1(after, n)
  BY <1>5
<1>8. \A n \in 1..N : n \in 0..N /\ n # 0
  BY <1>0
<1>9. QED BY <1>0, <1>6, <1>7, <1>8 DEF after

\* Texts of three tokens: where the tokens are when they are joined.
JoinedThrees(texts, j, n) ==
  /\ Len(j) = 4 * n - 1
  /\ \A m \in 1..n : /\ j[4 * m - 3] = texts[m][1]
                     /\ j[4 * m - 2] = texts[m][2]
                     /\ j[4 * m - 1] = texts[m][3]
  /\ \A m \in 1..(n - 1) : j[4 * m] = Comma

LEMMA JoinsThrees ==
  ASSUME NEW U, Comma \in U, NEW texts, Len(texts) \in Nat \ {0},
         \A m \in 1..Len(texts) : texts[m] \in Seq(U) /\ Len(texts[m]) = 3
  PROVE  JoinComma(texts) \in Seq(U) /\ JoinedThrees(texts, JoinComma(texts), Len(texts))
<1> DEFINE N == Len(texts)
           J == JoinSteps(texts)
           S == {n \in 0..N : n # 0 => J[n] \in Seq(U) /\ JoinedThrees(texts, J[n], n)}
<1>1. N \in Nat /\ N # 0 /\ \A m \in 1..N : texts[m] \in Seq(U) /\ Len(texts[m]) = 3
  OBVIOUS
<1>2. JoinComma(texts) = J[N] /\ \A n \in 1..N : J[n] = Joined(J[n - 1], texts, n)
  BY <1>1, JoinLoop
<1> HIDE DEF J, N
<1>3. 0 \in S
  BY <1>1
<1>4. ASSUME NEW n \in 1..N, n - 1 \in S PROVE n \in S
  <2>1. J[n] = Joined(J[n - 1], texts, n) /\ n \in 0..N
    BY <1>1, <1>2
  <2>2. CASE n = 1
    <3>1. J[n] = texts[1] /\ texts[1] \in Seq(U) /\ Len(texts[1]) = 3
      BY <1>1, <2>1, <2>2 DEF Joined
    <3>2. JoinedThrees(texts, J[n], n)
      <4>1. \A m \in 1..n : m = 1
        BY <2>2
      <4>2. 1..(n - 1) = {}
        BY <2>2
      <4>3. QED BY <2>2, <3>1, <4>1, <4>2 DEF JoinedThrees
    <3>3. QED BY <2>1, <3>1, <3>2
  <2>3. CASE n # 1
    <3> DEFINE b == J[n - 1]
               t == texts[n]
    <3>1. n - 1 \in 1..N /\ n - 1 # 0
      BY <1>1, <2>3
    <3>2. b \in Seq(U) /\ JoinedThrees(texts, b, n - 1)
      BY <1>4, <3>1
    <3>3. t \in Seq(U) /\ Len(t) = 3
      BY <1>1
    <3>4. J[n] = b \o <<Comma>> \o t
      BY <2>1, <2>3 DEF Joined
    <3> HIDE DEF b, t
    <3>5. Len(b) = 4 * (n - 1) - 1
      BY <3>2 DEF JoinedThrees
    <3> DEFINE c == b \o <<Comma>>
    <3>6. /\ c \in Seq(U) /\ Len(c) = 4 * (n - 1)
          /\ \A i \in 1..Len(b) : c[i] = b[i]
          /\ c[4 * (n - 1)] = Comma
      <4>1. <<Comma>> \in Seq(U) /\ Len(<<Comma>>) = 1
        OBVIOUS
      <4>2. /\ c \in Seq(U) /\ Len(c) = Len(b) + 1
            /\ \A i \in 1..(Len(b) + 1) :
                 c[i] = IF i <= Len(b) THEN b[i] ELSE <<Comma>>[i - Len(b)]
        BY <3>2, <4>1, ConcatProperties
      <4> HIDE DEF c
      <4>3. Len(b) \in Nat
        BY <3>2, LenProperties
      <4>4. c[Len(b) + 1] = Comma
        BY <4>2, <4>3
      <4>5. QED BY <1>1, <3>5, <4>2, <4>3, <4>4
    <3> HIDE DEF c
    <3>7. /\ J[n] \in Seq(U) /\ Len(J[n]) = 4 * n - 1
          /\ \A i \in 1..(4 * (n - 1)) : J[n][i] = c[i]
          /\ J[n][4 * n - 3] = t[1] /\ J[n][4 * n - 2] = t[2] /\ J[n][4 * n - 1] = t[3]
      <4>1. J[n] = c \o t
        BY <3>4 DEF c
      <4>2. /\ c \o t \in Seq(U) /\ Len(c \o t) = Len(c) + 3
            /\ \A i \in 1..(Len(c) + 3) :
                 (c \o t)[i] = IF i <= Len(c) THEN c[i] ELSE t[i - Len(c)]
        <5>1. /\ c \o t \in Seq(U) /\ Len(c \o t) = Len(c) + Len(t)
              /\ \A i \in 1..(Len(c) + Len(t)) :
                   (c \o t)[i] = IF i <= Len(c) THEN c[i] ELSE t[i - Len(c)]
          BY <3>3, <3>6, ConcatProperties
        <5>2. QED BY <3>3, <5>1
      <4>3. /\ 4 * n - 3 = Len(c) + 1 /\ 4 * n - 2 = Len(c) + 2 /\ 4 * n - 1 = Len(c) + 3
            /\ Len(c) \in Nat
        BY <3>1, <3>6
      <4>4. \A i \in 1..Len(c) : J[n][i] = c[i]
        BY <4>1, <4>2, <4>3
      <4>5. J[n][Len(c) + 1] = t[1] /\ J[n][Len(c) + 2] = t[2] /\ J[n][Len(c) + 3] = t[3]
        BY <4>1, <4>2, <4>3
      <4>6. QED BY <3>6, <4>1, <4>2, <4>3, <4>4, <4>5
    <3>8. JoinedThrees(texts, J[n], n)
      <4>1. \A m \in 1..(n - 1) : /\ J[n][4 * m - 3] = texts[m][1]
                                  /\ J[n][4 * m - 2] = texts[m][2]
                                  /\ J[n][4 * m - 1] = texts[m][3]
        <5> SUFFICES ASSUME NEW m \in 1..(n - 1)
                     PROVE  /\ J[n][4 * m - 3] = texts[m][1]
                            /\ J[n][4 * m - 2] = texts[m][2]
                            /\ J[n][4 * m - 1] = texts[m][3]
          OBVIOUS
        <5>1. {4 * m - 3, 4 * m - 2, 4 * m - 1} \subseteq 1..Len(b)
          BY <3>1, <3>5
        <5>2. {4 * m - 3, 4 * m - 2, 4 * m - 1} \subseteq 1..(4 * (n - 1))
          BY <3>1
        <5>3. \A i \in {4 * m - 3, 4 * m - 2, 4 * m - 1} : J[n][i] = b[i]
          BY <3>6, <3>7, <5>1, <5>2
        <5>4. b[4 * m - 3] = texts[m][1] /\ b[4 * m - 2] = texts[m][2] /\ b[4 * m - 1] = texts[m][3]
          BY <3>2 DEF JoinedThrees
        <5>5. QED BY <5>3, <5>4
      <4>2. /\ J[n][4 * n - 3] = texts[n][1]
            /\ J[n][4 * n - 2] = texts[n][2]
            /\ J[n][4 * n - 1] = texts[n][3]
        BY <3>7 DEF t
      <4>3. ASSUME NEW m \in 1..((n - 1) - 1) PROVE J[n][4 * m] = Comma
        <5>1. 4 * m \in 1..Len(b) /\ 4 * m \in 1..(4 * (n - 1))
          BY <3>1, <3>5
        <5>2. b[4 * m] = Comma
          BY <3>2 DEF JoinedThrees
        <5>3. QED BY <3>6, <3>7, <5>1, <5>2
      <4>4. J[n][4 * (n - 1)] = Comma
        <5>1. 4 * (n - 1) \in 1..(4 * (n - 1))
          BY <3>1
        <5>2. QED BY <3>6, <3>7, <5>1
      <4>5. /\ \A m \in 1..n : m = n \/ m \in 1..(n - 1)
            /\ \A m \in 1..(n - 1) : m = n - 1 \/ m \in 1..((n - 1) - 1)
        BY <3>1
      <4>6. QED BY <3>7, <4>1, <4>2, <4>3, <4>4, <4>5 DEF JoinedThrees
    <3>9. QED BY <2>1, <3>7, <3>8
  <2>4. QED BY <2>2, <2>3
<1>5. N \in S
  <2> HIDE DEF S
  <2>1. N \in 0..N
    BY <1>1
  <2>2. QED BY <1>1, <1>3, <1>4, <2>1, UpTo
<1>6. QED BY <1>1, <1>2, <1>5 DEF N

\* A member of an object of numbers, those from the j-th on, and the object.
NumberItem(m)       == [CreateNumber(m[2]) EXCEPT !.string = <<m[1]>>]
NumbersFrom(ms, j)  == [i \in 1..(Len(ms) - j + 1) |-> NumberItem(ms[i + j - 1])]
NumbersObject(ms)   == [CreateObject EXCEPT !.child = NumbersFrom(ms, 1)]

\* The text of such an object: four tokens a member.
NumbersText(ms, t) ==
  /\ Len(t) = 4 * Len(ms) + 1 /\ t[1] = Opening /\ t[4 * Len(ms) + 1] = Closing
  /\ \A m \in 1..Len(ms) : /\ t[4 * m - 2] = StrToken(<<ms[m][1]>>)
                           /\ t[4 * m - 1] = Colon
                           /\ t[4 * m] = NumToken(ms[m][2])
  /\ \A m \in 1..(Len(ms) - 1) : t[4 * m + 1] = Comma

\* The item of a number.
LEMMA NumberItemIs ==
  ASSUME NEW m
  PROVE  /\ NumberItem(m).type = "Number" /\ NumberItem(m).string = <<m[1]>>
         /\ NumberItem(m).valuedouble = m[2]
  BY DEF NumberItem, CreateNumber, New_Item

\* Short sequences put together.
LEMMA Brackets ==
  ASSUME NEW a, NEW b
  PROVE  <<a>> \o <<>> \o <<b>> = <<a, b>>
<1> DEFINE V == {a, b}
           x == <<a>>
           y == <<b>>
<1>1. x \in Seq(V) /\ y \in Seq(V) /\ <<a, b>> \in Seq(V)
  OBVIOUS
<1>2. Len(x) = 1 /\ Len(y) = 1 /\ x[1] = a /\ y[1] = b
  OBVIOUS
<1> HIDE DEF x, y, V
<1>3. x \o <<>> = x
  BY <1>1, ConcatEmptySeq
<1>4. /\ x \o y \in Seq(V) /\ Len(x \o y) = Len(x) + Len(y)
      /\ \A k \in 1..(Len(x) + Len(y)) : (x \o y)[k] = IF k <= Len(x) THEN x[k] ELSE y[k - Len(x)]
  BY <1>1, ConcatProperties
<1>5. Len(x \o y) = 2 /\ (x \o y)[1] = a /\ (x \o y)[2] = b
  BY <1>2, <1>4
<1>6. Len(<<a, b>>) = 2 /\ \A k \in 1..2 : <<a, b>>[k] = (x \o y)[k]
  BY <1>5
<1>7. x \o y = <<a, b>>
  BY <1>1, <1>4, <1>5, <1>6, SeqEqual
<1>8. QED BY <1>3, <1>7 DEF x, y

\* The texts of the members.
MemberTexts(ms) ==
  [m \in 1..Len(ms) |-> <<StrToken(<<ms[m][1]>>), Colon, NumToken(ms[m][2])>>]

LEMMA PrintsMembers ==
  ASSUME NEW ms, Len(ms) \in Nat
  PROVE  PrintUnformatted(NumbersObject(ms)) = <<Opening>> \o JoinComma(MemberTexts(ms)) \o <<Closing>>
<1> DEFINE c == NumbersFrom(ms, 1)
           members == [i \in DOMAIN c |-> <<c[i].string[1], PrintValue(c[i])>>]
<1>1. NumbersObject(ms).child = c
  BY DEF NumbersObject, CreateObject, New_Item
<1>2. DOMAIN c = 1..Len(ms) /\ \A i \in 1..Len(ms) : c[i] = NumberItem(ms[i])
  <2>1. Len(ms) - 1 + 1 = Len(ms) /\ \A i \in 1..Len(ms) : i + 1 - 1 = i
    OBVIOUS
  <2>2. QED BY <2>1 DEF NumbersFrom
<1> HIDE DEF c
<1>3. \A i \in 1..Len(ms) : c[i].string[1] = ms[i][1] /\ PrintValue(c[i]) = <<NumToken(ms[i][2])>>
  <2> SUFFICES ASSUME NEW i \in 1..Len(ms)
               PROVE  c[i].string[1] = ms[i][1] /\ PrintValue(c[i]) = <<NumToken(ms[i][2])>>
    OBVIOUS
  <2>1. c[i].type = "Number" /\ c[i].string = <<ms[i][1]>> /\ c[i].valuedouble = ms[i][2]
    BY <1>2, NumberItemIs
  <2>2. PrintValue(c[i]) = Num(c[i].valuedouble)
    BY <2>1 DEF PrintValue
  <2>3. QED BY <2>1, <2>2 DEF Num
<1>4. members = [i \in 1..Len(ms) |-> <<ms[i][1], <<NumToken(ms[i][2])>>>>]
  BY <1>2, <1>3
<1>5. PrintUnformatted(NumbersObject(ms)) = Obj(members)
  BY <1>1, Zenon DEF PrintUnformatted
<1> HIDE DEF members
<1> DEFINE texts == [i \in DOMAIN members |-> <<StrToken(<<members[i][1]>>), Colon>> \o members[i][2]]
<1>6. Obj(members) = <<Opening>> \o JoinComma(texts) \o <<Closing>>
  BY Zenon DEF Obj, Opening, Colon, Closing
<1>7. texts = MemberTexts(ms)
  <2>1. DOMAIN members = 1..Len(ms)
    BY <1>4
  <2>2. ASSUME NEW i \in 1..Len(ms)
        PROVE  <<StrToken(<<members[i][1]>>), Colon>> \o members[i][2]
                 = <<StrToken(<<ms[i][1]>>), Colon, NumToken(ms[i][2])>>
    <3>1. members[i][1] = ms[i][1] /\ members[i][2] = <<NumToken(ms[i][2])>>
      BY <1>4
    <3>2. \A a, b, d : <<a, b>> \o <<d>> = <<a, b, d>>
      <4> TAKE a, b, d
      <4> DEFINE V == {a, b, d}
                 x == <<a, b>>
                 y == <<d>>
      <4>1. x \in Seq(V) /\ y \in Seq(V) /\ <<a, b, d>> \in Seq(V)
        OBVIOUS
      <4>2. Len(x) = 2 /\ Len(y) = 1 /\ x[1] = a /\ x[2] = b /\ y[1] = d
        OBVIOUS
      <4> HIDE DEF x, y, V
      <4>3. /\ x \o y \in Seq(V) /\ Len(x \o y) = Len(x) + Len(y)
            /\ \A k \in 1..(Len(x) + Len(y)) : (x \o y)[k] = IF k <= Len(x) THEN x[k] ELSE y[k - Len(x)]
        BY <4>1, ConcatProperties
      <4>4. Len(x \o y) = 3 /\ (x \o y)[1] = a /\ (x \o y)[2] = b /\ (x \o y)[3] = d
        BY <4>2, <4>3
      <4>5. Len(<<a, b, d>>) = 3 /\ \A k \in 1..3 : <<a, b, d>>[k] = (x \o y)[k]
        BY <4>4
      <4>6. x \o y = <<a, b, d>>
        BY <4>1, <4>3, <4>4, <4>5, SeqEqual
      <4>7. QED BY <4>6 DEF x, y
    <3>3. QED BY <3>1, <3>2
  <2>3. QED BY <2>1, <2>2 DEF MemberTexts
<1>8. QED BY <1>5, <1>6, <1>7

\* What is printed of an object that is not empty.
LEMMA PrintsNumbers ==
  ASSUME NEW ms, Len(ms) \in Nat \ {0}
  PROVE  NumbersText(ms, PrintUnformatted(NumbersObject(ms)))
<1> DEFINE U == {Opening, Closing, Comma, Colon}
                \cup {StrToken(<<ms[m][1]>>) : m \in 1..Len(ms)}
                \cup {NumToken(ms[m][2]) : m \in 1..Len(ms)}
           n == Len(ms)
           texts == MemberTexts(ms)
           J == JoinComma(texts)
           t == <<Opening>> \o J \o <<Closing>>
<1>1. /\ Len(texts) = n
      /\ \A m \in 1..n : /\ texts[m] = <<StrToken(<<ms[m][1]>>), Colon, NumToken(ms[m][2])>>
                         /\ {StrToken(<<ms[m][1]>>), Colon, NumToken(ms[m][2])} \subseteq U
  <2>1. DOMAIN texts = 1..n /\ \A m \in 1..n : texts[m] = <<StrToken(<<ms[m][1]>>), Colon, NumToken(ms[m][2])>>
    BY DEF MemberTexts
  <2>2. Len(texts) = n
    BY DEF MemberTexts
  <2>3. QED BY <2>1, <2>2
<1>2. {Opening, Closing, Comma} \subseteq U
  OBVIOUS
<1> HIDE DEF U, texts
<1>3. \A m \in 1..n : texts[m] \in Seq(U) /\ Len(texts[m]) = 3
  <2> SUFFICES ASSUME NEW m \in 1..n PROVE texts[m] \in Seq(U) /\ Len(texts[m]) = 3
    OBVIOUS
  <2> DEFINE a == StrToken(<<ms[m][1]>>)
             d == NumToken(ms[m][2])
  <2>1. texts[m] = <<a, Colon, d>> /\ a \in U /\ Colon \in U /\ d \in U
    BY <1>1
  <2> HIDE DEF a, d
  <2>2. QED BY <2>1
<1>4. J \in Seq(U) /\ JoinedThrees(texts, J, n)
  BY <1>1, <1>2, <1>3, JoinsThrees
<1> HIDE DEF J
<1>5. Len(J) = 4 * n - 1
  BY <1>4 DEF JoinedThrees
<1>6. /\ Len(t) = 4 * n + 1 /\ t[1] = Opening /\ t[4 * n + 1] = Closing
      /\ \A i \in 1..(4 * n - 1) : t[i + 1] = J[i]
  <2> DEFINE c == <<Opening>> \o J
  <2>1. <<Opening>> \in Seq(U) /\ Len(<<Opening>>) = 1 /\ <<Closing>> \in Seq(U) /\ Len(<<Closing>>) = 1
    BY <1>2
  <2>2. /\ c \in Seq(U) /\ Len(c) = 1 + Len(J)
        /\ \A i \in 1..(1 + Len(J)) : c[i] = IF i <= 1 THEN <<Opening>>[i] ELSE J[i - 1]
    <3>1. /\ c \in Seq(U) /\ Len(c) = Len(<<Opening>>) + Len(J)
          /\ \A i \in 1..(Len(<<Opening>>) + Len(J)) :
               c[i] = IF i <= Len(<<Opening>>) THEN <<Opening>>[i] ELSE J[i - Len(<<Opening>>)]
      BY <1>4, <2>1, ConcatProperties
    <3> HIDE DEF c
    <3>2. QED BY <2>1, <3>1
  <2> HIDE DEF c
  <2>3. Len(c) = 4 * n /\ c[1] = Opening /\ \A i \in 1..(4 * n - 1) : c[i + 1] = J[i]
    <3>1. Len(c) = 4 * n
      BY <1>5, <2>2
    <3>2. c[1] = Opening
      BY <1>5, <2>2
    <3>3. \A i \in 1..(4 * n - 1) : i + 1 \in 1..(1 + Len(J)) /\ ~(i + 1 <= 1) /\ (i + 1) - 1 = i
      BY <1>5
    <3>4. QED BY <2>2, <3>1, <3>2, <3>3
  <2>4. /\ Len(c \o <<Closing>>) = Len(c) + 1
        /\ \A i \in 1..(Len(c) + 1) :
             (c \o <<Closing>>)[i] = IF i <= Len(c) THEN c[i] ELSE <<Closing>>[i - Len(c)]
    <3>1. /\ Len(c \o <<Closing>>) = Len(c) + Len(<<Closing>>)
          /\ \A i \in 1..(Len(c) + Len(<<Closing>>)) :
               (c \o <<Closing>>)[i] = IF i <= Len(c) THEN c[i] ELSE <<Closing>>[i - Len(c)]
      BY <2>1, <2>2, ConcatProperties
    <3>2. QED BY <2>1, <3>1
  <2>5. t = c \o <<Closing>>
    BY DEF c
  <2> HIDE DEF t
  <2>6. Len(t) = 4 * n + 1
    BY <2>3, <2>4, <2>5
  <2>7. \A i \in 1..(4 * n) : t[i] = c[i]
    BY <2>3, <2>4, <2>5
  <2>8. t[4 * n + 1] = Closing
    BY <2>3, <2>4, <2>5
  <2>9. 1 \in 1..(4 * n) /\ \A i \in 1..(4 * n - 1) : i + 1 \in 1..(4 * n)
    OBVIOUS
  <2>10. QED BY <2>3, <2>6, <2>7, <2>8, <2>9
<1> HIDE DEF t
<1>7. \A m \in 1..n : /\ t[4 * m - 2] = StrToken(<<ms[m][1]>>)
                      /\ t[4 * m - 1] = Colon
                      /\ t[4 * m] = NumToken(ms[m][2])
  <2> SUFFICES ASSUME NEW m \in 1..n
               PROVE  /\ t[4 * m - 2] = StrToken(<<ms[m][1]>>)
                      /\ t[4 * m - 1] = Colon
                      /\ t[4 * m] = NumToken(ms[m][2])
    OBVIOUS
  <2>1. /\ {4 * m - 3, 4 * m - 2, 4 * m - 1} \subseteq 1..(4 * n - 1)
        /\ 4 * m - 3 + 1 = 4 * m - 2 /\ 4 * m - 2 + 1 = 4 * m - 1 /\ 4 * m - 1 + 1 = 4 * m
    OBVIOUS
  <2>2. J[4 * m - 3] = texts[m][1] /\ J[4 * m - 2] = texts[m][2] /\ J[4 * m - 1] = texts[m][3]
    BY <1>4 DEF JoinedThrees
  <2>3. t[4 * m - 2] = texts[m][1] /\ t[4 * m - 1] = texts[m][2] /\ t[4 * m] = texts[m][3]
    BY <1>6, <2>1, <2>2
  <2>4. QED BY <1>1, <2>3
<1>8. \A m \in 1..(n - 1) : t[4 * m + 1] = Comma
  <2> SUFFICES ASSUME NEW m \in 1..(n - 1) PROVE t[4 * m + 1] = Comma
    OBVIOUS
  <2>1. 4 * m \in 1..(4 * n - 1)
    OBVIOUS
  <2>2. J[4 * m] = Comma
    BY <1>4 DEF JoinedThrees
  <2>3. QED BY <1>6, <2>1, <2>2
<1>9. PrintUnformatted(NumbersObject(ms)) = t
  BY PrintsMembers DEF t, J, texts
<1>10. QED BY <1>6, <1>7, <1>8, <1>9 DEF NumbersText

\* A number parses to its item; the item of a list is the last if the bracket
\* follows, and one of several if a comma does.
LEMMA ParsesNumber ==
  ASSUME NEW text, NEW g, NEW i, NEW d, NEW v, At(text, i) = NumToken(v)
  PROVE  parse_value(text, g, i, d) = Built(i + 1, <<CreateNumber(v)>>)
<1>1. At(text, i).k = "number" /\ At(text, i).n = v
  BY DEF NumToken
<1>2. parse_value(text, g, i, d) = Leaf(i, ParseNumber(At(text, i)))
  BY <1>1, Zenon DEF parse_value
<1>3. QED BY <1>1, <1>2, Zenon DEF Leaf, ParseNumber, CreateNumber

LEMMA TokenKind ==
  ASSUME NEW k
  PROVE  Token(k).k = k
  BY DEF Token

\* What follows a member of an object.
AfterMember(text, g, item, j, d) == RestOfList(text, g, item, j, d, "members", "}")

LEMMA ParsesLast ==
  ASSUME NEW text, NEW g, NEW item, NEW j, NEW d, At(text, j) = Closing
  PROVE  AfterMember(text, g, item, j, d) = Built(j + 1, <<item>>)
<1>1. At(text, j).k = "}"
  BY TokenKind, Zenon DEF Closing
<1>2. QED BY <1>1, Zenon DEF AfterMember, RestOfList, EndsList

LEMMA ParsesMore ==
  ASSUME NEW text, NEW g, NEW item, NEW j, NEW d, At(text, j) = Comma,
         NEW at, NEW items, g[Place("members", j + 1, d)] = Built(at, items)
  PROVE  AfterMember(text, g, item, j, d) = Built(at, <<item>> \o items)
<1>1. At(text, j).k = "," /\ "," # "}"
  BY TokenKind, Zenon DEF Comma
<1> DEFINE r == g[Place("members", j + 1, d)]
<1>2. r.ok /\ r.at = at /\ r.items = items
  BY DEF Built
<1> HIDE DEF r
<1>3. AfterMember(text, g, item, j, d) = IF r.ok THEN Built(r.at, <<item>> \o r.items) ELSE Failed
  BY <1>1, Zenon DEF AfterMember, RestOfList, EndsList, r
<1>4. QED BY <1>2, <1>3

\* A member and what follows it.
LEMMA ParsesMember ==
  ASSUME NEW text, NEW g, NEW i, NEW d, NEW m,
         At(text, i) = StrToken(<<m[1]>>), At(text, i + 1) = Colon,
         g[Place("value", i + 2, d)] = Built(i + 3, <<CreateNumber(m[2])>>)
  PROVE  parse_object(text, g, i, d) = AfterMember(text, g, NumberItem(m), i + 3, d)
<1>1. At(text, i).k = "string" /\ At(text, i).s = <<m[1]>>
  BY DEF StrToken
<1>2. At(text, i + 1).k = ":"
  BY TokenKind, Zenon DEF Colon
<1> DEFINE value == g[Place("value", i + 2, d)]
<1>3. value.ok /\ value.at = i + 3 /\ value.items[1] = CreateNumber(m[2])
  BY DEF Built
<1> HIDE DEF value
<1>4. parse_object(text, g, i, d) =
        AfterMember(text, g, [value.items[1] EXCEPT !.string = At(text, i).s], value.at, d)
  BY <1>1, <1>2, <1>3, Zenon DEF parse_object, AfterMember, value
<1>5. [value.items[1] EXCEPT !.string = At(text, i).s] = NumberItem(m)
  BY <1>1, <1>3 DEF NumberItem
<1>6. QED BY <1>3, <1>4, <1>5, Zenon

\* The bracket that opens an object, and the object.
LEMMA ParsesObject ==
  ASSUME NEW text, NEW g, At(text, 1) = Opening
  PROVE  /\ At(text, 2) = Closing => parse_value(text, g, 1, 0) = Built(3, <<CreateObject>>)
         /\ \A s, at, items :
              At(text, 2) = StrToken(s) /\ g[Place("members", 2, 1)] = Built(at, items) =>
                parse_value(text, g, 1, 0) = Built(at, <<[CreateObject EXCEPT !.child = items]>>)
<1>1. At(text, 1).k = "{"
  BY TokenKind, Zenon DEF Opening
<1>2. parse_value(text, g, 1, 0) = OpenList(text, g, 1, 0, "Object", "members", "}")
  BY <1>1, Zenon DEF parse_value
<1>3. ~(0 >= NestingLimit) /\ 1 + 1 = 2 /\ 1 + 2 = 3 /\ 0 + 1 = 1
  BY JsonAssumption
<1>4. ASSUME At(text, 2) = Closing PROVE parse_value(text, g, 1, 0) = Built(3, <<CreateObject>>)
  <2>1. At(text, 2).k = "}"
    BY <1>4, TokenKind, Zenon DEF Closing
  <2>2. QED BY <1>2, <1>3, <2>1, Zenon DEF OpenList, CreateObject
<1>5. ASSUME NEW s, NEW at, NEW items, At(text, 2) = StrToken(s),
             g[Place("members", 2, 1)] = Built(at, items)
      PROVE  parse_value(text, g, 1, 0) = Built(at, <<[CreateObject EXCEPT !.child = items]>>)
  <2>1. At(text, 2).k = "string"
    BY <1>5 DEF StrToken
  <2>2. "string" # "}"
    BY Zenon
  <2> DEFINE r == g[Place("members", 2, 1)]
  <2>3. r.ok /\ r.at = at /\ r.items = items
    BY <1>5 DEF Built
  <2> HIDE DEF r
  <2>4. parse_value(text, g, 1, 0) =
          IF r.ok THEN Built(r.at, <<[New_Item EXCEPT !.type = "Object", !.child = r.items]>>) ELSE Failed
    BY <1>2, <1>3, <2>1, <2>2, Zenon DEF OpenList, r
  <2>5. [New_Item EXCEPT !.type = "Object", !.child = items] = [CreateObject EXCEPT !.child = items]
    BY DEF CreateObject, New_Item
  <2>6. QED BY <2>3, <2>4, <2>5
<1>6. QED BY <1>4, <1>5

\* The members from the j-th on are the j-th and those from the next on.
LEMMA NumbersGoOn ==
  ASSUME NEW ms, Len(ms) \in Nat, NEW j \in 1..Len(ms)
  PROVE  NumbersFrom(ms, j) =
           IF j = Len(ms) THEN <<NumberItem(ms[j])>> ELSE <<NumberItem(ms[j])>> \o NumbersFrom(ms, j + 1)
<1> DEFINE n == Len(ms)
           V == {NumberItem(ms[i]) : i \in 1..n}
           a == NumbersFrom(ms, j)
           b == NumbersFrom(ms, j + 1)
           x == <<NumberItem(ms[j])>>
<1>1. NumberItem(ms[j]) \in V /\ x \in Seq(V) /\ Len(x) = 1 /\ x[1] = NumberItem(ms[j])
  OBVIOUS
<1>2. a \in Seq(V) /\ Len(a) = n - j + 1 /\ \A i \in 1..(n - j + 1) : a[i] = NumberItem(ms[i + j - 1])
  <2>1. n - j + 1 \in Nat /\ \A i \in 1..(n - j + 1) : i + j - 1 \in 1..n
    OBVIOUS
  <2>2. a = [i \in 1..(n - j + 1) |-> NumberItem(ms[i + j - 1])]
    BY DEF NumbersFrom
  <2> HIDE DEF a
  <2>3. \A i \in 1..(n - j + 1) : NumberItem(ms[i + j - 1]) \in V
    BY <2>1
  <2> HIDE DEF V
  <2>4. a \in [1..(n - j + 1) -> V]
    BY <2>2, <2>3
  <2>5. a \in Seq(V) /\ Len(a) = n - j + 1
    BY <2>1, <2>4
  <2>6. QED BY <2>2, <2>5
<1>3. b \in Seq(V) /\ Len(b) = n - j /\ \A i \in 1..(n - j) : b[i] = NumberItem(ms[i + j])
  <2>1. /\ n - (j + 1) + 1 = n - j /\ n - j \in Nat
        /\ \A i \in 1..(n - j) : i + j \in 1..n /\ i + (j + 1) - 1 = i + j
    OBVIOUS
  <2>2. b = [i \in 1..(n - j) |-> NumberItem(ms[i + j])]
    BY <2>1 DEF NumbersFrom
  <2> HIDE DEF b
  <2>3. \A i \in 1..(n - j) : NumberItem(ms[i + j]) \in V
    BY <2>1
  <2> HIDE DEF V
  <2>4. b \in [1..(n - j) -> V]
    BY <2>2, <2>3
  <2>5. b \in Seq(V) /\ Len(b) = n - j
    <3> DEFINE L == n - j
    <3>1. L \in Nat /\ b \in [1..L -> V]
      BY <2>1, <2>4
    <3> HIDE DEF L
    <3>2. b \in Seq(V) /\ Len(b) = L
      BY <3>1
    <3>3. QED BY <3>2 DEF L
  <2>6. QED BY <2>2, <2>5
<1> HIDE DEF a, b, V, x
<1>4. CASE j = n
  <2>1. Len(a) = 1 /\ a[1] = x[1]
    <3>1. n - j + 1 = 1 /\ 1 \in 1..(n - j + 1) /\ 1 + j - 1 = j
      BY <1>4
    <3>2. QED BY <1>1, <1>2, <3>1
  <2>2. a = x
    BY <1>1, <1>2, <2>1, SeqEqual
  <2>3. QED BY <1>4, <2>2 DEF a, x
<1>5. CASE j # n
  <2>1. /\ x \o b \in Seq(V) /\ Len(x \o b) = Len(x) + Len(b)
        /\ \A i \in 1..(Len(x) + Len(b)) : (x \o b)[i] = IF i <= Len(x) THEN x[i] ELSE b[i - Len(x)]
    BY <1>1, <1>3, ConcatProperties
  <2>2. /\ Len(x \o b) = n - j + 1
        /\ \A i \in 1..(n - j + 1) : (x \o b)[i] = IF i <= 1 THEN x[i] ELSE b[i - 1]
    <3>1. 1 + (n - j) = n - j + 1
      OBVIOUS
    <3>2. QED BY <1>1, <1>3, <2>1, <3>1
  <2>3. ASSUME NEW i \in 1..(n - j + 1) PROVE (x \o b)[i] = a[i]
    <3>1. CASE i = 1
      <4>1. i + j - 1 = j
        BY <3>1
      <4>2. QED BY <1>1, <1>2, <2>2, <3>1, <4>1
    <3>2. CASE i # 1
      <4>1. ~(i <= 1) /\ i - 1 \in 1..(n - j) /\ (i - 1) + j = i + j - 1
        BY <3>2
      <4>2. b[i - 1] = NumberItem(ms[(i - 1) + j])
        BY <1>3, <4>1
      <4>3. QED BY <1>2, <2>2, <4>1, <4>2
    <3>3. QED BY <3>1, <3>2
  <2>4. x \o b = a
    BY <1>2, <2>1, <2>2, <2>3, SeqEqual
  <2>5. QED BY <1>5, <2>4 DEF a, b, x
<1>6. QED BY <1>4, <1>5

\* What the parser makes of the text of an object of numbers, from its j-th
\* member on.
LEMMA ParsesNumbers ==
  ASSUME NEW ms, Len(ms) \in Nat \ {0}, NEW text, NumbersText(ms, text)
  PROVE  Parses(text)[Place("members", 2, 1)] = Built(4 * Len(ms) + 2, NumbersFrom(ms, 1))
<1> DEFINE n == Len(ms)
           g == Parses(text)
           ends(j) == g[Place("members", 4 * j - 2, 1)] = Built(4 * n + 2, NumbersFrom(ms, j))
           S == {k \in 0..(n - 1) : ends(n - k)}
<1>1. n \in Nat \ {0} /\ Len(text) = 4 * n + 1 /\ Len(text) \in Nat
  BY DEF NumbersText
<1>2. \A p \in Places(text) : g[p] = parse_at(text, g, p)
  BY <1>1, ParserSteps
<1> HIDE DEF g
<1>3. ASSUME NEW j \in 1..n
      PROVE  g[Place("members", 4 * j - 2, 1)]
               = AfterMember(text, g, NumberItem(ms[j]), 4 * j + 1, 1)
  <2>1. /\ 4 * j - 2 \in 1..(4 * n + 1) /\ 4 * j - 1 \in 1..(4 * n + 1) /\ 4 * j \in 1..(4 * n + 1)
        /\ (4 * j - 2) + 1 = 4 * j - 1 /\ (4 * j - 2) + 2 = 4 * j /\ (4 * j - 2) + 3 = 4 * j + 1
    BY <1>1
  <2>2. /\ At(text, 4 * j - 2) = StrToken(<<ms[j][1]>>) /\ At(text, 4 * j - 1) = Colon
        /\ At(text, 4 * j) = NumToken(ms[j][2])
    BY <1>1, <2>1 DEF NumbersText, At
  <2>3. Place("members", 4 * j - 2, 1) \in Places(text) /\ Place("value", 4 * j, 1) \in Places(text)
    <3>1. 1 \in 0..NestingLimit /\ 4 * j - 2 \in 1..(Len(text) + 1) /\ 4 * j \in 1..(Len(text) + 1)
      BY <1>1, <2>1, JsonAssumption
    <3>2. QED BY <3>1 DEF Place, Places
  <2>4. g[Place("value", 4 * j, 1)] = parse_value(text, g, 4 * j, 1)
    BY <1>2, <2>3 DEF parse_at, Place
  <2>5. g[Place("value", 4 * j, 1)] = Built(4 * j + 1, <<CreateNumber(ms[j][2])>>)
    BY <2>2, <2>4, ParsesNumber
  <2>6. g[Place("members", 4 * j - 2, 1)] = parse_object(text, g, 4 * j - 2, 1)
    BY <1>2, <2>3 DEF parse_at, Place
  <2>7. parse_object(text, g, 4 * j - 2, 1)
          = AfterMember(text, g, NumberItem(ms[j]), (4 * j - 2) + 3, 1)
    <3>1. /\ At(text, (4 * j - 2) + 1) = Colon
          /\ g[Place("value", (4 * j - 2) + 2, 1)] = Built((4 * j - 2) + 3, <<CreateNumber(ms[j][2])>>)
      BY <2>1, <2>2, <2>5
    <3>2. QED BY <2>2, <3>1, ParsesMember
  <2>8. QED BY <2>1, <2>6, <2>7
<1>4. 0 \in S
  <2>1. At(text, 4 * n + 1) = Closing /\ (4 * n + 1) + 1 = 4 * n + 2 /\ n \in 1..n /\ n - 0 = n
    BY <1>1 DEF NumbersText, At
  <2>2. AfterMember(text, g, NumberItem(ms[n]), 4 * n + 1, 1)
          = Built((4 * n + 1) + 1, <<NumberItem(ms[n])>>)
    BY <2>1, ParsesLast
  <2>3. NumbersFrom(ms, n) = <<NumberItem(ms[n])>>
    BY <2>1, <1>1, NumbersGoOn
  <2>4. ends(n)
    BY <1>3, <2>1, <2>2, <2>3
  <2> HIDE DEF ends
  <2>5. 0 \in 0..(n - 1)
    BY <1>1
  <2>6. QED BY <2>1, <2>4, <2>5
<1>5. ASSUME NEW k \in 1..(n - 1), k - 1 \in S PROVE k \in S
  <2> DEFINE j == n - k
  <2>1. /\ j \in 1..n /\ j \in 1..(n - 1) /\ j # n /\ n - (k - 1) = j + 1 /\ k \in 0..(n - 1)
        /\ 4 * j + 1 \in 1..(4 * n + 1)
        /\ (4 * j + 1) + 1 = 4 * (j + 1) - 2
    BY <1>1
  <2>2. ends(j + 1)
    BY <1>5, <2>1
  <2> HIDE DEF j, S
  <2>3. At(text, 4 * j + 1) = Comma
    BY <1>1, <2>1 DEF NumbersText, At
  <2>4. g[Place("members", (4 * j + 1) + 1, 1)] = Built(4 * n + 2, NumbersFrom(ms, j + 1))
    BY <2>1, <2>2
  <2>5. AfterMember(text, g, NumberItem(ms[j]), 4 * j + 1, 1)
          = Built(4 * n + 2, <<NumberItem(ms[j])>> \o NumbersFrom(ms, j + 1))
    <3> DEFINE i == 4 * j + 1
               at == 4 * n + 2
               items == NumbersFrom(ms, j + 1)
    <3> HIDE DEF i, at, items
    <3>1. At(text, i) = Comma /\ g[Place("members", i + 1, 1)] = Built(at, items)
      BY <2>3, <2>4 DEF i, at, items
    <3>2. AfterMember(text, g, NumberItem(ms[j]), i, 1)
            = Built(at, <<NumberItem(ms[j])>> \o items)
      BY <3>1, ParsesMore
    <3>3. QED BY <3>2 DEF i, at, items
  <2>6. NumbersFrom(ms, j) = <<NumberItem(ms[j])>> \o NumbersFrom(ms, j + 1)
    BY <1>1, <2>1, NumbersGoOn
  <2>7. ends(j)
    BY <1>3, <2>1, <2>5, <2>6
  <2> HIDE DEF ends
  <2>8. QED BY <2>1, <2>7 DEF S, j
<1>6. n - 1 \in S
  <2> HIDE DEF S
  <2>1. n - 1 \in Nat /\ n - 1 \in 0..(n - 1)
    BY <1>1
  <2> DEFINE N == n - 1
  <2>2. \A k \in 0..N : k \in S
    <3>1. N \in Nat /\ \A k \in 1..N : k - 1 \in S => k \in S
      BY <1>5, <2>1
    <3> HIDE DEF N
    <3>2. QED BY <1>4, <3>1, UpTo
  <2>3. QED BY <2>1, <2>2
<1>7. ends(1)
  <2>1. n - (n - 1) = 1
    BY <1>1
  <2> HIDE DEF ends
  <2>2. QED BY <1>6, <2>1
<1>8. 4 * 1 - 2 = 2
  OBVIOUS
<1>9. QED BY <1>7, <1>8 DEF g

\* What the parser makes of the whole text.
LEMMA ParsedRoot ==
  ASSUME NEW t, Len(t) \in Nat, NEW at, NEW x, parse_value(t, Parses(t), 1, 0) = Built(at, <<x>>)
  PROVE  Parse(t) = x
<1> DEFINE p == Place("value", 1, 0)
<1>1. p \in Places(t) /\ Parser(t) = Parses(t)[p] /\ Parses(t)[p] = parse_at(t, Parses(t), p)
  BY RootPlace, ParserSteps
<1>2. parse_at(t, Parses(t), p) = parse_value(t, Parses(t), 1, 0)
  BY DEF parse_at, Place
<1>3. Parser(t) = Built(at, <<x>>)
  BY <1>1, <1>2
<1>4. Parser(t).ok /\ Parser(t).items[1] = x
  BY <1>3 DEF Built
<1>5. QED BY <1>4 DEF Parse

\* An object of numbers that is printed and parsed is the same object.
THEOREM NumbersSurvive ==
  ASSUME NEW ms, Len(ms) \in Nat
  PROVE  Parse(PrintUnformatted(NumbersObject(ms))) = NumbersObject(ms)
<1> DEFINE t == PrintUnformatted(NumbersObject(ms))
           object == NumbersObject(ms)
<1> SUFFICES Parse(t) = object
  OBVIOUS
<1>2. CASE Len(ms) = 0
  <2>1. t = <<Opening, Closing>>
    <3>1. Len(MemberTexts(ms)) = 0
      BY <1>2 DEF MemberTexts
    <3>2. JoinComma(MemberTexts(ms)) = <<>>
      BY <3>1, JoinLoop
    <3>3. t = <<Opening>> \o <<>> \o <<Closing>>
      BY <3>2, PrintsMembers
    <3>4. QED BY <3>3, Brackets
  <2> HIDE DEF t
  <2>2. Len(t) = 2 /\ At(t, 1) = Opening /\ At(t, 2) = Closing
    BY <2>1 DEF At
  <2>3. parse_value(t, Parses(t), 1, 0) = Built(3, <<CreateObject>>)
    BY <2>2, ParsesObject
  <2>4. NumbersObject(ms) = CreateObject
    <3>1. NumbersFrom(ms, 1) = <<>>
      <4>1. 1..(Len(ms) - 1 + 1) = {}
        BY <1>2
      <4>2. DOMAIN NumbersFrom(ms, 1) = {}
        BY <4>1 DEF NumbersFrom
      <4>3. NumbersFrom(ms, 1) \in [1..0 -> {}]
        BY <4>1 DEF NumbersFrom
      <4>4. NumbersFrom(ms, 1) \in Seq({}) /\ Len(NumbersFrom(ms, 1)) = 0
        BY <4>3
      <4>5. QED BY <4>4, EmptySeq
    <3>2. CreateObject = [type |-> "Object", string |-> NoName, valuestring |-> <<>>,
                          valuedouble |-> 0, child |-> <<>>]
      BY DEF CreateObject, New_Item
    <3>3. [CreateObject EXCEPT !.child = <<>>] = CreateObject
      BY <3>2
    <3>4. NumbersObject(ms) = [CreateObject EXCEPT !.child = NumbersFrom(ms, 1)]
      BY Zenon DEF NumbersObject
    <3>5. QED BY <3>1, <3>3, <3>4
  <2> HIDE DEF object
  <2>5. Len(t) \in Nat /\ parse_value(t, Parses(t), 1, 0) = Built(3, <<object>>)
    BY <2>2, <2>3, <2>4 DEF object
  <2>6. QED BY <2>5, ParsedRoot
<1>3. CASE Len(ms) # 0
  <2>1. NumbersText(ms, t) /\ Len(ms) \in Nat \ {0}
    BY <1>3, PrintsNumbers
  <2> HIDE DEF t
  <2>2. /\ Len(t) = 4 * Len(ms) + 1 /\ t[1] = Opening
        /\ t[4 * 1 - 2] = StrToken(<<ms[1][1]>>)
    BY <2>1 DEF NumbersText
  <2>3. /\ Len(t) \in Nat /\ At(t, 1) = Opening /\ At(t, 2) = StrToken(<<ms[1][1]>>)
    <3>1. 1 <= Len(t) /\ 2 <= Len(t) /\ 4 * 1 - 2 = 2 /\ Len(t) \in Nat
      BY <2>1, <2>2
    <3>2. QED BY <2>2, <3>1 DEF At
  <2>4. Parses(t)[Place("members", 2, 1)] = Built(4 * Len(ms) + 2, NumbersFrom(ms, 1))
    BY <2>1, ParsesNumbers
  <2> HIDE DEF object
  <2>5. parse_value(t, Parses(t), 1, 0) = Built(4 * Len(ms) + 2, <<object>>)
    <3> DEFINE g == Parses(t)
               s == <<ms[1][1]>>
               at == 4 * Len(ms) + 2
               items == NumbersFrom(ms, 1)
    <3> HIDE DEF g, s, at, items
    <3>1. At(t, 1) = Opening /\ At(t, 2) = StrToken(s) /\ g[Place("members", 2, 1)] = Built(at, items)
      BY <2>3, <2>4 DEF g, s, at, items
    <3>2. parse_value(t, g, 1, 0) = Built(at, <<[CreateObject EXCEPT !.child = items]>>)
      BY <3>1, ParsesObject
    <3>3. object = [CreateObject EXCEPT !.child = items]
      BY Zenon DEF NumbersObject, items, object
    <3>4. parse_value(t, g, 1, 0) = Built(at, <<object>>)
      BY <3>2, <3>3, Zenon
    <3>5. QED BY <3>4 DEF g, at
  <2>6. QED BY <2>3, <2>5, ParsedRoot
<1>4. QED BY <1>2, <1>3

=============================================================================
