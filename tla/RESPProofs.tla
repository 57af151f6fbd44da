------------------------------ MODULE RESPProofs ------------------------------
(***************************************************************************)
(* Theorems about RESP, for buffers of any length: the frames that the     *)
(* parser finds do not depend on what follows them, and what the replay    *)
(* loop makes of a file.                                                   *)
(***************************************************************************)
EXTENDS RESP, SequenceTheorems, WellFoundedInduction, TLAPS

(* A non-empty set of natural numbers has a least element.                 *)
LEMMA Smallest ==
  ASSUME NEW T \in SUBSET Nat, T # {}
  PROVE  \E n \in T : \A m \in T : n <= m
<1>1. IsWellFoundedOn(OpToRel(<, Nat), Nat)
  BY NatLessThanWellFounded
<1>2. PICK x \in T : \A y \in T : ~ (<<y, x>> \in OpToRel(<, Nat))
  BY <1>1, WFMin
<1>3. \A y \in T : ~(y < x)
  BY <1>2, Zenon DEF OpToRel
<1> QED
  BY <1>3, SMT

(* The one member of a set.                                                *)
LEMMA OnlyOne == \A x : Only({x}) = x
BY DEF Only

(* RESPParser::read_line: where the first line from p on ends.             *)
LEMMA FirstLine ==
  ASSUME NEW S, NEW b \in Seq(S), NEW p \in Nat \ {0}, LineEnds(b, p) # {}
  PROVE  /\ Min(LineEnds(b, p)) \in p .. Len(b) - 1
         /\ Min(LineEnds(b, p)) \in LineEnds(b, p)
         /\ \A i \in LineEnds(b, p) : Min(LineEnds(b, p)) <= i
<1> DEFINE E == LineEnds(b, p)
<1>1. E \in SUBSET Nat /\ E \subseteq p .. Len(b) - 1
  BY DEF LineEnds
<1> HIDE DEF E
<1>2. \E n \in E : \A m \in E : n <= m
  BY <1>1, Smallest DEF E
<1>3. Min(E) \in E /\ \A m \in E : Min(E) <= m
  BY <1>2, Zenon DEF Min
<1> QED
  BY <1>1, <1>3 DEF E

(* What parse_internal finds at p, without the sets.                       *)
LEMMA ParseAtLine ==
  ASSUME NEW b, NEW p, NEW h
  PROVE  ParseAt(b, p, h) = IF LineEnds(b, p) = {} THEN nullopt
                                                   ELSE AfterLine(b, p, Min(LineEnds(b, p)), h)
<1> DEFINE m == Min(LineEnds(b, p))
<1> HIDE DEF m
<1>1. {AfterLine(b, p, crlf, h) : crlf \in {m}} = {AfterLine(b, p, m, h)}
  BY Zenon
<1> QED
  BY <1>1, OnlyOne, Zenon DEF ParseAt, m

(* The elements found from places behind p end behind them, and inside the *)
(* buffer; two such functions are alike behind p.                          *)
Sane(b, h, p) ==
  \A q \in p + 1 .. Len(b) + 1, n \in Numerals : h[q][n].ok => h[q][n].pos \in q .. Len(b) + 1
Alike(b, g, h, p) ==
  \A q \in p + 1 .. Len(b) + 1, n \in Numerals : g[q][n] = h[q][n]

(* std::from_chars: a number, if there is one.                             *)
LEMMA Number ==
  ASSUME NEW line, from_chars(line) # {}
  PROVE  Only(from_chars(line)) \in Numerals
BY DEF from_chars, Only

Marks == {"+", "-", ":", "$", "*"}

(* The text of a line, the number it states if there is one, and the       *)
(* length or count that this number is.                                    *)
Content(b, p, crlf) == SubSeq(b, p + 1, crlf - 1)
Num(b, p, crlf) == from_chars(Content(b, p, crlf))
Count(b, p, crlf) == Only(Num(b, p, crlf))

(* The switch of parse_internal: case '+'.                                 *)
LEMMA SimpleLine ==
  ASSUME NEW b, NEW p, NEW crlf, NEW h, b[p] = "+"
  PROVE  AfterLine(b, p, crlf, h) = Found(create_simple_string(Content(b, p, crlf)), crlf + 2)
BY SMT DEF AfterLine, Content, Num, Count

(* Case '-'.                                                               *)
LEMMA ErrorLine ==
  ASSUME NEW b, NEW p, NEW crlf, NEW h, b[p] = "-"
  PROVE  AfterLine(b, p, crlf, h) = Found(create_error(Content(b, p, crlf)), crlf + 2)
BY SMT DEF AfterLine, Content, Num, Count

(* Case ':' of a line that states a number.                                *)
LEMMA IntegerLine ==
  ASSUME NEW b, NEW p, NEW crlf, NEW h, b[p] = ":", Num(b, p, crlf) # {}
  PROVE  AfterLine(b, p, crlf, h) = Found(create_integer(Count(b, p, crlf)), crlf + 2)
BY SMT DEF AfterLine, Content, Num, Count

(* Case '$': parse_bulk_string.                                            *)
LEMMA BulkLine ==
  ASSUME NEW b, NEW p, NEW crlf, NEW h, b[p] = "$", Num(b, p, crlf) # {}
  PROVE  AfterLine(b, p, crlf, h) = Bulk(b, crlf + 2, Count(b, p, crlf))
BY SMT DEF AfterLine, Content, Num, Count

(* Case '*': parse_array of the null array.                                *)
LEMMA NullLine ==
  ASSUME NEW b, NEW p, NEW crlf, NEW h, b[p] = "*", Num(b, p, crlf) # {}, Count(b, p, crlf) = -1
  PROVE  AfterLine(b, p, crlf, h) = Found(create_null, crlf + 2)
BY SMT DEF AfterLine, Content, Num, Count

(* Case '*': parse_array of an array of elements.                          *)
LEMMA ArrayLine ==
  ASSUME NEW b, NEW p, NEW crlf, NEW h, b[p] = "*", Num(b, p, crlf) # {}, Count(b, p, crlf) # -1
  PROVE  AfterLine(b, p, crlf, h) = Array(h[crlf + 2][Count(b, p, crlf)])
<1>1. PICK e : e = h[crlf + 2][Count(b, p, crlf)]
  OBVIOUS
<1>2. AfterLine(b, p, crlf, h) = Only({Array(r) : r \in {e}})
  BY <1>1, SMT DEF AfterLine, Content, Num, Count
<1>3. {Array(r) : r \in {e}} = {Array(e)}
  BY Zenon
<1> QED
  BY <1>1, <1>2, <1>3, OnlyOne, Zenon

(* The default, and a line that should state a number and does not.        *)
LEMMA NoLine ==
  ASSUME NEW b, NEW p, NEW crlf, NEW h, b[p] \notin Marks \/ (b[p] \in {":", "$", "*"} /\ Num(b, p, crlf) = {})
  PROVE  AfterLine(b, p, crlf, h) = nullopt
BY SMT DEF AfterLine, Content, Num, Count, Marks

(* What a line stands for: nothing, a value on the line itself, a string   *)
(* or an array behind it.                                                  *)
LEMMA LineShapes ==
  ASSUME NEW b, NEW p, NEW crlf
  PROVE  \/ \A h : AfterLine(b, p, crlf, h) = nullopt
         \/ \E v : \A h : AfterLine(b, p, crlf, h) = Found(v, crlf + 2)
         \/ /\ Count(b, p, crlf) \in Numerals
            /\ \A h : AfterLine(b, p, crlf, h) = Bulk(b, crlf + 2, Count(b, p, crlf))
         \/ /\ Count(b, p, crlf) \in Numerals
            /\ \A h : AfterLine(b, p, crlf, h) = Array(h[crlf + 2][Count(b, p, crlf)])
<1> DEFINE c == b[p]
           num == Num(b, p, crlf)
           n == Count(b, p, crlf)
<1>1. num # {} => n \in Numerals
  BY Number, Zenon DEF Num, Count
<1>2. CASE c \notin Marks \/ (c \in {":", "$", "*"} /\ num = {})
  <2>1. ASSUME NEW h PROVE AfterLine(b, p, crlf, h) = nullopt
    BY <1>2, NoLine, Zenon
  <2> QED
    BY <1>2, <2>1, Zenon
<1>3. CASE c = "+"
  <2>1. ASSUME NEW h PROVE AfterLine(b, p, crlf, h) = Found(create_simple_string(Content(b, p, crlf)), crlf + 2)
    BY <1>3, SimpleLine, Zenon
  <2> QED
    BY <1>3, <2>1, Zenon
<1>4. CASE c = "-"
  <2>1. ASSUME NEW h PROVE AfterLine(b, p, crlf, h) = Found(create_error(Content(b, p, crlf)), crlf + 2)
    BY <1>4, ErrorLine, Zenon
  <2> QED
    BY <1>4, <2>1, Zenon
<1>5. CASE c = ":" /\ num # {}
  <2>1. ASSUME NEW h PROVE AfterLine(b, p, crlf, h) = Found(create_integer(n), crlf + 2)
    BY <1>5, IntegerLine, Zenon
  <2> QED
    BY <1>5, <2>1, Zenon
<1>6. CASE c = "$" /\ num # {}
  <2>1. ASSUME NEW h PROVE AfterLine(b, p, crlf, h) = Bulk(b, crlf + 2, n)
    BY <1>6, BulkLine, Zenon
  <2> QED
    BY <1>1, <1>6, <2>1, Zenon
<1>7. CASE c = "*" /\ num # {} /\ n = -1
  <2>1. ASSUME NEW h PROVE AfterLine(b, p, crlf, h) = Found(create_null, crlf + 2)
    BY <1>7, NullLine, Zenon
  <2> QED
    BY <1>7, <2>1, Zenon
<1>8. CASE c = "*" /\ num # {} /\ n # -1
  <2>1. ASSUME NEW h PROVE AfterLine(b, p, crlf, h) = Array(h[crlf + 2][n])
    BY <1>8, ArrayLine, Zenon
  <2> QED
    BY <1>1, <1>8, <2>1, Zenon
<1> QED
  BY <1>2, <1>3, <1>4, <1>5, <1>6, <1>7, <1>8, Zenon DEF Marks

(* What a line stands for depends only on the elements behind it.          *)
LEMMA LineLocal ==
  ASSUME NEW S, NEW b \in Seq(S), NEW p \in 1 .. Len(b) + 1, NEW crlf \in p .. Len(b) - 1,
         NEW g, NEW h, Alike(b, g, h, p)
  PROVE  AfterLine(b, p, crlf, g) = AfterLine(b, p, crlf, h)
<1>1. PICK n : n = Count(b, p, crlf)
  OBVIOUS
<1>2. crlf + 2 \in p + 1 .. Len(b) + 1
  BY SMT
<1>3. n \in Numerals => g[crlf + 2][n] = h[crlf + 2][n]
  BY <1>2, Zenon DEF Alike
<1>4. \/ \A f : AfterLine(b, p, crlf, f) = nullopt
      \/ \E v : \A f : AfterLine(b, p, crlf, f) = Found(v, crlf + 2)
      \/ n \in Numerals /\ \A f : AfterLine(b, p, crlf, f) = Bulk(b, crlf + 2, n)
      \/ n \in Numerals /\ \A f : AfterLine(b, p, crlf, f) = Array(f[crlf + 2][n])
  BY <1>1, LineShapes, Zenon
<1> QED
  BY <1>3, <1>4, Zenon

(* A line and what belongs to it end behind its beginning.                 *)
LEMMA LineSane ==
  ASSUME NEW S, NEW b \in Seq(S), NEW p \in 1 .. Len(b) + 1, NEW crlf \in p .. Len(b) - 1,
         NEW h, Sane(b, h, p), AfterLine(b, p, crlf, h).ok
  PROVE  AfterLine(b, p, crlf, h).pos \in p + 1 .. Len(b) + 1
<1>0. PICK next, r : next = crlf + 2 /\ r = AfterLine(b, p, crlf, h)
  BY Zenon
<1>1. PICK n : n = Count(b, p, crlf)
  OBVIOUS
<1>2. next \in p + 1 .. Len(b) + 1 /\ next \in Int /\ r.ok
  BY <1>0, SMT
<1>3. ~nullopt.ok /\ \A v, q : Found(v, q).pos = q
  BY DEF nullopt, Found
<1>4. \/ r = nullopt
      \/ \E v : r = Found(v, next)
      \/ n \in Numerals /\ r = Bulk(b, next, n)
      \/ n \in Numerals /\ r = Array(h[next][n])
  BY <1>0, <1>1, LineShapes, Zenon
<1>5. CASE \E v : r = Found(v, next)
  <2>1. r.pos = next
    BY <1>3, <1>5, Zenon
  <2> QED
    BY <1>0, <1>2, <2>1, Zenon
<1>6. CASE n \in Numerals /\ r = Bulk(b, next, n)
  <2>1. \/ \E v : r = Found(v, next)
        \/ n # -1 /\ ~(next + n + 1 > Len(b)) /\ \E v : r = Found(v, next + n + 2)
    BY <1>2, <1>3, <1>6, Zenon DEF Bulk
  <2>2. CASE n # -1 /\ ~(next + n + 1 > Len(b)) /\ \E v : r = Found(v, next + n + 2)
    <3>1. next + n + 2 \in p + 1 .. Len(b) + 1
      <4>1. n \in Int /\ n >= 0
        BY <1>6, <2>2, NumberAssumption, SMT DEF Numerals
      <4> QED
        BY <1>2, <2>2, <4>1, SMT
    <3>2. r.pos = next + n + 2
      BY <1>3, <2>2, Zenon
    <3> QED
      BY <1>0, <3>1, <3>2, Zenon
  <2> QED
    BY <1>5, <2>1, <2>2
<1>7. CASE n \in Numerals /\ r = Array(h[next][n])
  <2>1. PICK e : e = h[next][n]
    OBVIOUS
  <2>2. e.ok /\ r.pos = e.pos
    BY <1>2, <1>3, <1>7, <2>1, Zenon DEF Array
  <2>3. e.pos \in next .. Len(b) + 1
    BY <1>2, <1>7, <2>1, <2>2, Zenon DEF Sane
  <2>4. r.pos \in p + 1 .. Len(b) + 1
    BY <1>2, <2>2, <2>3, SMT
  <2> QED
    BY <1>0, <2>4
<1> QED
  BY <1>2, <1>3, <1>4, <1>5, <1>6, <1>7

(* RESPParser::parse_internal: what it finds at p depends only on the      *)
(* elements behind p, and ends behind p.                                   *)
LEMMA ParseLocal ==
  ASSUME NEW S, NEW b \in Seq(S), NEW p \in 1 .. Len(b) + 1, NEW g, NEW h, Alike(b, g, h, p)
  PROVE  ParseAt(b, p, g) = ParseAt(b, p, h)
<1>1. CASE LineEnds(b, p) = {}
  BY <1>1, ParseAtLine, Zenon
<1>2. CASE LineEnds(b, p) # {}
  <2>0. p \in Nat \ {0}
    BY SMT
  <2>1. PICK m \in p .. Len(b) - 1 : m = Min(LineEnds(b, p))
    BY <1>2, <2>0, FirstLine, Zenon
  <2>2. AfterLine(b, p, m, g) = AfterLine(b, p, m, h)
    BY LineLocal, Zenon
  <2> QED
    BY <1>2, <2>1, <2>2, ParseAtLine, Zenon
<1> QED
  BY <1>1, <1>2

(* What parse_internal finds at p ends behind p.                           *)
LEMMA ParseSane ==
  ASSUME NEW S, NEW b \in Seq(S), NEW p \in 1 .. Len(b) + 1, NEW h, Sane(b, h, p),
         ParseAt(b, p, h).ok
  PROVE  ParseAt(b, p, h).pos \in p + 1 .. Len(b) + 1
<1>1. LineEnds(b, p) # {}
  BY ParseAtLine, Zenon DEF nullopt
<1>0. p \in Nat \ {0}
  BY SMT
<1>2. PICK m \in p .. Len(b) - 1 : m = Min(LineEnds(b, p))
  BY <1>1, <1>0, FirstLine, Zenon
<1>3. ParseAt(b, p, h) = AfterLine(b, p, m, h)
  BY <1>1, <1>2, ParseAtLine, Zenon
<1> QED
  BY <1>3, LineSane, Zenon

-----------------------------------------------------------------------------
(* The elements of arrays.                                                 *)

(* One round of the loop: what n elements from p on are, given what the    *)
(* elements behind p are.                                                  *)
Entry(b, h, p, n) == IF n <= 0 THEN Found(<<>>, p) ELSE Then(ParseAt(b, p, h), n, h)
EntriesFrom(b, h, k) ==
  \A p \in k .. Len(b) + 1, n \in Numerals : h[p][n] = Entry(b, h, p, n)

(* The rounds before the last one.                                         *)
LEMMA ThenRest ==
  ASSUME NEW elem, NEW n, NEW h
  PROVE  Then(elem, n, h) = IF elem.ok THEN Prepend(elem.val, h[elem.pos][n - 1]) ELSE nullopt
<1>1. PICK e : e = h[elem.pos][n - 1]
  OBVIOUS
<1>2. {Prepend(elem.val, r) : r \in {e}} = {Prepend(elem.val, e)}
  BY Zenon
<1> QED
  BY <1>1, <1>2, OnlyOne, Zenon DEF Then

(* A round depends only on the elements behind p.                          *)
LEMMA EntryLocal ==
  ASSUME NEW S, NEW b \in Seq(S), NEW p \in 1 .. Len(b) + 1, NEW n \in Numerals,
         NEW g, NEW h, Alike(b, g, h, p), Sane(b, h, p)
  PROVE  Entry(b, g, p, n) = Entry(b, h, p, n)
<1>1. CASE n <= 0
  BY <1>1, Zenon DEF Entry
<1>2. CASE ~(n <= 0)
  <2>1. PICK e : e = ParseAt(b, p, h)
    OBVIOUS
  <2>2. ParseAt(b, p, g) = e
    BY <2>1, ParseLocal, Zenon
  <2>3. CASE e.ok
    <3>1. e.pos \in p + 1 .. Len(b) + 1
      BY <2>1, <2>3, ParseSane, Zenon
    <3>2. n - 1 \in Numerals
      BY <1>2, NumberAssumption, SMT DEF Numerals
    <3>3. g[e.pos][n - 1] = h[e.pos][n - 1]
      BY <3>1, <3>2, Zenon DEF Alike
    <3> QED
      BY <1>2, <2>1, <2>2, <2>3, <3>3, ThenRest, Zenon DEF Entry
  <2>4. CASE ~e.ok
    BY <1>2, <2>1, <2>2, <2>4, ThenRest, Zenon DEF Entry
  <2> QED
    BY <2>3, <2>4
<1> QED
  BY <1>1, <1>2

(* A round ends at p or behind it.                                         *)
LEMMA EntrySane ==
  ASSUME NEW S, NEW b \in Seq(S), NEW p \in 1 .. Len(b) + 1, NEW n \in Numerals,
         NEW h, Sane(b, h, p), Entry(b, h, p, n).ok
  PROVE  Entry(b, h, p, n).pos \in p .. Len(b) + 1
<1>0. ~nullopt.ok /\ \A v, q : Found(v, q).pos = q
  BY DEF nullopt, Found
<1>1. CASE n <= 0
  <2>1. Entry(b, h, p, n).pos = p
    BY <1>0, <1>1, Zenon DEF Entry
  <2> QED
    BY <2>1, SMT
<1>2. CASE ~(n <= 0)
  <2>1. PICK e : e = ParseAt(b, p, h)
    OBVIOUS
  <2>2. e.ok /\ Entry(b, h, p, n) = Prepend(e.val, h[e.pos][n - 1])
    BY <1>0, <1>2, <2>1, ThenRest, Zenon DEF Entry
  <2>3. e.pos \in p + 1 .. Len(b) + 1
    BY <2>1, <2>2, ParseSane, Zenon
  <2>4. n - 1 \in Numerals
    BY <1>2, NumberAssumption, SMT DEF Numerals
  <2>5. PICK r : r = h[e.pos][n - 1]
    OBVIOUS
  <2>6. r.ok /\ Entry(b, h, p, n).pos = r.pos
    <3>1. PICK t : t = Entry(b, h, p, n)
      OBVIOUS
    <3>2. t.ok /\ t = Prepend(e.val, r)
      BY <2>2, <2>5, <3>1, Zenon
    <3>3. r.ok /\ t = Found(<<e.val>> \o r.val, r.pos)
      BY <1>0, <3>2, Zenon DEF Prepend
    <3>4. t.pos = r.pos
      <4>1. PICK v : t = Found(v, r.pos)
        BY <3>3, Zenon
      <4> QED
        BY <1>0, <4>1, Zenon
    <3> QED
      BY <3>1, <3>3, <3>4, Zenon
  <2>7. r.pos \in e.pos .. Len(b) + 1
    BY <2>3, <2>4, <2>5, <2>6, Zenon DEF Sane
  <2>8. r.pos \in p .. Len(b) + 1
    BY <2>3, <2>7, SMT
  <2> QED
    BY <2>6, <2>8
<1> QED
  BY <1>1, <1>2

(* Every function that the rounds define is sane.                          *)
LEMMA EntriesSane ==
  ASSUME NEW S, NEW b \in Seq(S), NEW k \in 1 .. Len(b) + 2, NEW h, EntriesFrom(b, h, k)
  PROVE  \A p \in k .. Len(b) + 1, n \in Numerals : h[p][n].ok => h[p][n].pos \in p .. Len(b) + 1
<1> DEFINE Bad(p) == \E n \in Numerals : h[p][n].ok /\ h[p][n].pos \notin p .. Len(b) + 1
           T == {j \in 0 .. Len(b) + 1 - k : Bad(Len(b) + 1 - j)}
<1>0. Len(b) \in Nat /\ k \in Nat
  BY SMT
<1>1. ASSUME NEW p \in k .. Len(b) + 1, Bad(p) PROVE T # {}
  <2>1. Len(b) + 1 - p \in 0 .. Len(b) + 1 - k /\ Len(b) + 1 - (Len(b) + 1 - p) = p
    BY <1>0, SMT
  <2> HIDE DEF Bad
  <2> QED
    BY <1>1, <2>1, Zenon
<1>2. SUFFICES ASSUME T # {} PROVE FALSE
  BY <1>1, Zenon
<1> HIDE DEF Bad
<1>3. T \in SUBSET Nat
  BY <1>0, SMT
<1>4. PICK j \in T : \A m \in T : j <= m
  <2> HIDE DEF T
  <2> QED BY <1>2, <1>3, Smallest
<1>5. PICK p : p = Len(b) + 1 - j
  OBVIOUS
<1>6. p \in k .. Len(b) + 1 /\ p \in 1 .. Len(b) + 1 /\ Bad(p)
  BY <1>0, <1>4, <1>5, SMT
<1>7. ASSUME NEW q \in p + 1 .. Len(b) + 1 PROVE ~Bad(q)
  <2>1. /\ Len(b) + 1 - q \in 0 .. Len(b) + 1 - k /\ Len(b) + 1 - (Len(b) + 1 - q) = q
        /\ ~(j <= Len(b) + 1 - q)
    BY <1>0, <1>4, <1>5, <1>6, SMT
  <2> QED
    BY <1>4, <2>1, Zenon
<1>8. Sane(b, h, p)
  BY <1>7, Zenon DEF Sane, Bad
<1>9. PICK n \in Numerals : h[p][n].ok /\ h[p][n].pos \notin p .. Len(b) + 1
  BY <1>6, Zenon DEF Bad
<1>10. h[p][n] = Entry(b, h, p, n)
  BY <1>6, Zenon DEF EntriesFrom
<1> QED
  BY <1>6, <1>8, <1>9, <1>10, EntrySane, Zenon

(* The rounds define a function: from the end of the buffer backwards.     *)
LEMMA EntriesExist ==
  ASSUME NEW S, NEW b \in Seq(S)
  PROVE  \E h : EntriesFrom(b, h, 1)
<1> DEFINE T == {j \in 0 .. Len(b) + 1 : ~\E h : EntriesFrom(b, h, Len(b) + 2 - j)}
<1>0. Len(b) \in Nat
  BY SMT
<1>1. SUFFICES ASSUME T # {} PROVE FALSE
  <2>1. Len(b) + 1 \in 0 .. Len(b) + 1 /\ Len(b) + 2 - (Len(b) + 1) = 1
    BY <1>0, SMT
  <2> QED
    BY <2>1, Zenon
<1>2. T \in SUBSET Nat
  BY <1>0, SMT
<1>3. PICK j \in T : \A m \in T : j <= m
  <2> HIDE DEF T
  <2> QED BY <1>1, <1>2, Smallest
<1>4. PICK k : k = Len(b) + 2 - j
  OBVIOUS
<1>5. j # 0
  <2>1. j = 0 => \A p \in k .. Len(b) + 1 : FALSE
    BY <1>0, <1>4, SMT
  <2>2. j = 0 => EntriesFrom(b, b, k)
    BY <2>1, Zenon DEF EntriesFrom
  <2> QED
    BY <1>3, <1>4, <2>2, Zenon
<1>6. /\ j - 1 \in 0 .. Len(b) + 1 /\ ~(j <= j - 1) /\ Len(b) + 2 - (j - 1) = k + 1
      /\ k \in 1 .. Len(b) + 1 /\ k + 1 \in 1 .. Len(b) + 2
  BY <1>0, <1>3, <1>4, <1>5, SMT
<1>7. PICK h : EntriesFrom(b, h, k + 1)
  BY <1>3, <1>6, Zenon
<1>8. Sane(b, h, k)
  BY <1>6, <1>7, EntriesSane, Zenon DEF Sane
<1>9. PICK g : g = [p \in 1 .. Len(b) + 1 |->
                      [n \in Numerals |-> IF p = k THEN Entry(b, h, k, n) ELSE h[p][n]]]
  OBVIOUS
<1>10. /\ \A n \in Numerals : g[k][n] = Entry(b, h, k, n)
       /\ \A p \in k + 1 .. Len(b) + 1, n \in Numerals : g[p][n] = h[p][n]
  <2>1. \A p \in k + 1 .. Len(b) + 1 : p \in 1 .. Len(b) + 1 /\ p # k
    BY <1>6, SMT
  <2> QED
    BY <1>6, <1>9, <2>1, Zenon
<1>11. ASSUME NEW p \in k .. Len(b) + 1, NEW n \in Numerals PROVE g[p][n] = Entry(b, g, p, n)
  <2>1. p \in 1 .. Len(b) + 1 /\ \A q \in p + 1 .. Len(b) + 1 : q \in k + 1 .. Len(b) + 1
    BY <1>6, SMT
  <2>2. Alike(b, g, h, p)
    BY <1>10, <2>1, Zenon DEF Alike
  <2>3. Sane(b, h, p)
    BY <1>8, <2>1, Zenon DEF Sane
  <2>4. Entry(b, g, p, n) = Entry(b, h, p, n)
    BY <2>1, <2>2, <2>3, EntryLocal, Zenon
  <2>5. p = k \/ p \in k + 1 .. Len(b) + 1
    BY <1>6, SMT
  <2>6. g[p][n] = Entry(b, h, p, n)
    BY <1>7, <1>10, <2>5, Zenon DEF EntriesFrom
  <2> QED
    BY <2>4, <2>6
<1>12. EntriesFrom(b, g, k)
  BY <1>11, Zenon DEF EntriesFrom
<1> QED
  BY <1>3, <1>4, <1>12, Zenon

(* The loop over an array's elements, one round at a time.                 *)
LEMMA ElementsUnfold ==
  ASSUME NEW S, NEW b \in Seq(S)
  PROVE  EntriesFrom(b, Elements(b), 1)
<1> DEFINE Round(h, p, n) == IF n <= 0 THEN Found(<<>>, p)
                             ELSE Only({Then(elem, n, h) : elem \in {ParseAt(b, p, h)}})
           Is(f) == f = [p \in 1 .. Len(b) + 1 |-> [n \in Numerals |-> Round(f, p, n)]]
<1>1. ASSUME NEW h, NEW p, NEW n PROVE Round(h, p, n) = Entry(b, h, p, n)
  <2>1. PICK e : e = ParseAt(b, p, h)
    OBVIOUS
  <2>2. {Then(elem, n, h) : elem \in {e}} = {Then(e, n, h)}
    BY Zenon
  <2> QED
    BY <2>1, <2>2, OnlyOne, Zenon DEF Entry
<1>2. PICK h : EntriesFrom(b, h, 1)
  BY EntriesExist, Zenon
<1>3. PICK g : g = [p \in 1 .. Len(b) + 1 |-> [n \in Numerals |-> h[p][n]]]
  OBVIOUS
<1>4. ASSUME NEW p \in 1 .. Len(b) + 1, NEW n \in Numerals PROVE g[p][n] = Entry(b, g, p, n)
  <2>1. \A q \in p + 1 .. Len(b) + 1 : q \in 1 .. Len(b) + 1
    BY SMT
  <2>2. Alike(b, g, h, p)
    BY <1>3, <2>1, Zenon DEF Alike
  <2>3. 1 \in 1 .. Len(b) + 2
    BY SMT
  <2>4. Sane(b, h, p)
    BY <1>2, <2>1, <2>3, EntriesSane, Zenon DEF Sane
  <2>5. Entry(b, g, p, n) = Entry(b, h, p, n)
    BY <2>2, <2>4, EntryLocal, Zenon
  <2> QED
    BY <1>2, <1>3, <2>5, Zenon DEF EntriesFrom
<1> HIDE DEF Round
<1>5. g = [p \in 1 .. Len(b) + 1 |-> [n \in Numerals |-> Round(g, p, n)]]
  BY <1>1, <1>3, <1>4, Zenon
<1>6. Elements(b) = CHOOSE f : Is(f)
  BY Zenon DEF Elements, Round
<1>7. Is(Elements(b))
  <2>1. Is(g)
    BY <1>5
  <2> HIDE DEF Is
  <2> QED BY <1>6, <2>1, Zenon
<1>8. ASSUME NEW p \in 1 .. Len(b) + 1, NEW n \in Numerals
      PROVE  Elements(b)[p][n] = Entry(b, Elements(b), p, n)
  <2>1. PICK f : f = Elements(b)
    OBVIOUS
  <2>2. f[p] = [m \in Numerals |-> Round(f, p, m)]
    BY <1>7, <2>1, Zenon
  <2>3. f[p][n] = Round(f, p, n)
    BY <2>2, Zenon
  <2> QED
    BY <1>1, <2>1, <2>3, Zenon
<1> QED
  BY <1>8, Zenon DEF EntriesFrom

(* RESPParser::parse: a frame that is found is not empty and ends inside   *)
(* the buffer.                                                             *)
LEMMA ParseProgress ==
  ASSUME NEW S, NEW b \in Seq(S), parse(b).ok
  PROVE  parse(b).pos \in 2 .. Len(b) + 1
<1>1. 1 \in 1 .. Len(b) + 2 /\ 1 \in 1 .. Len(b) + 1 /\ \A q \in 1 + 1 .. Len(b) + 1 : q \in 1 .. Len(b) + 1
  BY SMT
<1>2. Sane(b, Elements(b), 1)
  BY <1>1, ElementsUnfold, EntriesSane, Zenon DEF Sane
<1>3. parse(b).pos \in 1 + 1 .. Len(b) + 1
  BY <1>1, <1>2, ParseSane, Zenon DEF parse, parse_internal
<1> QED
  BY <1>3, SMT

-----------------------------------------------------------------------------
(* What follows a frame makes no difference to it.                         *)

(* The elements found in a buffer are the ones found in a longer one.      *)
Kept(b, f, g, p) ==
  \A q \in p + 1 .. Len(b) + 1, n \in Numerals : f[q][n].ok => g[q][n] = f[q][n]

(* The beginning of a longer buffer.                                       *)
LEMMA Beginning ==
  ASSUME NEW S, NEW b \in Seq(S), NEW d \in Seq(S)
  PROVE  /\ b \o d \in Seq(S) /\ Len(b \o d) \in Nat /\ Len(b) \in Nat /\ Len(b) <= Len(b \o d)
         /\ \A i \in 1 .. Len(b) : (b \o d)[i] = b[i]
OBVIOUS

(* A part of a buffer is the same part of a longer one.                    *)
LEMMA Within ==
  ASSUME NEW S, NEW b \in Seq(S), NEW d \in Seq(S), NEW m \in Nat \ {0}, NEW n \in Int, n <= Len(b)
  PROVE  SubSeq(b \o d, m, n) = SubSeq(b, m, n)
<1> DEFINE a == b \o d
<1>1. a \in Seq(S) /\ \A i \in 1 .. Len(b) : a[i] = b[i]
  BY Beginning, Zenon
<1>2. CASE n < m
  <2>1. SubSeq(b, m, n) = <<>> /\ SubSeq(a, m, n) = <<>>
    <3> HIDE DEF a
    <3> QED BY <1>1, <1>2
  <2> QED
    BY <2>1
<1>3. CASE ~(n < m)
  <2> HIDE DEF a
  <2>0. Len(a) >= Len(b) /\ Len(a) \in Nat /\ Len(b) \in Nat
    BY Beginning, SMT DEF a
  <2>1. SubSeq(a, m, n) \in Seq(S) /\ SubSeq(b, m, n) \in Seq(S)
    BY <1>1, <1>3, <2>0
  <2>2. Len(SubSeq(a, m, n)) = n - m + 1 /\ Len(SubSeq(b, m, n)) = n - m + 1
    BY <1>1, <1>3, <2>0
  <2>3. \A i \in 1 .. n - m + 1 : SubSeq(a, m, n)[i] = SubSeq(b, m, n)[i]
    <3> TAKE i \in 1 .. n - m + 1
    <3>1. SubSeq(a, m, n)[i] = a[m + i - 1] /\ SubSeq(b, m, n)[i] = b[m + i - 1]
      BY <1>1, <1>3, <2>0
    <3>2. m + i - 1 \in 1 .. Len(b)
      BY <1>3, <2>0, SMT
    <3> QED
      BY <1>1, <3>1, <3>2, Zenon
  <2>4. SubSeq(a, m, n) = SubSeq(b, m, n)
    BY ONLY <2>1, <2>2, <2>3, SeqEqual
  <2> QED
    BY <2>4 DEF a
<1> QED
  BY <1>2, <1>3

(* The first line of a buffer stays its first line.                        *)
LEMMA FirstLineKept ==
  ASSUME NEW S, NEW b \in Seq(S), NEW d \in Seq(S), NEW p \in Nat \ {0}, LineEnds(b, p) # {}
  PROVE  LineEnds(b \o d, p) # {} /\ Min(LineEnds(b \o d, p)) = Min(LineEnds(b, p))
<1>1. PICK a \in Seq(S) : a = b \o d
  BY Beginning, Zenon
<1>2. Len(a) \in Nat /\ Len(b) \in Nat /\ Len(b) <= Len(a) /\ \A i \in 1 .. Len(b) : a[i] = b[i]
  BY <1>1, Beginning, Zenon
<1>3. PICK m : m = Min(LineEnds(b, p))
  OBVIOUS
<1>4. m \in p .. Len(b) - 1 /\ m \in LineEnds(b, p) /\ \A i \in LineEnds(b, p) : m <= i
  BY <1>3, FirstLine, Zenon
<1>5. m \in LineEnds(a, p)
  <2>1. m \in p .. Len(a) - 1 /\ m \in 1 .. Len(b) /\ m + 1 \in 1 .. Len(b)
    BY <1>2, <1>4, SMT
  <2>2. b[m] = "CR" /\ b[m + 1] = "LF"
    BY <1>4, Zenon DEF LineEnds
  <2> QED
    BY <1>2, <2>1, <2>2, Zenon DEF LineEnds
<1>6. PICK k : k = Min(LineEnds(a, p))
  OBVIOUS
<1>7. k \in p .. Len(a) - 1 /\ k \in LineEnds(a, p) /\ \A i \in LineEnds(a, p) : k <= i
  BY <1>5, <1>6, FirstLine, Zenon
<1>8. k <= m
  BY <1>5, <1>7
<1>9. k \in LineEnds(b, p)
  <2>1. k \in p .. Len(b) - 1 /\ k \in 1 .. Len(b) /\ k + 1 \in 1 .. Len(b)
    BY <1>2, <1>4, <1>7, <1>8, SMT
  <2>2. a[k] = "CR" /\ a[k + 1] = "LF"
    BY <1>7, Zenon DEF LineEnds
  <2> QED
    BY <1>2, <2>1, <2>2, Zenon DEF LineEnds
<1>10. k = m
  BY <1>4, <1>7, <1>8, <1>9, SMT
<1> QED
  BY <1>1, <1>3, <1>5, <1>6, <1>10, Zenon

(* A line says the same in a longer buffer, and a value found behind it is *)
(* found there, too.                                                       *)
LEMMA LineKept ==
  ASSUME NEW S, NEW b \in Seq(S), NEW d \in Seq(S), NEW p \in 1 .. Len(b) + 1,
         NEW crlf \in p .. Len(b) - 1, NEW f, NEW g, Kept(b, f, g, p), AfterLine(b, p, crlf, f).ok
  PROVE  AfterLine(b \o d, p, crlf, g) = AfterLine(b, p, crlf, f)
<1>1. PICK a \in Seq(S) : a = b \o d
  BY Beginning, Zenon
<1>2. Len(a) \in Nat /\ Len(b) \in Nat /\ Len(b) <= Len(a) /\ a[p] = b[p]
  <2>1. p \in 1 .. Len(b)
    BY SMT
  <2> QED
    BY <1>1, <2>1, Beginning, Zenon
<1>3. Content(a, p, crlf) = Content(b, p, crlf)
  <2>1. p + 1 \in Nat \ {0} /\ crlf - 1 \in Int /\ crlf - 1 <= Len(b)
    BY SMT
  <2> QED
    BY <1>1, <2>1, Within, Zenon DEF Content
<1>4. Num(a, p, crlf) = Num(b, p, crlf) /\ Count(a, p, crlf) = Count(b, p, crlf)
  BY <1>3, Zenon DEF Num, Count
<1> DEFINE n == Count(b, p, crlf)
           next == crlf + 2
           r == AfterLine(b, p, crlf, f)
           num == Num(b, p, crlf)
           c == b[p]
<1>6. ~nullopt.ok /\ r.ok /\ next \in p + 1 .. Len(b) + 1 /\ next \in Nat \ {0}
  <2>1. ~nullopt.ok
    BY DEF nullopt
  <2>2. next \in p + 1 .. Len(b) + 1 /\ next \in Nat \ {0}
    BY SMT
  <2> QED
    BY <2>1, <2>2, Zenon
<1>7. num # {} => n \in Numerals
  BY Number, Zenon DEF Num, Count
<1>8. CASE c = "+"
  <2>0. a[p] = "+"
    BY <1>2, <1>4, <1>8, Zenon
  <2>1. AfterLine(a, p, crlf, g) = Found(create_simple_string(Content(a, p, crlf)), next)
    BY <2>0, SimpleLine, Zenon
  <2>2. r = Found(create_simple_string(Content(b, p, crlf)), next)
    BY <1>8, SimpleLine, Zenon
  <2> QED
    BY <1>1, <1>3, <2>1, <2>2, Zenon
<1>9. CASE c = "-"
  <2>0. a[p] = "-"
    BY <1>2, <1>4, <1>9, Zenon
  <2>1. AfterLine(a, p, crlf, g) = Found(create_error(Content(a, p, crlf)), next)
    BY <2>0, ErrorLine, Zenon
  <2>2. r = Found(create_error(Content(b, p, crlf)), next)
    BY <1>9, ErrorLine, Zenon
  <2> QED
    BY <1>1, <1>3, <2>1, <2>2, Zenon
<1>10. CASE c = ":" /\ num # {}
  <2>0. a[p] = ":" /\ Num(a, p, crlf) # {}
    BY <1>2, <1>4, <1>10, Zenon
  <2>1. AfterLine(a, p, crlf, g) = Found(create_integer(Count(a, p, crlf)), next)
    BY <2>0, IntegerLine, Zenon
  <2>2. r = Found(create_integer(n), next)
    BY <1>10, IntegerLine, Zenon
  <2> QED
    BY <1>1, <1>4, <2>1, <2>2, Zenon
<1>11. CASE c = "$" /\ num # {}
  <2>0. a[p] = "$" /\ Num(a, p, crlf) # {}
    BY <1>2, <1>4, <1>11, Zenon
  <2>1. AfterLine(a, p, crlf, g) = Bulk(a, next, Count(a, p, crlf))
    BY <2>0, BulkLine, Zenon
  <2>2. r = Bulk(b, next, n)
    BY <1>11, BulkLine, Zenon
  <2>3. CASE n = -1
    BY <1>1, <1>4, <2>1, <2>2, <2>3, Zenon DEF Bulk
  <2>4. CASE n # -1
    <3>0. PICK m, q : m = n /\ q = next
      BY Zenon
    <3>1. ~(q + m + 1 > Len(b))
      BY <1>6, <2>2, <2>4, <3>0, Zenon DEF Bulk
    <3>2. m \in Nat /\ ~(q + m + 1 > Len(a)) /\ q + m - 1 \in Int /\ q + m - 1 <= Len(b)
      <4>1. m \in Numerals /\ m # -1 /\ q \in Nat \ {0}
        BY <1>6, <1>7, <1>11, <2>4, <3>0, Zenon
      <4>2. m \in Nat
        BY ONLY <4>1, NumberAssumption, SMT DEF Numerals
      <4> QED
        BY ONLY <1>2, <3>1, <4>1, <4>2, SMT
    <3>3. q \in Nat \ {0}
      BY <1>6, <3>0, Zenon
    <3>4. SubSeq(a, q, q + m - 1) = SubSeq(b, q, q + m - 1)
      BY <1>1, <3>2, <3>3, Within, Zenon
    <3>5. AfterLine(a, p, crlf, g) = Bulk(a, q, m) /\ r = Bulk(b, q, m) /\ m # -1
      BY <1>4, <2>1, <2>2, <2>4, <3>0, Zenon
    <3>6. Bulk(a, q, m) = Bulk(b, q, m)
      BY ONLY <3>1, <3>2, <3>4, <3>5, Zenon DEF Bulk
    <3> QED
      BY <1>1, <3>5, <3>6, Zenon
  <2> QED
    BY <2>3, <2>4
<1>12. CASE c = "*" /\ num # {} /\ n = -1
  <2>0. a[p] = "*" /\ Num(a, p, crlf) # {} /\ Count(a, p, crlf) = -1
    BY <1>2, <1>4, <1>12, Zenon
  <2>1. AfterLine(a, p, crlf, g) = Found(create_null, next)
    BY <2>0, NullLine, Zenon
  <2>2. r = Found(create_null, next)
    BY <1>12, NullLine, Zenon
  <2> QED
    BY <1>1, <2>1, <2>2, Zenon
<1>13. CASE c = "*" /\ num # {} /\ n # -1
  <2>0. a[p] = "*" /\ Num(a, p, crlf) # {} /\ Count(a, p, crlf) # -1
    BY <1>2, <1>4, <1>13, Zenon
  <2>1. AfterLine(a, p, crlf, g) = Array(g[next][Count(a, p, crlf)])
    BY <2>0, ArrayLine, Zenon
  <2>2. r = Array(f[next][n])
    BY <1>13, ArrayLine, Zenon
  <2>3. f[next][n].ok
    <3>1. PICK e : e = f[next][n]
      OBVIOUS
    <3> QED BY <1>6, <2>2, <3>1, Zenon DEF Array
  <2>4. g[next][n] = f[next][n]
    BY <1>6, <1>7, <1>13, <2>3, Zenon DEF Kept
  <2> QED
    BY <1>1, <1>4, <2>1, <2>2, <2>4, Zenon
<1>14. CASE c \notin Marks \/ (c \in {":", "$", "*"} /\ num = {})
  <2>1. r = nullopt
    BY <1>14, NoLine, Zenon
  <2> QED
    BY <1>6, <2>1
<1> QED
  BY <1>8, <1>9, <1>10, <1>11, <1>12, <1>13, <1>14, Zenon DEF Marks

(* So does a value that is found at p.                                     *)
LEMMA ParseKept ==
  ASSUME NEW S, NEW b \in Seq(S), NEW d \in Seq(S), NEW p \in 1 .. Len(b) + 1,
         NEW f, NEW g, Kept(b, f, g, p), ParseAt(b, p, f).ok
  PROVE  ParseAt(b \o d, p, g) = ParseAt(b, p, f)
<1>0. p \in Nat \ {0}
  BY SMT
<1>1. LineEnds(b, p) # {}
  BY ParseAtLine, Zenon DEF nullopt
<1>2. PICK m \in p .. Len(b) - 1 : m = Min(LineEnds(b, p))
  BY <1>1, <1>0, FirstLine, Zenon
<1>3. LineEnds(b \o d, p) # {} /\ Min(LineEnds(b \o d, p)) = m
  BY <1>0, <1>1, <1>2, FirstLineKept, Zenon
<1>4. ParseAt(b, p, f) = AfterLine(b, p, m, f)
  BY <1>1, <1>2, ParseAtLine, Zenon
<1>5. ParseAt(b \o d, p, g) = AfterLine(b \o d, p, m, g)
  BY <1>3, ParseAtLine, Zenon
<1>6. AfterLine(b, p, m, f).ok
  BY <1>4
<1>7. AfterLine(b \o d, p, m, g) = AfterLine(b, p, m, f)
  BY <1>6, LineKept
<1> QED
  BY <1>4, <1>5, <1>7, Zenon

(* And so do the elements of an array.                                     *)
LEMMA EntryKept ==
  ASSUME NEW S, NEW b \in Seq(S), NEW d \in Seq(S), NEW p \in 1 .. Len(b) + 1, NEW n \in Numerals,
         NEW f, NEW g, Kept(b, f, g, p), Sane(b, f, p), Entry(b, f, p, n).ok
  PROVE  Entry(b \o d, g, p, n) = Entry(b, f, p, n)
<1>0. ~nullopt.ok
  BY DEF nullopt
<1>1. CASE n <= 0
  BY <1>1, Zenon DEF Entry
<1>2. CASE ~(n <= 0)
  <2>1. PICK e, t : e = ParseAt(b, p, f) /\ t = f[e.pos][n - 1]
    BY Zenon
  <2>2. e.ok /\ Entry(b, f, p, n) = Prepend(e.val, t)
    BY <1>0, <1>2, <2>1, ThenRest, Zenon DEF Entry
  <2>3. e.pos \in p + 1 .. Len(b) + 1
    BY <2>1, <2>2, ParseSane, Zenon
  <2>4. n - 1 \in Numerals
    BY <1>2, NumberAssumption, SMT DEF Numerals
  <2>5. t.ok
    BY <1>0, <2>2, Zenon DEF Prepend
  <2>6. g[e.pos][n - 1] = t
    BY <2>1, <2>3, <2>4, <2>5, Zenon DEF Kept
  <2>7. ParseAt(b \o d, p, g) = e
    <3>1. ParseAt(b, p, f).ok
      BY <2>1, <2>2
    <3>2. ParseAt(b \o d, p, g) = ParseAt(b, p, f)
      BY <3>1, ParseKept
    <3> QED
      BY <2>1, <3>2
  <2>8. Entry(b \o d, g, p, n) = Prepend(e.val, t)
    BY <1>2, <2>2, <2>6, <2>7, ThenRest, Zenon DEF Entry
  <2> QED
    BY <2>2, <2>8
<1> QED
  BY <1>1, <1>2

(* The elements an array has in a buffer it has in a longer one.           *)
LEMMA ElementsKept ==
  ASSUME NEW S, NEW b \in Seq(S), NEW d \in Seq(S)
  PROVE  Kept(b, Elements(b), Elements(b \o d), 1)
<1>0. PICK f, g, a : f = Elements(b) /\ g = Elements(a) /\ a = b \o d
  BY Zenon
<1>1. /\ Len(b) \in Nat /\ a \in Seq(S) /\ Len(a) \in Nat /\ Len(b) <= Len(a)
      /\ EntriesFrom(b, f, 1) /\ EntriesFrom(a, g, 1)
  BY <1>0, Beginning, ElementsUnfold, Zenon
<1> DEFINE Bad(p) == \E n \in Numerals : f[p][n].ok /\ g[p][n] # f[p][n]
           T == {j \in 0 .. Len(b) : Bad(Len(b) + 1 - j)}
<1> HIDE DEF Bad
<1>2. ASSUME T = {}, NEW p \in 1 .. Len(b) + 1 PROVE ~Bad(p)
  <2>1. Len(b) + 1 - p \in 0 .. Len(b) /\ Len(b) + 1 - (Len(b) + 1 - p) = p
    BY <1>1, SMT
  <2> QED
    BY <1>2, <2>1, Zenon
<1>3. ASSUME T # {} PROVE FALSE
  <2>1. T \in SUBSET Nat
    BY <1>1, SMT
  <2>2. PICK j \in T : \A m \in T : j <= m
    <3> HIDE DEF T
    <3> QED BY <1>3, <2>1, Smallest
  <2>3. PICK p : p = Len(b) + 1 - j
    OBVIOUS
  <2>4. p \in 1 .. Len(b) + 1 /\ p \in 1 .. Len(a) + 1 /\ Bad(p)
    BY <1>1, <2>2, <2>3, SMT
  <2>5. ASSUME NEW q \in p + 1 .. Len(b) + 1 PROVE ~Bad(q) /\ q \in 1 .. Len(b) + 1
    <3>1. /\ Len(b) + 1 - q \in 0 .. Len(b) /\ Len(b) + 1 - (Len(b) + 1 - q) = q
          /\ ~(j <= Len(b) + 1 - q) /\ q \in 1 .. Len(b) + 1
      BY <1>1, <2>2, <2>3, <2>4, SMT
    <3> QED
      BY <2>2, <3>1, Zenon
  <2>6. Kept(b, f, g, p)
    BY <2>5, Zenon DEF Kept, Bad
  <2>7. 1 \in 1 .. Len(b) + 2
    BY <1>1, SMT
  <2>8. Sane(b, f, p)
    BY <1>1, <2>5, <2>7, EntriesSane, Zenon DEF Sane
  <2>9. PICK n \in Numerals : f[p][n].ok /\ g[p][n] # f[p][n]
    BY <2>4, Zenon DEF Bad
  <2>10. f[p][n] = Entry(b, f, p, n) /\ g[p][n] = Entry(a, g, p, n)
    BY <1>1, <2>4, Zenon DEF EntriesFrom
  <2>11. Entry(a, g, p, n) = Entry(b, f, p, n)
    BY <1>0, <2>4, <2>6, <2>8, <2>9, <2>10, EntryKept, Zenon
  <2> QED
    BY <2>9, <2>10, <2>11
<1>4. \A q \in 1 + 1 .. Len(b) + 1 : q \in 1 .. Len(b) + 1
  BY <1>1, SMT
<1> QED
  BY <1>0, <1>2, <1>3, <1>4, Zenon DEF Kept, Bad

(* RESPParser::parse, on which handle_client, the replay of the file and   *)
(* the replica's worker rely: as long as no number is below -1, a frame    *)
(* that is found is not empty, ends inside the buffer, and is the one      *)
(* found in any longer buffer, however large the lengths and the counts    *)
(* and however deep the arrays.                                            *)
THEOREM FramesStand ==
  ASSUME NEW b \in Seq(Token), NEW d \in Seq(Token), parse(b).ok
  PROVE  parse(b).pos \in 2 .. Len(b) + 1 /\ parse(b \o d) = parse(b)
<1>1. 1 \in 1 .. Len(b) + 1
  BY SMT
<1>2. ParseAt(b \o d, 1, Elements(b \o d)) = ParseAt(b, 1, Elements(b))
  <2>1. PICK f, g : f = Elements(b) /\ g = Elements(b \o d)
    BY Zenon
  <2>2. Kept(b, f, g, 1) /\ ParseAt(b, 1, f).ok
    BY <2>1, ElementsKept, Zenon DEF parse, parse_internal
  <2>3. ParseAt(b \o d, 1, g) = ParseAt(b, 1, f)
    BY <1>1, <2>2, ParseKept
  <2> QED
    BY <2>1, <2>3
<1> QED
  BY <1>2, ParseProgress, Zenon DEF parse, parse_internal

-----------------------------------------------------------------------------
(* Sequences one behind the other.                                         *)

(* What was received and what is added to it.                              *)
LEMMA Joined ==
  ASSUME NEW S, NEW s \in Seq(S), NEW t \in Seq(S)
  PROVE  s \o t \in Seq(S) /\ Len(s \o t) = Len(s) + Len(t) /\ Len(s) \in Nat /\ Len(t) \in Nat
OBVIOUS

(* It makes no difference in which order parts are put together.           *)
LEMMA Regrouped ==
  ASSUME NEW S
  PROVE  \A s \in Seq(S), t \in Seq(S), u \in Seq(S) : (s \o t) \o u = s \o (t \o u)
<1> TAKE s \in Seq(S), t \in Seq(S), u \in Seq(S)
<1> QED BY ConcatAssociative

(* An empty part adds nothing.                                             *)
LEMMA EmptyAround ==
  ASSUME NEW S, NEW s \in Seq(S)
  PROVE  <<>> \in Seq(S) /\ <<>> \o s = s /\ s \o <<>> = s
OBVIOUS

(* What two sequences have behind the same beginning.                      *)
LEMMA Cancelled ==
  ASSUME NEW S, NEW s \in Seq(S), NEW t \in Seq(S), NEW u \in Seq(S), s \o t = s \o u
  PROVE  t = u
<1>1. Len(t) = Len(u)
  <2>1. Len(s \o t) = Len(s) + Len(t) /\ Len(s \o u) = Len(s) + Len(u)
    OBVIOUS
  <2> QED
    BY <2>1
<1>2. ASSUME NEW i \in 1 .. Len(t) PROVE t[i] = u[i]
  <2>1. (s \o t)[Len(s) + i] = t[i]
    OBVIOUS
  <2>2. (s \o u)[Len(s) + i] = u[i]
    BY <1>1
  <2> QED
    BY <2>1, <2>2
<1> QED
  BY <1>1, <1>2, SeqEqual

(* A beginning of a sequence is cut off, whatever follows the sequence.    *)
LEMMA CutJoined ==
  ASSUME NEW S, NEW s \in Seq(S), NEW t \in Seq(S), NEW p \in 1 .. Len(s) + 1
  PROVE  /\ SubSeq(s, p, Len(s)) \in Seq(S)
         /\ SubSeq(s \o t, p, Len(s \o t)) = SubSeq(s, p, Len(s)) \o t
<1> DEFINE a == SubSeq(s \o t, p, Len(s \o t))
           b == SubSeq(s, p, Len(s)) \o t
<1>1. Len(s \o t) = Len(s) + Len(t) /\ Len(SubSeq(s, p, Len(s))) = Len(s) + 1 - p
  OBVIOUS
<1>2. a \in Seq(S) /\ b \in Seq(S)
  OBVIOUS
<1>3. Len(a) = Len(b)
  BY <1>1
<1>4. \A i \in 1 .. Len(a) : a[i] = b[i]
  BY <1>1
<1>5. a = b
  <2> HIDE DEF a, b
  <2> QED BY ONLY <1>2, <1>3, <1>4, SeqEqual
<1> QED
  BY <1>5

(* A sequence in two parts.                                                *)
LEMMA TwoParts ==
  ASSUME NEW S, NEW s \in Seq(S), NEW n \in 0 .. Len(s)
  PROVE  /\ SubSeq(s, 1, n) \in Seq(S) /\ SubSeq(s, n + 1, Len(s)) \in Seq(S)
         /\ SubSeq(s, 1, n) \o SubSeq(s, n + 1, Len(s)) = s
<1> DEFINE a == SubSeq(s, 1, n)
           b == SubSeq(s, n + 1, Len(s))
<1>1. a \in Seq(S) /\ b \in Seq(S) /\ Len(a) = n /\ Len(b) = Len(s) - n
  OBVIOUS
<1>2. \A i \in 1 .. n : a[i] = s[i]
  OBVIOUS
<1>3. \A i \in 1 .. Len(s) - n : b[i] = s[n + i]
  OBVIOUS
<1>4. a \o b = s
  <2> HIDE DEF a, b
  <2>1. a \o b \in Seq(S) /\ Len(a \o b) = Len(s)
    BY <1>1
  <2>2. ASSUME NEW i \in 1 .. Len(s) PROVE (a \o b)[i] = s[i]
    <3>1. CASE i <= n
      BY <1>1, <1>2, <3>1
    <3>2. CASE ~(i <= n)
      <4>0. i \in 1 .. Len(a) + Len(b) /\ ~(i <= Len(a)) /\ i - Len(a) = i - n
        BY <1>1, <3>2
      <4>1. (a \o b)[i] = b[i - n] /\ i - n \in 1 .. Len(s) - n
        <5>1. (a \o b)[i] = b[i - n]
          BY <1>1, <4>0, ConcatProperties, Zenon
        <5> QED BY <3>2, <5>1
      <4> QED
        BY <1>3, <4>1
    <3> QED
      BY <3>1, <3>2
  <2> QED
    BY <2>1, <2>2, SeqEqual
<1> QED
  BY <1>1, <1>4

(* What comes behind a whole sequence.                                     *)
LEMMA Behind ==
  ASSUME NEW S, NEW s \in Seq(S), NEW t \in Seq(S)
  PROVE  SubSeq(s \o t, Len(s) + 1, Len(s \o t)) = t
<1>0. Len(s) \in Nat /\ Len(s) + 1 \in 1 .. Len(s) + 1
  OBVIOUS
<1>1. SubSeq(s, Len(s) + 1, Len(s)) = <<>>
  OBVIOUS
<1>2. SubSeq(s \o t, Len(s) + 1, Len(s \o t)) = SubSeq(s, Len(s) + 1, Len(s)) \o t
  BY <1>0, CutJoined
<1> QED
  BY <1>1, <1>2, EmptyAround

-----------------------------------------------------------------------------
(* Many sequences one behind the other.                                    *)

(* f[i] is the first i members of s, one behind the other.                 *)
Adds(s, f) == f = [i \in 0 .. Len(s) |-> IF i = 0 THEN <<>> ELSE f[i - 1] \o s[i]]

(* There is such an f.                                                     *)
LEMMA AddsExist ==
  ASSUME NEW S, NEW s \in Seq(S)
  PROVE  Adds(s, Joins(s))
<1> DEFINE Upto(f, k) == \A i \in 0 .. k : f[i] = IF i = 0 THEN <<>> ELSE f[i - 1] \o s[i]
           T == {k \in Nat : ~\E f : Upto(f, k)}
<1>0. Len(s) \in Nat
  OBVIOUS
<1>1. ASSUME T # {} PROVE FALSE
  <2>1. T \in SUBSET Nat
    OBVIOUS
  <2>2. PICK k \in T : \A m \in T : k <= m
    <3> HIDE DEF T
    <3> QED BY <1>1, <2>1, Smallest
  <2>3. CASE k = 0
    <3>1. PICK f : f = [i \in {0} |-> <<>>]
      OBVIOUS
    <3>2. \A i \in 0 .. k : i = 0
      BY <2>3, SMT
    <3>3. Upto(f, k)
      BY <3>1, <3>2, Zenon
    <3> QED
      BY <2>2, <3>3, Zenon
  <2>4. CASE k # 0
    <3>1. k - 1 \in Nat /\ ~(k <= k - 1) /\ k \in Nat
      BY <2>2, <2>4, SMT
    <3>2. PICK g : Upto(g, k - 1)
      BY <2>2, <3>1, Zenon
    <3>3. PICK f : f = [i \in 0 .. k |-> IF i = k THEN g[k - 1] \o s[k] ELSE g[i]]
      OBVIOUS
    <3>4. ASSUME NEW i \in 0 .. k PROVE f[i] = IF i = 0 THEN <<>> ELSE f[i - 1] \o s[i]
      <4>1. CASE i = k
        <5>1. k \in 0 .. k /\ k - 1 \in 0 .. k /\ k - 1 # k
          BY <3>1, SMT
        <5>2. f[k] = g[k - 1] \o s[k] /\ f[k - 1] = g[k - 1]
          BY <3>3, <5>1, Zenon
        <5> QED
          BY <2>4, <4>1, <5>2, Zenon
      <4>2. CASE i # k
        <5>1. i \in 0 .. k - 1 /\ (i # 0 => i - 1 \in 0 .. k /\ i - 1 # k)
          BY <3>1, <4>2, SMT
        <5>2. f[i] = g[i] /\ (i # 0 => f[i - 1] = g[i - 1])
          BY <3>3, <4>2, <5>1, Zenon
        <5>3. g[i] = IF i = 0 THEN <<>> ELSE g[i - 1] \o s[i]
          BY <3>2, <5>1, Zenon
        <5> QED
          BY <5>2, <5>3, Zenon
      <4> QED
        BY <4>1, <4>2
    <3>5. Upto(f, k)
      BY <3>4, Zenon
    <3> QED
      BY <2>2, <3>5, Zenon
  <2> QED
    BY <2>3, <2>4
<1>2. PICK g : Upto(g, Len(s))
  BY <1>0, <1>1, Zenon
<1>3. PICK f : f = [i \in 0 .. Len(s) |-> g[i]]
  OBVIOUS
<1>4. ASSUME NEW i \in 0 .. Len(s) PROVE f[i] = IF i = 0 THEN <<>> ELSE f[i - 1] \o s[i]
  <2>1. i # 0 => i - 1 \in 0 .. Len(s)
    BY <1>0, SMT
  <2>2. f[i] = g[i] /\ (i # 0 => f[i - 1] = g[i - 1])
    BY <1>3, <2>1, Zenon
  <2> QED
    BY <1>2, <2>2, Zenon
<1>5. Adds(s, f)
  BY <1>3, <1>4, Zenon DEF Adds
<1> QED
  BY <1>5, Zenon DEF Joins, Adds

(* One member is added at a time.                                          *)
LEMMA JoinsStep ==
  ASSUME NEW S, NEW s \in Seq(S)
  PROVE  /\ Joins(s)[0] = <<>>
         /\ \A i \in 1 .. Len(s) : Joins(s)[i] = Joins(s)[i - 1] \o s[i]
<1>1. 0 \in 0 .. Len(s) /\ \A i \in 1 .. Len(s) : i \in 0 .. Len(s) /\ i # 0
  BY SMT
<1>2. PICK f : f = Joins(s) /\ Adds(s, f)
  BY AddsExist, Zenon
<1>3. f = [i \in 0 .. Len(s) |-> IF i = 0 THEN <<>> ELSE f[i - 1] \o s[i]]
  BY <1>2, Zenon DEF Adds
<1>4. f[0] = <<>>
  BY <1>1, <1>3, Zenon
<1>5. ASSUME NEW i \in 1 .. Len(s) PROVE f[i] = f[i - 1] \o s[i]
  BY <1>1, <1>3, Zenon
<1> QED
  BY <1>2, <1>4, <1>5, Zenon

(* Every part of the join is a sequence.                                   *)
LEMMA JoinsType ==
  ASSUME NEW S, NEW s \in Seq(Seq(S)), NEW k \in 0 .. Len(s)
  PROVE  Joins(s)[k] \in Seq(S)
<1> DEFINE T == {i \in 0 .. Len(s) : Joins(s)[i] \notin Seq(S)}
<1> SUFFICES ASSUME T # {} PROVE FALSE
  BY Zenon
<1>0. T \in SUBSET Nat /\ Len(s) \in Nat
  OBVIOUS
<1>1. PICK i \in T : \A m \in T : i <= m
  <2> HIDE DEF T
  <2> QED BY <1>0, Smallest
<1>2. CASE i = 0
  <2>1. Joins(s)[i] = <<>>
    BY <1>2, JoinsStep, Zenon
  <2>2. <<>> \in Seq(S)
    OBVIOUS
  <2> QED
    BY <1>1, <2>1, <2>2, Zenon
<1>3. CASE i # 0
  <2>1. i \in 1 .. Len(s) /\ i - 1 \in 0 .. Len(s) /\ ~(i <= i - 1)
    BY <1>0, <1>1, <1>3, SMT
  <2>2. PICK a \in Seq(S) : a = Joins(s)[i - 1]
    BY <1>1, <2>1, Zenon
  <2>3. PICK c \in Seq(S) : c = s[i]
    <3>1. s[i] \in Seq(S)
      BY <2>1
    <3> QED BY <3>1, Zenon
  <2>4. Joins(s)[i] = a \o c
    BY <2>1, <2>2, <2>3, JoinsStep, Zenon
  <2>5. a \o c \in Seq(S)
    BY Joined, Zenon
  <2> QED
    BY <1>1, <2>4, <2>5, Zenon
<1> QED
  BY <1>2, <1>3

(* Every part of the join is a beginning of it.                            *)
LEMMA JoinsRest ==
  ASSUME NEW S, NEW s \in Seq(Seq(S)), NEW k \in 0 .. Len(s)
  PROVE  \E y \in Seq(S) : Joins(s)[k] \o y = Joins(s)[Len(s)]
<1> DEFINE Off(i) == ~\E y \in Seq(S) : Joins(s)[i] \o y = Joins(s)[Len(s)]
           T == {j \in 0 .. Len(s) : Off(Len(s) - j)}
<1>0. T \in SUBSET Nat /\ Len(s) \in Nat
  OBVIOUS
<1>a. \A t \in Seq(S), u \in Seq(S), w \in Seq(S) : (t \o u) \o w = t \o (u \o w)
  BY ONLY Regrouped
<1>1. ASSUME Off(k) PROVE T # {}
  <2>1. Len(s) - k \in 0 .. Len(s) /\ Len(s) - (Len(s) - k) = k
    BY <1>0, SMT
  <2> HIDE DEF Off
  <2> QED BY <1>1, <2>1, Zenon
<1>2. SUFFICES ASSUME T # {} PROVE FALSE
  BY <1>1, Zenon
<1>3. PICK j \in T : \A m \in T : j <= m
  <2> HIDE DEF T
  <2> QED BY <1>0, <1>2, Smallest
<1>4. PICK i : i = Len(s) - j
  OBVIOUS
<1>5. i \in 0 .. Len(s) /\ Off(i)
  <2> HIDE DEF Off
  <2>1. j \in 0 .. Len(s) /\ Off(Len(s) - j)
    BY <1>3, Zenon
  <2>2. i \in 0 .. Len(s)
    BY <1>0, <1>4, <2>1, SMT
  <2> QED BY <1>4, <2>1, <2>2, Zenon
<1>6. PICK f \in Seq(S) : f = Joins(s)[i]
  BY <1>5, JoinsType, Zenon
<1>7. CASE j = 0
  <2>1. i = Len(s)
    BY <1>0, <1>4, <1>7, SMT
  <2>2. f \o <<>> = f /\ <<>> \in Seq(S)
    BY EmptyAround, Zenon
  <2> QED
    BY <1>5, <1>6, <2>1, <2>2, Zenon
<1>8. CASE j # 0
  <2>1. /\ j - 1 \in 0 .. Len(s) /\ ~(j <= j - 1) /\ Len(s) - (j - 1) = i + 1
        /\ i + 1 \in 1 .. Len(s) /\ (i + 1) - 1 = i
    BY <1>0, <1>3, <1>4, <1>8, SMT
  <2>2. ~Off(i + 1)
    <3> HIDE DEF Off
    <3> QED BY <1>3, <2>1, Zenon
  <2>3. PICK y \in Seq(S) : Joins(s)[i + 1] \o y = Joins(s)[Len(s)]
    BY <2>2, Zenon
  <2>4. PICK c \in Seq(S) : c = s[i + 1]
    <3>1. s[i + 1] \in Seq(S)
      BY <2>1
    <3> QED BY <3>1, Zenon
  <2>5. Joins(s)[i + 1] = f \o c
    BY <1>6, <2>1, <2>4, JoinsStep, Zenon
  <2>6. f \o (c \o y) = Joins(s)[Len(s)] /\ c \o y \in Seq(S)
    <3>1. (f \o c) \o y = f \o (c \o y)
      BY ONLY <1>a, f \in Seq(S), c \in Seq(S), y \in Seq(S), Zenon
    <3>2. c \o y \in Seq(S)
      BY Joined, Zenon
    <3> QED
      BY <2>3, <2>5, <3>1, <3>2, Zenon
  <2> QED
    BY <1>5, <1>6, <2>6, Zenon
<1> QED
  BY <1>7, <1>8

-----------------------------------------------------------------------------
(* The replay loop.                                                        *)

(* A buffer without its first frame, and one round of the replay.          *)
Remains(b) == Erase(b, parse(b))
Round(h, b) == IF parse(b).ok THEN <<parse(b).val>> \o h[Remains(b)] ELSE <<>>
Short(n) == {b \in Seq(Token) : Len(b) <= n}
Replays(h, n) == h = [b \in Short(n) |-> Round(h, b)]

(* What fails of some buffer fails of one, but of no shorter one.          *)
LEMMA Shortest ==
  ASSUME NEW B \in SUBSET Seq(Token), B # {}
  PROVE  \E b \in B : \A d \in B : Len(b) <= Len(d)
<1> DEFINE N == {Len(b) : b \in B}
<1>1. N \in SUBSET Nat /\ N # {}
  <2>1. \A b \in B : Len(b) \in Nat
    OBVIOUS
  <2> QED BY <2>1, Zenon
<1>2. PICK n \in N : \A m \in N : n <= m
  <2> HIDE DEF N
  <2> QED BY <1>1, Smallest
<1> QED
  BY <1>2

(* The parser makes the buffer shorter.                                    *)
LEMMA Remainder ==
  ASSUME NEW b \in Seq(Token), parse(b).ok
  PROVE  Remains(b) \in Seq(Token) /\ Len(Remains(b)) < Len(b)
<1>1. parse(b).pos \in 2 .. Len(b) + 1
  BY ParseProgress
<1>2. PICK p : p = parse(b).pos
  OBVIOUS
<1>3. SubSeq(b, p, Len(b)) \in Seq(Token) /\ Len(SubSeq(b, p, Len(b))) < Len(b)
  BY <1>1, <1>2
<1> QED
  BY <1>2, <1>3 DEF Remains, Erase

(* Replays of shorter and of longer buffers agree.                         *)
LEMMA ReplaysAgree ==
  ASSUME NEW m \in Nat, NEW n \in Nat, NEW g, NEW h, Replays(g, m), Replays(h, n)
  PROVE  \A b \in Short(m) : b \in Short(n) => g[b] = h[b]
<1> DEFINE B == {b \in Seq(Token) : Len(b) <= m /\ Len(b) <= n /\ g[b] # h[b]}
<1> SUFFICES ASSUME B # {} PROVE FALSE
  BY DEF Short
<1>1. PICK b \in B : \A d \in B : Len(b) <= Len(d)
  <2>1. B \in SUBSET Seq(Token)
    OBVIOUS
  <2> HIDE DEF B
  <2> QED BY <2>1, Shortest
<1>2. b \in Seq(Token) /\ b \in Short(m) /\ b \in Short(n) /\ g[b] # h[b]
  BY DEF Short
<1>3. g[b] = Round(g, b) /\ h[b] = Round(h, b)
  BY <1>2, Zenon DEF Replays
<1>4. CASE ~parse(b).ok
  BY <1>2, <1>3, <1>4, Zenon DEF Round
<1>5. CASE parse(b).ok
  <2>1. PICK d \in Seq(Token) : d = Remains(b) /\ Len(d) < Len(b)
    BY <1>2, <1>5, Remainder, Zenon
  <2>2. d \notin B
    BY <1>1, <2>1
  <2>3. Len(d) <= m /\ Len(d) <= n
    BY <1>1, <2>1
  <2>4. g[d] = h[d]
    BY <2>2, <2>3
  <2> QED
    BY <1>2, <1>3, <1>5, <2>1, <2>4, Zenon DEF Round
<1> QED
  BY <1>4, <1>5

(* The replay of longer buffers is put together from that of shorter ones. *)
LEMMA ReplaysExist ==
  ASSUME NEW n \in Nat
  PROVE  \E h : Replays(h, n)
<1> DEFINE T == {k \in Nat : ~\E h : Replays(h, k)}
<1> SUFFICES ASSUME T # {} PROVE FALSE
  OBVIOUS
<1>1. PICK k \in T : \A m \in T : k <= m
  <2>1. T \in SUBSET Nat
    OBVIOUS
  <2> HIDE DEF T
  <2> QED BY <2>1, Smallest
<1>2. PICK g : \A d \in Seq(Token) : Len(d) < k => d \in DOMAIN g /\ g[d] = Round(g, d)
  <2>1. CASE k = 0
    <3>1. \A d \in Seq(Token) : ~(Len(d) < k)
      BY <2>1
    <3> QED
      BY <3>1
  <2>2. CASE k # 0
    <3>1. k - 1 \in Nat /\ k - 1 \notin T
      BY <1>1, <2>2
    <3>2. PICK g : Replays(g, k - 1)
      BY <3>1
    <3>3. \A d \in Seq(Token) : Len(d) < k => d \in Short(k - 1)
      BY <2>2 DEF Short
    <3>4. \A d \in Short(k - 1) : d \in DOMAIN g /\ g[d] = Round(g, d)
      BY <3>2, Zenon DEF Replays
    <3> QED
      BY <3>3, <3>4, Zenon
  <2> QED
    BY <2>1, <2>2
<1>3. PICK h : h = [b \in Short(k) |-> Round(g, b)]
  OBVIOUS
<1>4. ASSUME NEW d \in Seq(Token), Len(d) < k PROVE h[d] = g[d]
  <2>1. d \in Short(k)
    BY <1>4 DEF Short
  <2> QED
    BY <1>2, <1>3, <1>4, <2>1, Zenon
<1>5. ASSUME NEW b \in Short(k) PROVE Round(g, b) = Round(h, b)
  <2>1. b \in Seq(Token) /\ Len(b) <= k
    BY DEF Short
  <2>2. CASE parse(b).ok
    <3>1. Remains(b) \in Seq(Token) /\ Len(Remains(b)) < Len(b)
      BY <2>1, <2>2, Remainder, Zenon
    <3>2. Len(Remains(b)) < k
      BY <2>1, <3>1
    <3>3. h[Remains(b)] = g[Remains(b)]
      BY <1>4, <3>1, <3>2, Zenon
    <3> QED
      BY <3>3, Zenon DEF Round
  <2>3. CASE ~parse(b).ok
    BY <2>3, Zenon DEF Round
  <2> QED
    BY <2>2, <2>3
<1>6. h = [b \in Short(k) |-> Round(h, b)]
  BY <1>3, <1>5, Zenon
<1> QED
  BY <1>1, <1>6 DEF Replays

(* Server::start: the replay of a file, one round at a time.               *)
LEMMA ReplayUnfold ==
  \A b \in Seq(Token) : ParseAll[b] = Round(ParseAll, b)
<1>1. PICK H : H = [b \in Seq(Token) |-> (CHOOSE h : Replays(h, Len(b)))[b]]
  OBVIOUS
<1>2. ASSUME NEW b \in Seq(Token) PROVE H[b] = Round(H, b)
  <2>0. Len(b) \in Nat
    OBVIOUS
  <2>1. PICK h : h = (CHOOSE x : Replays(x, Len(b))) /\ Replays(h, Len(b))
    BY <2>0, ReplaysExist, Zenon
  <2>2. H[b] = h[b] /\ b \in Short(Len(b))
    BY <1>1, <2>1 DEF Short
  <2>3. h[b] = Round(h, b)
    BY <2>1, <2>2, Zenon DEF Replays
  <2>4. CASE ~parse(b).ok
    BY <2>2, <2>3, <2>4, Zenon DEF Round
  <2>5. CASE parse(b).ok
    <3>1. PICK d \in Seq(Token) : d = Remains(b) /\ Len(d) < Len(b)
      BY <2>5, Remainder, Zenon
    <3>3. d \in Short(Len(d)) /\ d \in Short(Len(b)) /\ Len(d) \in Nat /\ Len(b) \in Nat
      BY <3>1 DEF Short
    <3>2. PICK g : g = (CHOOSE x : Replays(x, Len(d))) /\ Replays(g, Len(d))
      BY <3>3, ReplaysExist, Zenon
    <3>4. g[d] = h[d]
      <4> PICK m, n : m = Len(d) /\ n = Len(b)
        OBVIOUS
      <4>1. m \in Nat /\ n \in Nat /\ Replays(g, m) /\ Replays(h, n) /\ d \in Short(m) /\ d \in Short(n)
        BY <2>1, <3>2, <3>3, Zenon
      <4> QED
        BY ONLY <4>1, ReplaysAgree, SMT
    <3>5. H[d] = h[d]
      BY <1>1, <3>2, <3>4, Zenon
    <3> QED
      BY <2>2, <2>3, <3>1, <3>5, Zenon DEF Round
  <2> QED
    BY <2>4, <2>5
<1>3. H = [b \in Seq(Token) |-> Round(H, b)]
  BY <1>1, <1>2, Zenon
<1> DEFINE Is(f) == f = [b \in Seq(Token) |->
              LET r == parse(b) IN IF r.ok THEN <<r.val>> \o f[Erase(b, r)] ELSE <<>>]
<1>4. Is(H)
  BY <1>3, Zenon DEF Round, Remains
<1>5. ParseAll = CHOOSE f : Is(f)
  BY Zenon DEF ParseAll
<1>6. Is(ParseAll)
  <2> HIDE DEF Is
  <2> QED BY <1>4, <1>5, Zenon
<1> QED
  BY <1>6, Zenon DEF Round, Remains

(* Buffers one behind the other.                                           *)
LEMMA Tokens ==
  \A s \in Seq(Token), t \in Seq(Token), u \in Seq(Token) : (s \o t) \o u = s \o (t \o u)
BY Regrouped

(* What the parser returns.                                                *)
LEMMA FoundParts == \A v, p : Found(v, p).ok /\ Found(v, p).val = v /\ Found(v, p).pos = p
BY DEF Found

Vals == {parse(b).val : b \in Seq(Token)}

(* Replays one behind the other.                                           *)
LEMMA Parsed ==
  \A s \in Seq(Vals), t \in Seq(Vals), u \in Seq(Vals) : (s \o t) \o u = s \o (t \o u)
BY Regrouped

(* A replay is a sequence of parsed values.                                *)
LEMMA ReplayType ==
  ASSUME NEW b \in Seq(Token)
  PROVE  ParseAll[b] \in Seq(Vals)
<1> DEFINE B == {d \in Seq(Token) : ParseAll[d] \notin Seq(Vals)}
<1> SUFFICES ASSUME B # {} PROVE FALSE
  OBVIOUS
<1>1. PICK d \in B : \A e \in B : Len(d) <= Len(e)
  <2>1. B \in SUBSET Seq(Token)
    OBVIOUS
  <2> HIDE DEF B
  <2> QED BY <2>1, Shortest
<1>2. ParseAll[d] = Round(ParseAll, d)
  BY ReplayUnfold, Zenon
<1>3. CASE ~parse(d).ok
  <2>1. ParseAll[d] = <<>>
    BY <1>2, <1>3, Zenon DEF Round
  <2>2. <<>> \in Seq(Vals)
    OBVIOUS
  <2> QED
    BY <2>1, <2>2, Zenon
<1>4. CASE parse(d).ok
  <2>1. PICK e \in Seq(Token) : e = Remains(d) /\ Len(e) < Len(d)
    BY <1>4, Remainder, Zenon
  <2>2. e \notin B
    BY <1>1, <2>1
  <2>3. PICK t \in Seq(Vals) : t = ParseAll[e]
    BY <2>2, Zenon
  <2>4. PICK v \in Vals : v = parse(d).val
    BY Zenon DEF Vals
  <2>5. ParseAll[d] = <<v>> \o t
    BY <1>2, <1>4, <2>1, <2>3, <2>4, Zenon DEF Round
  <2>6. <<v>> \o t \in Seq(Vals)
    OBVIOUS
  <2> QED
    BY <2>5, <2>6, Zenon
<1> QED
  BY <1>3, <1>4

(* What a replay finds is the first frame, and then what it finds behind   *)
(* it, whatever bytes follow.                                              *)
LEMMA ReplayFrame ==
  ASSUME NEW b \in Seq(Token), NEW d \in Seq(Token), parse(b).ok
  PROVE  ParseAll[b \o d] = <<parse(b).val>> \o ParseAll[Remains(b) \o d]
<1>1. PICK e \in Seq(Token) : e = b \o d
  BY Joined, Zenon
<1>2. parse(b).pos \in 2 .. Len(b) + 1 /\ parse(e) = parse(b)
  BY <1>1, FramesStand, Zenon
<1>3. Remains(e) = Remains(b) \o d
  <2>1. PICK p : p = parse(b).pos
    OBVIOUS
  <2>2. p \in 1 .. Len(b) + 1
    BY <1>2, <2>1, SMT
  <2>3. SubSeq(b \o d, p, Len(b \o d)) = SubSeq(b, p, Len(b)) \o d
    BY <2>2, CutJoined
  <2> QED
    BY <1>1, <1>2, <2>1, <2>3, Zenon DEF Remains, Erase
<1>4. ParseAll[e] = Round(ParseAll, e)
  BY ReplayUnfold, Zenon
<1> QED
  BY <1>1, <1>2, <1>3, <1>4, Zenon DEF Round
===============================================================================
