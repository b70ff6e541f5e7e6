-------------------------- MODULE FileStreamProofs --------------------------
(***************************************************************************)
(* The files of a phase are what the model wrote, for any files, any       *)
(* number of lines and retries and any cutting of the answer into chunks.  *)
(*                                                                         *)
(* The argument follows a parser that is handed every token as soon as it  *)
(* is received (Fed).  Between two lines that parser and the answer read   *)
(* so far are in one of two relations: in step, when the parser is where   *)
(* the model is, or out of step, when a retry began in the middle of a     *)
(* block or a line, or when a content line that begins with the end marker *)
(* was cut behind it and closed its block; then all the names the parser   *)
(* can still use are spoilt.  The end of the block, or of the first block  *)
(* of the retry, brings them back in step.  The parser that is fed chunks  *)
(* differs from the other one only by a marker it has not been handed yet. *)
(***************************************************************************)
EXTENDS FileStream, SequenceTheorems, FiniteSetTheorems, WellFoundedInduction, TLAPS

-----------------------------------------------------------------------------
(* Tokens, positions and lists. *)

\* The tokens the parser tells apart.
LEMMA TokenFacts ==
  /\ NewLine # Pad /\ NewLine # Marker /\ NewLine # Text /\ NewLine # Added /\ NewLine # Here
  /\ NewLine # CatHere /\ NewLine # InstallCommand
  /\ Pad # Marker /\ Pad # Text /\ Pad # Added /\ Pad # Here /\ Pad # CatHere /\ Pad # InstallCommand
  /\ Marker # Text /\ Marker # Added /\ Marker # Here /\ Marker # CatHere /\ Marker # InstallCommand
  /\ Here # CatHere /\ Here # InstallCommand /\ CatHere # InstallCommand /\ Text # Added
  /\ \A t \in {NewLine, Pad, Marker, Text, Added, InstallCommand, Here, CatHere} :
        t \in Token /\ t.file = NoFile /\ t.kind # "cat" /\ t.kind # "patch"
  /\ \A f \in File : /\ Cat(f) \in Token /\ Cat(f).file = f /\ Cat(f).kind = "cat"
                     /\ Patch(f) \in Token /\ Patch(f).file = f /\ Patch(f).kind = "patch"
                     /\ \A t \in {NewLine, Pad, Marker, Text, Added, InstallCommand, Here, CatHere} :
                           t # Cat(f) /\ t # Patch(f)
<1>1. /\ NewLine.kind = "newline" /\ Pad.kind = "pad" /\ Marker.kind = "EOF" /\ Text.kind = "text"
      /\ Added.kind = "added" /\ InstallCommand.kind = "install" /\ Here.kind = "here"
      /\ CatHere.kind = "cathere"
  BY DEF NewLine, Pad, Marker, Text, Added, InstallCommand, Here, CatHere, Word
<1>2. \A t \in {NewLine, Pad, Marker, Text, Added, InstallCommand, Here, CatHere} :
        t \in Token /\ t.file = NoFile
  <2>1. \A k : Word(k).file = NoFile
    BY DEF Word
  <2> QED
    BY <2>1 DEF NewLine, Pad, Marker, Text, Added, InstallCommand, Here, CatHere, Token
<1>3. \A f \in File : /\ Cat(f) \in Token /\ Cat(f).file = f /\ Cat(f).kind = "cat"
                      /\ Patch(f) \in Token /\ Patch(f).file = f /\ Patch(f).kind = "patch"
  <2>1. \A f : /\ Cat(f).file = f /\ Cat(f).kind = "cat"
               /\ Patch(f).file = f /\ Patch(f).kind = "patch"
    BY DEF Cat, Patch
  <2> QED
    BY <2>1 DEF Token
<1>4. \A t \in {NewLine, Pad, Marker, Text, Added, InstallCommand, Here, CatHere} :
        t.kind # "cat" /\ t.kind # "patch"
  BY <1>1
<1>5. /\ NewLine # Pad /\ NewLine # Marker /\ NewLine # Text /\ NewLine # Added /\ NewLine # Here
      /\ NewLine # CatHere /\ NewLine # InstallCommand
      /\ Pad # Marker /\ Pad # Text /\ Pad # Added /\ Pad # Here /\ Pad # CatHere /\ Pad # InstallCommand
  BY <1>1
<1>6. /\ Marker # Text /\ Marker # Added /\ Marker # Here /\ Marker # CatHere /\ Marker # InstallCommand
      /\ Here # CatHere /\ Here # InstallCommand /\ CatHere # InstallCommand /\ Text # Added
  BY <1>1
<1>7. \A f \in File : \A t \in {NewLine, Pad, Marker, Text, Added, InstallCommand, Here, CatHere} :
        t # Cat(f) /\ t # Patch(f)
  BY <1>3, <1>4, Zenon
<1> QED
  BY <1>2, <1>3, <1>4, <1>5, <1>6, <1>7, Zenon

\* A token has a file when it is one of the two kinds that name one.
LEMMA NamedTokens ==
  ASSUME NEW t \in Token
  PROVE  /\ t.kind \in {"cat", "patch"} => t.file \in File
         /\ t.file \in File \cup {NoFile}
<1>1. CASE t \in {NewLine, Pad, Marker, Text, Added, InstallCommand, Here, CatHere}
  BY <1>1, TokenFacts
<1>2. CASE \E f \in File : t = Cat(f) \/ t = Patch(f)
  BY <1>2, TokenFacts
<1> QED
  BY <1>1, <1>2 DEF Token

\* Short lists, put together.
LEMMA Literals ==
  ASSUME NEW S, NEW s \in S, NEW t \in S
  PROVE  Append(<<>>, s) = <<s>> /\ Append(<<s>>, t) = <<s, t>>
<1>1. Append(<<>>, s) = <<s>>
  OBVIOUS
<1>2. Append(<<s>>, t) = <<s, t>>
  <2> DEFINE x == Append(<<s>>, t)
  <2> DEFINE y == <<s, t>>
  <2>1. x \in Seq(S) /\ Len(x) = 2 /\ x[1] = s /\ x[2] = t
    OBVIOUS
  <2>2. y \in Seq(S) /\ Len(y) = 2 /\ y[1] = s /\ y[2] = t
    OBVIOUS
  <2> HIDE DEF x, y
  <2>3. \A i \in 1 .. Len(x) : x[i] = y[i]
    BY <2>1, <2>2
  <2>4. x = y
    BY <2>1, <2>2, <2>3, SeqEqual
  <2> QED
    BY <2>4 DEF x, y
<1> QED
  BY <1>1, <1>2

\* The list before its last member.
LEMMA FrontOfAppend ==
  ASSUME NEW S, NEW x \in Seq(S), NEW t \in S
  PROVE  Front(Append(x, t)) = x /\ Last(Append(x, t)) = t
<1> DEFINE y == Append(x, t)
<1>1. y \in Seq(S) /\ Len(x) \in Nat /\ Len(y) = Len(x) + 1 /\ y[Len(x) + 1] = t /\ \A k \in 1 .. Len(x) : y[k] = x[k]
  OBVIOUS
<1> HIDE DEF y
<1> DEFINE z == SubSeq(y, 1, Len(y) - 1)
<1>2. z \in Seq(S) /\ Len(z) = Len(x) /\ \A k \in 1 .. Len(z) : z[k] = x[k]
  BY <1>1
<1> HIDE DEF z
<1>3. z = x
  BY <1>2, SeqEqual
<1> QED
  BY <1>1, <1>3 DEF Front, Last, y, z

\* A non-empty set of numbers has a minimum, and Min finds it.
LEMMA MinOf ==
  ASSUME NEW S \in SUBSET Nat, S # {}
  PROVE  Min(S) \in S /\ \A y \in S : Min(S) <= y
<1>1. PICK x \in S : \A y \in S : ~ (<<y, x>> \in OpToRel(<, Nat))
  BY NatLessThanWellFounded, WFMin
<1>2. \A y \in S : ~ (y < x)
  BY <1>1 DEF OpToRel
<1>3. \A y \in S : x <= y
  BY <1>2
<1> QED
  BY <1>3, Zenon DEF Min

\* A non-empty set of positions has a maximum, and Max finds it.
LEMMA MaxOf ==
  ASSUME NEW n \in Nat, NEW S \in SUBSET (1 .. n), S # {}
  PROVE  Max(S) \in S /\ \A y \in S : y <= Max(S)
<1> DEFINE T == {m \in Nat : n - m \in S}
<1>1. \A y \in S : y \in Nat /\ y <= n /\ n - y \in Nat /\ n - (n - y) = y
  OBVIOUS
<1>2. T \in SUBSET Nat /\ T # {}
  BY <1>1
<1> DEFINE x == Min(T)
<1>3. x \in T /\ \A y \in T : x <= y
  BY <1>2, MinOf
<1>4. \A y \in S : n - y \in T
  BY <1>1
<1>5. x \in Nat /\ n - x \in S
  BY <1>3
<1> HIDE DEF T, x
<1>6. \A y \in S : n - x >= y
  BY <1>1, <1>3, <1>4, <1>5
<1>7. Max(S) \in S /\ \A y \in S : Max(S) >= y
  BY <1>5, <1>6, Zenon DEF Max
<1> QED
  BY <1>1, <1>7

\* How many of a set of positions lie before one of them.
LEMMA Rank ==
  ASSUME NEW n \in Nat, NEW S \in SUBSET (1 .. n), NEW k \in 1 .. Cardinality(S)
  PROVE  \E j \in S : Cardinality({i \in S : i < j}) = k - 1
<1> DEFINE before(m) == {i \in S : i < m}
<1>0. \A i \in S : i \in Int /\ 1 <= i /\ i <= n
  OBVIOUS
<1>1. IsFiniteSet(S) /\ Cardinality(S) \in Nat
  <2>1. IsFiniteSet(1 .. n)
    BY FS_Interval
  <2> QED
    BY <2>1, FS_Subset, FS_CardinalityType
<1>2. \A m : IsFiniteSet(before(m)) /\ Cardinality(before(m)) \in Nat
  <2> SUFFICES ASSUME NEW m PROVE IsFiniteSet(before(m)) /\ Cardinality(before(m)) \in Nat
    OBVIOUS
  <2>1. before(m) \in SUBSET S
    OBVIOUS
  <2> QED
    BY <1>1, <2>1, FS_Subset, FS_CardinalityType
<1>31. before(n + 1) = S /\ before(0) = {}
  <2>1. \A i \in S : i < n + 1 /\ ~(i < 0)
    BY <1>0
  <2> QED
    BY <2>1, Zenon
<1>32. \A m \in Nat : m \notin S => before(m + 1) = before(m)
  <2>1. \A m \in Nat : m \notin S => \A i \in S : i < m + 1 <=> i < m
    BY <1>0
  <2> QED
    BY <2>1, Zenon
<1>33. \A m \in Nat : m \in S => before(m + 1) = before(m) \cup {m} /\ m \notin before(m)
  <2>1. \A m \in Nat : ~(m < m) /\ m < m + 1 /\ \A i \in S : i < m + 1 <=> i < m \/ i = m
    BY <1>0
  <2>2. ASSUME NEW m \in Nat, m \in S PROVE \A x : x \in before(m + 1) <=> x \in before(m) \cup {m}
    BY <2>1, <2>2, Zenon
  <2> QED
    BY <2>1, <2>2, Zenon
<1> HIDE DEF before
<1> DEFINE T == {m \in Nat : Cardinality(before(m + 1)) >= k}
<1>3. n \in T
  BY <1>1, <1>31
<1>4. T \in SUBSET Nat /\ T # {}
  BY <1>3
<1> DEFINE j == Min(T)
<1>5. j \in T /\ \A y \in T : j <= y
  BY <1>4, MinOf
<1>6. j \in Nat /\ Cardinality(before(j + 1)) >= k
  BY <1>5
<1>7. Cardinality(before(j)) < k
  <2>1. CASE j = 0
    <3>1. before(j) = {}
      BY <1>31, <2>1
    <3> HIDE DEF j
    <3>2. Cardinality(before(j)) = 0
      BY <3>1, FS_EmptySet
    <3> QED
      BY <3>2
  <2>2. CASE j # 0
    <3>1. j - 1 \in Nat /\ ~(j <= j - 1) /\ (j - 1) + 1 = j
      BY <1>6, <2>2
    <3>2. j - 1 \notin T
      BY <1>5, <3>1
    <3>3. ~(Cardinality(before((j - 1) + 1)) >= k)
      BY <3>1, <3>2
    <3>4. ~(Cardinality(before(j)) >= k)
      BY <3>1, <3>3
    <3> HIDE DEF j
    <3> QED
      BY <1>2, <3>4
  <2> QED
    BY <2>1, <2>2
<1> HIDE DEF j, T
<1>8. CASE j \notin S
  <2>1. before(j + 1) = before(j)
    BY <1>32, <1>6, <1>8
  <2> QED
    BY <1>2, <1>6, <1>7, <2>1
<1>9. CASE j \in S
  <2>1. before(j + 1) = before(j) \cup {j} /\ j \notin before(j)
    BY <1>33, <1>6, <1>9
  <2>2. Cardinality(before(j + 1)) = Cardinality(before(j)) + 1
    BY <1>2, <2>1, FS_AddElement
  <2>3. Cardinality(before(j)) = k - 1
    BY <1>2, <1>6, <1>7, <2>2
  <2> QED
    BY <1>9, <2>3 DEF before
<1> QED
  BY <1>8, <1>9

\* What is picked from a list are members of it.
LEMMA PickedType ==
  ASSUME NEW X, NEW s \in Seq(X), NEW S \in SUBSET (1 .. Len(s))
  PROVE  Picked(s, S) \in Seq(X)
<1> DEFINE n == Cardinality(S)
<1> DEFINE place(k) == CHOOSE j \in S : Cardinality({i \in S : i < j}) = k - 1
<1>1. IsFiniteSet(S) /\ n \in Nat
  <2>1. IsFiniteSet(1 .. Len(s))
    BY FS_Interval
  <2> QED
    BY <2>1, FS_Subset, FS_CardinalityType
<1>2. ASSUME NEW k \in 1 .. n PROVE s[place(k)] \in X
  <2>1. \E j \in S : Cardinality({i \in S : i < j}) = k - 1
    <3>1. Len(s) \in Nat
      OBVIOUS
    <3> QED
      BY <3>1, Rank
  <2>2. place(k) \in S
    BY <2>1, Zenon
  <2> HIDE DEF place
  <2>3. place(k) \in 1 .. Len(s)
    BY <2>2
  <2> QED
    BY <2>3, ElementOfSeq
<1>3. Picked(s, S) = [k \in 1 .. n |-> s[place(k)]]
  BY DEF Picked
<1> HIDE DEF n, place
<1>4. Picked(s, S) \in [1 .. n -> X]
  BY <1>2, <1>3
<1> QED
  BY <1>1, <1>4, SeqDef

\* Picking all the members from one on.
LEMMA PickedFrom ==
  ASSUME NEW X, NEW s \in Seq(X), NEW a \in {1, 2}, a <= Len(s) + 1
  PROVE  Picked(s, a .. Len(s)) = SubSeq(s, a, Len(s))
<1> DEFINE n == Len(s) + 1 - a
<1> DEFINE S == a .. Len(s)
<1> DEFINE place(k) == CHOOSE j \in S : Cardinality({i \in S : i < j}) = k - 1
<1>1. n \in Nat /\ Len(s) \in Nat /\ Len(s) = a + n - 1 /\ a \in Nat
  OBVIOUS
<1>2. Cardinality(S) = n
  BY <1>1, FS_Interval
<1>3. \A j \in S : Cardinality({i \in S : i < j}) = j - a
  <2> SUFFICES ASSUME NEW j \in S PROVE Cardinality({i \in S : i < j}) = j - a
    OBVIOUS
  <2>1. {i \in S : i < j} = a .. j - 1
    BY <1>1
  <2>2. Cardinality(a .. j - 1) = j - a
    <3>1. /\ j - 1 \in Int /\ a \in Int /\ (IF a > j - 1 THEN 0 ELSE (j - 1) - a + 1) = j - a
      BY <1>1
    <3>2. Cardinality(a .. j - 1) = IF a > j - 1 THEN 0 ELSE (j - 1) - a + 1
      BY <3>1, FS_Interval
    <3> HIDE DEF S
    <3> QED
      BY <3>1, <3>2
  <2> QED
    BY <2>1, <2>2
<1>4. ASSUME NEW k \in 1 .. n PROVE place(k) = a + k - 1
  <2>1. a + k - 1 \in S /\ (a + k - 1) - a = k - 1 /\ \A j \in S : j - a = k - 1 => j = a + k - 1
    BY <1>1
  <2> HIDE DEF S
  <2>2. \A j \in S : Cardinality({i \in S : i < j}) = k - 1 <=> j = a + k - 1
    BY <1>3, <2>1
  <2> QED
    BY <2>1, <2>2
<1>5. Picked(s, S) = [k \in 1 .. n |-> s[place(k)]]
  BY <1>2 DEF Picked
<1> HIDE DEF S, place
<1>6. Picked(s, S) = [k \in 1 .. n |-> s[a + k - 1]]
  BY <1>4, <1>5
<1>7. SubSeq(s, a, Len(s)) = [k \in 1 .. n |-> s[a + k - 1]]
  BY <1>1
<1> QED
  BY <1>6, <1>7 DEF S

-----------------------------------------------------------------------------
(* The parser, a token at a time. *)

\* The states the parser goes through.
Passes(g, p, c) == g = [k \in 0 .. Len(c) |-> IF k = 0 THEN p ELSE ProcessToken(g[k - 1], c[k])]

\* They are well defined.
LEMMA TokenByToken ==
  ASSUME NEW p, NEW c \in Seq(Token)
  PROVE  \E g : Passes(g, p, c)
<1> DEFINE Goes(g, n) == g = [k \in 0 .. n |-> IF k = 0 THEN p ELSE ProcessToken(g[k - 1], c[k])]
<1> DEFINE Stuck == {n \in Nat : ~ \E g : Goes(g, n)}
<1> SUFFICES ASSUME Len(c) \in Stuck PROVE FALSE
  BY DEF Passes
<1>1. Stuck \in SUBSET Nat /\ Stuck # {}
  OBVIOUS
<1> DEFINE m == Min(Stuck)
<1>2. m \in Stuck /\ \A y \in Stuck : m <= y
  BY <1>1, MinOf
<1>3. m \in Nat /\ ~ \E g : Goes(g, m)
  BY <1>2
<1> HIDE DEF m
<1>4. m # 0
  <2> DEFINE h == [k \in 0 .. 0 |-> p]
  <2>1. h = [k \in 0 .. 0 |-> IF k = 0 THEN p ELSE ProcessToken(h[k - 1], c[k])]
    OBVIOUS
  <2> QED
    BY <1>3, <2>1
<1>5. m - 1 \in Nat /\ ~(m <= m - 1)
  BY <1>3, <1>4
<1>6. PICK g : Goes(g, m - 1)
  BY <1>2, <1>5
<1> DEFINE h == [k \in 0 .. m |-> IF k = m THEN ProcessToken(g[m - 1], c[m]) ELSE g[k]]
<1>7. \A k \in 0 .. m - 1 : g[k] = IF k = 0 THEN p ELSE ProcessToken(g[k - 1], c[k])
  BY <1>6
<1>8. \A k \in 0 .. m : h[k] = IF k = 0 THEN p ELSE ProcessToken(h[k - 1], c[k])
  <2> SUFFICES ASSUME NEW k \in 0 .. m PROVE h[k] = IF k = 0 THEN p ELSE ProcessToken(h[k - 1], c[k])
    OBVIOUS
  <2>1. CASE k = m
    <3>1. h[k - 1] = g[m - 1] /\ h[k] = ProcessToken(g[m - 1], c[m]) /\ k # 0
      BY <1>3, <1>4, <2>1
    <3> QED
      BY <2>1, <3>1, Zenon
  <2>2. CASE k # m
    <3>1. k \in 0 .. m - 1 /\ h[k] = g[k]
      BY <1>3, <2>2
    <3>2. CASE k = 0
      BY <1>7, <3>1, <3>2
    <3>3. CASE k # 0
      <4>1. h[k - 1] = g[k - 1]
        BY <1>3, <2>2, <3>3
      <4> QED
        BY <1>7, <3>1, <3>3, <4>1
    <3> QED
      BY <3>2, <3>3
  <2> QED
    BY <2>1, <2>2
<1>9. Goes(h, m)
  <2>1. h = [k \in 0 .. m |-> h[k]]
    OBVIOUS
  <2> HIDE DEF h
  <2> QED
    BY <1>8, <2>1, Zenon
<1> QED
  BY <1>3, <1>9

\* Handing on nothing changes nothing.
LEMMA NoTokens ==
  ASSUME NEW p
  PROVE  ProcessTokens(p, <<>>) = p
<1> DEFINE after == CHOOSE g : Passes(g, p, <<>>)
<1>1. ProcessTokens(p, <<>>) = after[Len(<<>>)]
  BY DEF ProcessTokens, Passes
<1>2. \E g : Passes(g, p, <<>>)
  <2>1. <<>> \in Seq(Token)
    OBVIOUS
  <2> QED
    BY <2>1, TokenByToken, Zenon
<1>3. Passes(after, p, <<>>)
  BY <1>2, Zenon
<1> HIDE DEF after
<1>4. after[0] = p
  BY <1>3 DEF Passes
<1> QED
  BY <1>1, <1>4

\* Handing on one token more.
LEMMA OneTokenMore ==
  ASSUME NEW p, NEW c \in Seq(Token), NEW t \in Token
  PROVE  ProcessTokens(p, Append(c, t)) = ProcessToken(ProcessTokens(p, c), t)
<1> DEFINE d == Append(c, t)
<1> DEFINE n == Len(c)
<1> DEFINE x == CHOOSE g : Passes(g, p, c)
<1> DEFINE y == CHOOSE g : Passes(g, p, d)
<1>1. ProcessTokens(p, c) = x[Len(c)] /\ ProcessTokens(p, d) = y[Len(d)]
  BY DEF ProcessTokens, Passes
<1>2. d \in Seq(Token) /\ n \in Nat /\ Len(d) = n + 1 /\ d[n + 1] = t /\ \A k \in 1 .. n : d[k] = c[k]
  OBVIOUS
<1>3. Passes(x, p, c)
  <2>1. \E g : Passes(g, p, c)
    BY TokenByToken, Zenon
  <2> QED
    BY <2>1, Zenon
<1>4. Passes(y, p, d)
  <2>1. \E g : Passes(g, p, d)
    BY <1>2, TokenByToken, Zenon
  <2> QED
    BY <2>1, Zenon
<1> HIDE DEF x, y, d
<1>5. \A k \in 0 .. n : x[k] = IF k = 0 THEN p ELSE ProcessToken(x[k - 1], c[k])
  BY <1>3 DEF Passes
<1>6. \A k \in 0 .. n + 1 : y[k] = IF k = 0 THEN p ELSE ProcessToken(y[k - 1], d[k])
  BY <1>2, <1>4 DEF Passes
<1>7. x[n] = y[n]
  <2> DEFINE Apart == {k \in Nat : k <= n /\ x[k] # y[k]}
  <2> SUFFICES ASSUME Apart # {} PROVE FALSE
    BY <1>2
  <2> DEFINE m == Min(Apart)
  <2>1. Apart \in SUBSET Nat
    OBVIOUS
  <2>2. m \in Apart /\ \A k \in Apart : m <= k
    BY <2>1, MinOf
  <2>3. m \in Nat /\ m <= n /\ x[m] # y[m]
    BY <2>2
  <2> HIDE DEF m
  <2>4. m # 0
    BY <1>2, <1>5, <1>6, <2>3
  <2>5. x[m - 1] = y[m - 1] /\ m \in 1 .. n
    BY <1>2, <2>2, <2>3, <2>4
  <2>6. c[m] = d[m]
    BY <1>2, <2>5
  <2>7. x[m] = ProcessToken(x[m - 1], c[m]) /\ y[m] = ProcessToken(y[m - 1], d[m])
    <3>1. m \in 0 .. n /\ m \in 0 .. n + 1
      BY <1>2, <2>5
    <3> HIDE DEF n
    <3> QED
      BY <1>5, <1>6, <2>4, <3>1
  <2> QED
    BY <2>3, <2>5, <2>6, <2>7, Zenon
<1>8. y[n + 1] = ProcessToken(y[n], t)
  <2>1. n + 1 \in 0 .. n + 1 /\ n + 1 # 0 /\ (n + 1) - 1 = n
    BY <1>2
  <2> HIDE DEF n
  <2>2. y[n + 1] = ProcessToken(y[(n + 1) - 1], d[n + 1])
    BY <1>6, <2>1
  <2> QED
    BY <1>2, <2>1, <2>2
<1> QED
  BY <1>1, <1>2, <1>7, <1>8 DEF d

-----------------------------------------------------------------------------
(* The inductive invariant. *)

Original == [f \in File \cup {Garbled} |-> OriginalContents(f)]
InBlock(p) == p.currentFile # NoFile
Cleared(p) == [p EXCEPT !.partialLineBuffer = <<>>]

\* What closed blocks leave behind: what would be saved is what was written, a
\* file that was not written has no completed version, and commands that are due
\* were extracted.
Accounted(p, r) ==
    /\ \A f \in File \ (r.spoilt \cup r.repatched) :
          NotBlank(Saved(Original, p.fixedFilePromises)[f]) = r.files[f]
    /\ \A f \in File \ r.written : r.files[f] = OriginalContents(f)
    /\ \A f \in File \ (r.written \cup r.spoilt) : p.completedFiles[f] = NoFile
    /\ r.due \subseteq p.extractedInstallCommands

\* What the parser was left in at any time, a failed attempt included.  A marker
\* that was received is left in the unfinished line only outside a block.
Sound(p, r) ==
    /\ p \in ScofState /\ r \in Script
    /\ InBlock(p) <=> p.currentMode # "idle"
    /\ r.mode = "idle" <=> r.file = NoFile
    /\ ~IsCommand(p.commandBuffer)
    /\ NewLine \notin Range(p.partialLineBuffer)
    /\ InBlock(p) => Trimmed(p.partialLineBuffer) # <<Marker>> /\ p.commandBuffer = <<>>
    /\ Accounted(p, r)

\* A line of a file.
Said == {<<Text>>, <<Marker, Text>>}

SameContents(p, r) ==
    \/ /\ r.mode = "idle"
       /\ r.installs \subseteq p.betweenFilesBuffer \cup p.extractedInstallCommands
    \/ /\ r.mode = "file_creation" /\ p.partialLineBuffer = <<>>
       /\ r.installs \subseteq p.extractedInstallCommands
       /\ \A k \in 1 .. Len(r.contents) : r.contents[k] \in Said
       /\ p.contentBuffer \in {r.contents, <<<<Pad>>>> \o r.contents}
    \/ /\ r.mode = "diff_patch" /\ p.partialLineBuffer = <<>>
       /\ r.installs \subseteq p.extractedInstallCommands
       /\ \A k \in 1 .. Len(r.contents) : r.contents[k] = <<Added>>
       /\ p.contentBuffer = r.contents

InStep(p, r) ==
    /\ p.currentMode = r.mode /\ p.currentFile = r.file
    /\ IsBlank(p.partialLineBuffer)
    /\ SameContents(p, r)

\* The parser takes what comes for the rest of an old block, or has closed the
\* block that is being read.
Astray(p, r) ==
    /\ r.installs = {}
    /\ p.currentFile \in r.spoilt \cup {NoFile, Garbled}
    /\ Names(p.commandBuffer) \subseteq r.spoilt /\ Names(p.partialLineBuffer) \subseteq r.spoilt
    /\ r.mode # "idle" => p.partialLineBuffer = <<>> /\ p.commandBuffer = <<>> /\ r.file \in r.spoilt

\* Between two lines.
AtLine(p, r) == Sound(p, r) /\ IF r.lostSync THEN Astray(p, r) ELSE InStep(p, r)

\* After the first of two tokens of a line.
AfterFirst(p, r, t) ==
    /\ p \in ScofState /\ p.partialLineBuffer # <<>> /\ Last(p.partialLineBuffer) = t
    /\ AtLine([p EXCEPT !.partialLineBuffer = Front(@)], r)

\* Between the two lines of a command.
HalfWay(p, r, f) ==
    /\ Sound(p, r) /\ r.mode = "idle" /\ p.partialLineBuffer = <<>>
    /\ ~InBlock(p) => p.commandBuffer # <<>> /\ Last(p.commandBuffer) = Cat(f)
    /\ IF r.lostSync
       THEN /\ p.currentFile \in r.spoilt \cup {NoFile, Garbled, f} /\ r.installs = {}
            /\ Names(p.commandBuffer) \subseteq r.spoilt \cup {f}
       ELSE /\ ~InBlock(p)
            /\ r.installs \subseteq p.betweenFilesBuffer \cup p.extractedInstallCommands

\* After the marker, which closes the block at once or at the end of the line, or
\* is text between the blocks.
MarkerAtMost(l) == Range(l) \subseteq {Pad, Marker}
AtMarker(p, r, received) ==
    /\ p \in ScofState /\ p.commandBuffer = <<>>
    /\ IF InBlock(p) THEN p.partialLineBuffer = received /\ AtLine(FinalizeCurrentFile(Cleared(p)), r)
       ELSE MarkerAtMost(p.partialLineBuffer) /\ AtLine(Cleared(p), r)

\* After the beginning of a line of text that looks like the marker; out of the
\* block, it may have closed the block or be text between the blocks.
AtLookalike(p, r) ==
    /\ p \in ScofState /\ p.commandBuffer = <<>>
    /\ r.mode = "file_creation" /\ AtLine(Cleared(p), r)
    /\ IF InBlock(p) THEN p.partialLineBuffer = <<Marker>> ELSE p.partialLineBuffer \in {<<>>, <<Marker>>}

TwoLines(f) == <<Cat(f), NewLine, Here, NewLine>>
AnyLine == UNION {Lines(m) : m \in {"idle", "file_creation", "diff_patch"}}

\* After n tokens of the line w.
InLine(p, r, w, n) ==
    \/ n = Len(w) /\ AtLine(p, r)
    \/ n = 0 /\ w \in Lines(r.mode) /\ AtLine(p, r)
    \/ n = 1 /\ w \in Creations \cup Patches /\ r.mode = "idle" /\ AfterFirst(p, r, w[1])
    \/ n = 2 /\ \E f \in File : w = TwoLines(f) /\ HalfWay(p, r, f)
    \/ n = Len(w) - 1 /\ w \in AnyLine \ Endings /\ Sound(p, r) /\ AtLine(ProcessToken(p, NewLine), r)
    \/ n \in 1 .. Len(w) - 1 /\ w \in Endings /\ AtMarker(p, r, SubSeq(w, 1, n))
    \/ n = 1 /\ w \in Lookalikes /\ AtLookalike(p, r)

\* The parser, had it been handed everything that was received.
Fed == ProcessTokens(parser, slice)

StreamInv ==
    /\ StreamTypeOK
    /\ writing.text \in AnyLine \cup {<<>>}
    /\ streaming => /\ Sound(parser, script)
                    /\ InLine(Fed, ahead, writing.text, writing.sent)
                    /\ generatedFilesMap = Original /\ attempt < retryLimit
    /\ AnswerAsWritten
-----------------------------------------------------------------------------
(* Trimming a line. *)

\* A line is blank when it is all white space; otherwise trim() cuts it down to
\* what lies between the first and the last token that say something.
LEMMA TrimmedFacts ==
  ASSUME NEW l \in Seq(Token)
  PROVE  /\ IsBlank(l) <=> \A k \in 1 .. Len(l) : l[k] = Pad
         /\ IsBlank(l) => Trimmed(l) = <<>>
         /\ ~IsBlank(l) =>
              \E a \in 1 .. Len(l), b \in 1 .. Len(l) :
                 /\ a <= b /\ l[a] # Pad /\ l[b] # Pad /\ Trimmed(l) = SubSeq(l, a, b)
                 /\ \A k \in 1 .. Len(l) : l[k] # Pad => a <= k /\ k <= b
<1> DEFINE said == {k \in DOMAIN l : l[k] # Pad}
<1>1. said \in SUBSET (1 .. Len(l)) /\ said \in SUBSET Nat /\ Len(l) \in Nat
  OBVIOUS
<1>2. said = {} <=> \A k \in 1 .. Len(l) : l[k] = Pad
  OBVIOUS
<1>3. said = {} => Trimmed(l) = <<>>
  BY Zenon DEF Trimmed
<1>4. ASSUME said # {}
      PROVE  /\ Trimmed(l) # <<>>
             /\ \E a \in 1 .. Len(l), b \in 1 .. Len(l) :
                  /\ a <= b /\ l[a] # Pad /\ l[b] # Pad /\ Trimmed(l) = SubSeq(l, a, b)
                  /\ \A k \in 1 .. Len(l) : l[k] # Pad => a <= k /\ k <= b
  <2> DEFINE a == Min(said)
  <2> DEFINE b == Max(said)
  <2>1. a \in said /\ \A k \in said : a <= k
    BY <1>1, <1>4, MinOf
  <2>2. b \in said /\ \A k \in said : k <= b
    BY <1>1, <1>4, MaxOf
  <2>3. Trimmed(l) = SubSeq(l, a, b)
    BY <1>4, Zenon DEF Trimmed
  <2> HIDE DEF a, b
  <2>4. /\ a \in 1 .. Len(l) /\ b \in 1 .. Len(l) /\ a <= b /\ l[a] # Pad /\ l[b] # Pad
        /\ \A k \in 1 .. Len(l) : l[k] # Pad => a <= k /\ k <= b
    BY <2>1, <2>2
  <2>5. Len(SubSeq(l, a, b)) = b - a + 1
    BY <2>4
  <2>6. Trimmed(l) # <<>>
    <3>1. Len(Trimmed(l)) # 0
      BY <2>3, <2>4, <2>5
    <3> QED
      BY <3>1
  <2> QED
    BY <2>3, <2>4, <2>6
<1> HIDE DEF said
<1> QED
  BY <1>2, <1>3, <1>4 DEF IsBlank

\* What is left of a line is part of it.
LEMMA TrimmedType ==
  ASSUME NEW l \in Seq(Token)
  PROVE  /\ Trimmed(l) \in Seq(Token) /\ Range(Trimmed(l)) \subseteq Range(l)
         /\ ~IsBlank(l) => Trimmed(l) # <<>>
<1>1. CASE IsBlank(l)
  <2>1. Trimmed(l) = <<>>
    BY <1>1, TrimmedFacts
  <2>2. Range(<<>>) = {}
    BY DEF Range
  <2> QED
    BY <1>1, <2>1, <2>2
<1>2. CASE ~IsBlank(l)
  <2>1. PICK a \in 1 .. Len(l), b \in 1 .. Len(l) : a <= b /\ Trimmed(l) = SubSeq(l, a, b)
    BY <1>2, TrimmedFacts
  <2> DEFINE s == SubSeq(l, a, b)
  <2>2. s \in Seq(Token) /\ Len(s) = b - a + 1 /\ \A k \in 1 .. Len(s) : s[k] = l[a + k - 1]
    BY <2>1
  <2>3. \A k \in 1 .. Len(s) : a + k - 1 \in 1 .. Len(l)
    BY <2>1, <2>2
  <2>4. DOMAIN s = 1 .. Len(s) /\ DOMAIN l = 1 .. Len(l)
    BY <2>2
  <2> HIDE DEF s
  <2>5. Range(s) \subseteq Range(l)
    BY <2>2, <2>3, <2>4 DEF Range
  <2>6. s # <<>>
    <3>1. Len(s) # 0
      BY <2>1, <2>2
    <3> QED
      BY <3>1
  <2> QED
    BY <2>1, <2>2, <2>5, <2>6 DEF s
<1> QED
  BY <1>1, <1>2

\* A token that says something stays the last one; it is the only one left when
\* nothing but white space comes before it.
LEMMA TrimmedEnd ==
  ASSUME NEW x \in Seq(Token), NEW t \in Token, t # Pad
  PROVE  /\ ~IsBlank(Append(x, t))
         /\ \E y \in Seq(Token) : /\ Trimmed(Append(x, t)) = Append(y, t)
                                  /\ Range(y) \subseteq Range(x)
                                  /\ IsBlank(x) => y = <<>>
                                  /\ x # <<>> /\ x[Len(x)] # Pad => y = Trimmed(x)
<1> DEFINE l == Append(x, t)
<1> DEFINE n == Len(x)
<1>1. l \in Seq(Token) /\ n \in Nat /\ Len(l) = n + 1 /\ l[n + 1] = t /\ \A k \in 1 .. n : l[k] = x[k]
  OBVIOUS
<1>2. ~IsBlank(l)
  <2>1. l[n + 1] # Pad /\ n + 1 \in 1 .. Len(l)
    BY <1>1
  <2> HIDE DEF l, n
  <2> QED
    BY <1>1, <2>1, TrimmedFacts
<1> HIDE DEF l
<1>3. PICK a \in 1 .. Len(l), b \in 1 .. Len(l) :
        /\ a <= b /\ l[a] # Pad /\ l[b] # Pad /\ Trimmed(l) = SubSeq(l, a, b)
        /\ \A k \in 1 .. Len(l) : l[k] # Pad => a <= k /\ k <= b
  BY <1>1, <1>2, TrimmedFacts
<1>4. b = n + 1
  BY <1>1, <1>3
<1> DEFINE y == SubSeq(x, a, n)
<1>5. y \in Seq(Token) /\ Len(y) = n + 1 - a /\ \A k \in 1 .. Len(y) : y[k] = x[a + k - 1]
  BY <1>1, <1>3, <1>4
<1>6. SubSeq(l, a, b) = Append(y, t)
  <2> DEFINE s == SubSeq(l, a, b)
  <2>1. s \in Seq(Token) /\ Len(s) = n + 2 - a /\ \A k \in 1 .. Len(s) : s[k] = l[a + k - 1]
    BY <1>1, <1>3, <1>4
  <2> DEFINE u == Append(y, t)
  <2> HIDE DEF y
  <2>2. /\ u \in Seq(Token) /\ Len(u) = n + 2 - a /\ u[n + 2 - a] = t
        /\ \A k \in 1 .. n + 1 - a : u[k] = y[k]
    <3>1. n + 1 - a \in Nat /\ Len(y) = n + 1 - a /\ (n + 1 - a) + 1 = n + 2 - a
      BY <1>1, <1>3, <1>5
    <3> HIDE DEF n
    <3>2. u \in Seq(Token) /\ Len(u) = Len(y) + 1 /\ u[Len(y) + 1] = t /\ \A k \in 1 .. Len(y) : u[k] = y[k]
      BY <1>5
    <3> HIDE DEF u
    <3> QED
      BY <3>1, <3>2
  <2> HIDE DEF s, u
  <2>3. \A k \in 1 .. Len(s) : s[k] = u[k]
    <3> SUFFICES ASSUME NEW k \in 1 .. n + 2 - a PROVE s[k] = u[k]
      BY <2>1
    <3>1. CASE k = n + 2 - a
      <4>1. a + k - 1 = n + 1 /\ k \in 1 .. Len(s)
        BY <1>1, <1>3, <2>1, <3>1
      <4> HIDE DEF n
      <4> QED
        BY <1>1, <2>1, <2>2, <3>1, <4>1
    <3>2. CASE k # n + 2 - a
      <4>1. k \in 1 .. n + 1 - a /\ a + k - 1 \in 1 .. n
        BY <1>1, <1>3, <1>4, <3>2
      <4> QED
        BY <1>1, <1>5, <2>1, <2>2, <4>1
    <3> QED
      BY <3>1, <3>2
  <2>4. s = u
    BY <2>1, <2>2, <2>3, SeqEqual
  <2> QED
    BY <2>4 DEF s, u
<1>7. Range(y) \subseteq Range(x)
  <2>1. DOMAIN y = 1 .. Len(y) /\ DOMAIN x = 1 .. n /\ \A k \in 1 .. Len(y) : a + k - 1 \in 1 .. n
    BY <1>1, <1>3, <1>5
  <2> HIDE DEF y, n
  <2> QED
    BY <1>5, <2>1 DEF Range
<1>8. IsBlank(x) => y = <<>>
  <2> SUFFICES ASSUME IsBlank(x) PROVE y = <<>>
    OBVIOUS
  <2>1. \A k \in 1 .. n : l[k] = Pad
    BY <1>1, TrimmedFacts
  <2>2. a = n + 1
    BY <1>1, <1>3, <2>1
  <2> QED
    BY <1>1, <1>5, <2>2
<1>9. x # <<>> /\ x[n] # Pad => y = Trimmed(x)
  <2> SUFFICES ASSUME x # <<>>, x[n] # Pad PROVE y = Trimmed(x)
    OBVIOUS
  <2>1. n \in 1 .. n /\ Len(x) = n
    BY <1>1
  <2> HIDE DEF n
  <2>2. ~IsBlank(x)
    BY <2>1, TrimmedFacts
  <2>3. PICK a2 \in 1 .. n, b2 \in 1 .. n :
          /\ a2 <= b2 /\ x[a2] # Pad /\ Trimmed(x) = SubSeq(x, a2, b2)
          /\ \A k \in 1 .. n : x[k] # Pad => a2 <= k /\ k <= b2
    BY <2>1, <2>2, TrimmedFacts
  <2>4. b2 = n
    BY <2>1, <2>3
  <2>5. a2 \in 1 .. Len(l) /\ l[a2] # Pad
    BY <1>1, <2>3
  <2>6. a <= a2
    BY <1>3, <2>5
  <2>7. a \in 1 .. n /\ x[a] # Pad
    BY <1>1, <1>3, <2>3, <2>6
  <2>8. a2 <= a
    BY <2>3, <2>7
  <2>9. a2 = a
    BY <2>3, <2>6, <2>7, <2>8
  <2> QED
    BY <2>3, <2>4, <2>9
<1> HIDE DEF y
<1> QED
  BY <1>2, <1>3, <1>5, <1>6, <1>7, <1>8, <1>9 DEF l

\* The same for two tokens.
LEMMA TrimmedTwo ==
  ASSUME NEW x \in Seq(Token), NEW s \in Token, NEW t \in Token, s # Pad, t # Pad
  PROVE  /\ ~IsBlank(Append(Append(x, s), t))
         /\ \E y \in Seq(Token) : /\ Trimmed(Append(Append(x, s), t)) = Append(Append(y, s), t)
                                  /\ Range(y) \subseteq Range(x)
                                  /\ IsBlank(x) => y = <<>>
<1> DEFINE z == Append(x, s)
<1>1. z \in Seq(Token) /\ z # <<>> /\ z[Len(z)] = s
  OBVIOUS
<1>2. PICK y \in Seq(Token) : /\ Trimmed(z) = Append(y, s) /\ Range(y) \subseteq Range(x)
                              /\ IsBlank(x) => y = <<>>
  BY TrimmedEnd
<1> HIDE DEF z
<1>3. ~IsBlank(Append(z, t)) /\ \E u \in Seq(Token) : Trimmed(Append(z, t)) = Append(u, t) /\ u = Trimmed(z)
  BY <1>1, TrimmedEnd
<1> QED
  BY <1>2, <1>3 DEF z

\* White space after the marker.
LEMMA TrimmedMarker ==
  /\ Trimmed(<<Marker>>) = <<Marker>> /\ Trimmed(<<Marker, Pad>>) = <<Marker>>
  /\ IsBlank(<<>>) /\ IsBlank(<<Pad>>) /\ ~IsBlank(<<Text>>) /\ ~IsBlank(<<Added>>)
  /\ Trimmed(<<Text>>) # <<Marker>> /\ Trimmed(<<Added>>) # <<Marker>> /\ Trimmed(<<Pad>>) # <<Marker>>
<1>0. /\ Pad # Marker /\ Text # Marker /\ Added # Marker /\ Text # Pad /\ Added # Pad
      /\ Pad \in Token /\ Marker \in Token /\ Text \in Token /\ Added \in Token
  BY TokenFacts
<1>1. <<Marker>> \in Seq(Token) /\ <<Marker, Pad>> \in Seq(Token) /\ <<>> \in Seq(Token) /\ <<Pad>> \in Seq(Token)
  BY <1>0
<1>2. IsBlank(<<>>) /\ IsBlank(<<Pad>>)
  <2>1. /\ \A k \in 1 .. Len(<<>>) : <<>>[k] = Pad
        /\ \A k \in 1 .. Len(<<Pad>>) : <<Pad>>[k] = Pad
    OBVIOUS
  <2>2. IsBlank(<<>>)
    BY <1>1, <2>1, TrimmedFacts
  <2>3. IsBlank(<<Pad>>)
    BY <1>1, <2>1, TrimmedFacts
  <2> QED
    BY <2>2, <2>3
<1>3. ASSUME NEW t \in Token, t # Pad PROVE ~IsBlank(<<t>>) /\ Trimmed(<<t>>) = <<t>>
  <2>1. <<t>> = Append(<<>>, t)
    OBVIOUS
  <2>2. PICK y \in Seq(Token) : Trimmed(Append(<<>>, t)) = Append(y, t) /\ (IsBlank(<<>>) => y = <<>>)
    BY <1>1, <1>3, TrimmedEnd
  <2>3. ~IsBlank(Append(<<>>, t))
    BY <1>1, <1>3, TrimmedEnd
  <2> QED
    BY <1>2, <2>1, <2>2, <2>3
<1>4. Trimmed(<<Marker, Pad>>) = <<Marker>>
  <2> DEFINE l == <<Marker, Pad>>
  <2>1. l \in Seq(Token) /\ Len(l) = 2 /\ l[1] = Marker /\ l[2] = Pad
    BY <1>0
  <2> HIDE DEF l
  <2>2. ~IsBlank(l)
    BY <1>0, <2>1, TrimmedFacts
  <2>3. PICK a \in 1 .. Len(l), b \in 1 .. Len(l) :
          /\ a <= b /\ l[a] # Pad /\ l[b] # Pad /\ Trimmed(l) = SubSeq(l, a, b)
    BY <2>1, <2>2, TrimmedFacts
  <2>4. a = 1 /\ b = 1
    BY <1>0, <2>1, <2>3
  <2>5. SubSeq(l, 1, 1) = <<Marker>>
    <3>1. /\ SubSeq(l, 1, 1) \in Seq(Token) /\ Len(SubSeq(l, 1, 1)) = 1
          /\ \A i \in 1 .. 1 : SubSeq(l, 1, 1)[i] = Marker
      BY <1>0, <2>1
    <3>2. <<Marker>> \in Seq(Token) /\ Len(<<Marker>>) = 1 /\ \A i \in 1 .. 1 : <<Marker>>[i] = Marker
      BY <1>1
    <3> QED
      BY <3>1, <3>2, SeqEqual
  <2> QED
    BY <2>3, <2>4, <2>5 DEF l
<1>5. Trimmed(<<Pad>>) = <<>> /\ <<>> # <<Marker>> /\ <<Text>> # <<Marker>> /\ <<Added>> # <<Marker>>
  BY <1>0, <1>1, <1>2, TrimmedFacts
<1>6. Trimmed(<<Marker>>) = <<Marker>>
  BY <1>0, <1>3
<1>7. ~IsBlank(<<Text>>) /\ Trimmed(<<Text>>) = <<Text>>
  BY <1>0, <1>3
<1>8. ~IsBlank(<<Added>>) /\ Trimmed(<<Added>>) = <<Added>>
  BY <1>0, <1>3
<1> QED
  BY <1>2, <1>4, <1>5, <1>6, <1>7, <1>8

\* A line that goes on after the marker is text.
LEMMA TrimmedSaid ==
  ASSUME NEW l \in Said
  PROVE  l \in Seq(Token) /\ ~IsBlank(l) /\ Trimmed(l) # <<Marker>>
<1>1. Text \in Token /\ Text # Pad /\ Text # Marker /\ <<Marker>> \in Seq(Token) /\ <<Text>> \in Seq(Token)
  BY TokenFacts
<1>2. CASE l = <<Text>>
  BY <1>1, <1>2, TrimmedMarker
<1>3. CASE l = <<Marker, Text>>
  <2>1. l = Append(<<Marker>>, Text) /\ l \in Seq(Token)
    BY <1>1, <1>3
  <2>2. ~IsBlank(l) /\ \E y \in Seq(Token) : Trimmed(l) = Append(y, Text)
    BY <1>1, <2>1, TrimmedEnd
  <2>3. Last(<<Marker>>) = Marker
    BY DEF Last
  <2>4. \A y \in Seq(Token) : Last(Append(y, Text)) = Text
    BY <1>1, FrontOfAppend
  <2> QED
    BY <1>1, <2>1, <2>2, <2>3, <2>4
<1> QED
  BY <1>2, <1>3 DEF Said

\* What follows the marker is not trimmed away.
LEMMA TrimmedOther ==
  ASSUME NEW x \in Seq(Token), NEW t \in Token, t # Pad, t # Marker
  PROVE  Trimmed(Append(x, t)) # <<Marker>>
<1>1. PICK y \in Seq(Token) : Trimmed(Append(x, t)) = Append(y, t)
  BY TrimmedEnd
<1>2. Last(<<Marker>>) = Marker /\ Last(Append(y, t)) = t
  BY FrontOfAppend DEF Last
<1> QED
  BY <1>1, <1>2

\* Only a line with a marker in it is one.
LEMMA NoMarker ==
  ASSUME NEW l \in Seq(Token), Marker \notin Range(l)
  PROVE  Trimmed(l) # <<Marker>>
<1>1. Range(Trimmed(l)) \subseteq Range(l)
  BY TrimmedType
<1>2. Marker \in Range(<<Marker>>)
  BY DEF Range
<1> QED
  BY <1>1, <1>2

-----------------------------------------------------------------------------
(* Commands in a line. *)

\* The names in a line.
LEMMA NamesFacts ==
  /\ Names(<<>>) = {}
  /\ \A l \in Seq(Token), t \in Token : Names(Append(l, t)) = Names(l) \cup ({t.file} \ {NoFile})
  /\ \A l \in Seq(Token), m \in Seq(Token) : Range(m) \subseteq Range(l) => Names(m) \subseteq Names(l)
  /\ \A l \in Seq(Token), m \in Seq(Token) : Names(l \o m) = Names(l) \cup Names(m)
  /\ \A l \in Seq(Token) : Names(l) \subseteq File
  /\ \A l \in Seq(Token) : \A k \in 1 .. Len(l) : l[k].file \in File => l[k].file \in Names(l)
<1>1. Names(<<>>) = {}
  BY DEF Names, Range
<1>2. ASSUME NEW l \in Seq(Token), NEW t \in Token PROVE Range(Append(l, t)) = Range(l) \cup {t}
  <2> DEFINE m == Append(l, t)
  <2>1. /\ DOMAIN m = 1 .. Len(l) + 1 /\ DOMAIN l = 1 .. Len(l) /\ m[Len(l) + 1] = t
        /\ \A k \in 1 .. Len(l) : m[k] = l[k]
    OBVIOUS
  <2>2. Len(l) \in Nat
    OBVIOUS
  <2> HIDE DEF m
  <2>3. \A x \in Range(m) : x \in Range(l) \cup {t}
    BY <2>1, <2>2 DEF Range
  <2>4. \A x \in Range(l) \cup {t} : x \in Range(m)
    BY <2>1, <2>2 DEF Range
  <2> QED
    BY <2>3, <2>4 DEF m
<1>3. \A l \in Seq(Token), t \in Token : Names(Append(l, t)) = Names(l) \cup ({t.file} \ {NoFile})
  <2> SUFFICES ASSUME NEW l \in Seq(Token), NEW t \in Token
               PROVE  Names(Append(l, t)) = Names(l) \cup ({t.file} \ {NoFile})
    OBVIOUS
  <2> DEFINE R == Range(l)
  <2>1. Range(Append(l, t)) = R \cup {t}
    BY <1>2
  <2> HIDE DEF R
  <2>2. {u.file : u \in R \cup {t}} = {u.file : u \in R} \cup {t.file}
    OBVIOUS
  <2> QED
    BY <2>1, <2>2, Zenon DEF Names, R
<1>4. \A l \in Seq(Token), m \in Seq(Token) : Range(m) \subseteq Range(l) => Names(m) \subseteq Names(l)
  BY DEF Names
<1>5. \A l \in Seq(Token), m \in Seq(Token) : Names(l \o m) = Names(l) \cup Names(m)
  <2> SUFFICES ASSUME NEW l \in Seq(Token), NEW m \in Seq(Token)
               PROVE  Names(l \o m) = Names(l) \cup Names(m)
    OBVIOUS
  <2>1. Range(l \o m) = Range(l) \cup Range(m)
    BY RangeConcatenation
  <2> QED
    BY <2>1, Zenon DEF Names
<1>6. \A l \in Seq(Token) : Range(l) \subseteq Token
  BY RangeOfSeq
<1>7. \A l \in Seq(Token) : Names(l) \subseteq File
  BY <1>6, NamedTokens DEF Names
<1>8. \A l \in Seq(Token) : \A k \in 1 .. Len(l) : l[k].file \in File => l[k].file \in Names(l)
  BY StreamAssumption DEF Names, Range
<1> QED
  BY <1>1, <1>3, <1>4, <1>5, <1>7, <1>8

\* What a command is parsed to: a name of the line, or one that is run together
\* with other text.
LEMMA ParsedCommand ==
  ASSUME NEW l \in Seq(Token), IsCommand(l)
  PROVE  /\ TryParseCommand(l).type \in {"file_creation", "diff_patch"}
         /\ TryParseCommand(l).filePath \in Names(l) \cup {Garbled}
<1>1. CreationsIn(l) \in SUBSET (1 .. Len(l) - 1) /\ PatchesIn(l) \in SUBSET (1 .. Len(l) - 1)
  BY DEF CreationsIn, PatchesIn
<1>2. Len(l) \in Nat /\ \A k \in 1 .. Len(l) - 1 : k \in Nat /\ k \in 1 .. Len(l) /\ k + 1 \in 1 .. Len(l)
  OBVIOUS
<1>3. \A k \in 1 .. Len(l) : l[k] \in Token
  OBVIOUS
<1>4. CASE CreationsIn(l) # {}
  <2> DEFINE k == Min(CreationsIn(l))
  <2>1. CreationsIn(l) \in SUBSET Nat
    BY <1>1, <1>2
  <2>2. k \in CreationsIn(l)
    BY <1>4, <2>1, MinOf
  <2>3. TryParseCommand(l) = [type |-> "file_creation", filePath |-> IF l[k + 1] = Here THEN l[k].file ELSE Garbled]
    BY <1>4, Zenon DEF TryParseCommand
  <2> HIDE DEF k
  <2>4. k \in 1 .. Len(l) /\ l[k].kind = "cat"
    BY <1>2, <2>2 DEF CreationsIn
  <2>5. l[k].file \in Names(l)
    BY <1>3, <2>4, NamedTokens, NamesFacts
  <2> QED
    BY <2>3, <2>5
<1>5. CASE CreationsIn(l) = {}
  <2> DEFINE k == Min(PatchesIn(l))
  <2>1. PatchesIn(l) \in SUBSET Nat /\ PatchesIn(l) # {}
    BY <1>1, <1>2, <1>5 DEF IsCommand
  <2>2. k \in PatchesIn(l)
    BY <2>1, MinOf
  <2>3. TryParseCommand(l) = [type |-> "diff_patch", filePath |-> IF k + 1 = Len(l) THEN l[k + 1].file ELSE Garbled]
    BY <1>5, Zenon DEF TryParseCommand
  <2> HIDE DEF k
  <2>4. k + 1 \in 1 .. Len(l) /\ l[k + 1].kind = "patch"
    BY <1>2, <2>2 DEF PatchesIn
  <2>5. l[k + 1].file \in Names(l)
    BY <1>3, <2>4, NamedTokens, NamesFacts
  <2> QED
    BY <2>3, <2>5
<1> QED
  BY <1>4, <1>5

\* Half a command, or text, does not make one of what is not.
LEMMA NoNewCommand ==
  ASSUME NEW l \in Seq(Token), ~IsCommand(l), NEW t \in Token,
         t # Here, t # CatHere, t.kind # "patch"
  PROVE  ~IsCommand(Append(l, t))
<1> DEFINE m == Append(l, t)
<1>1. /\ m \in Seq(Token) /\ Len(l) \in Nat /\ Len(m) = Len(l) + 1 /\ m[Len(l) + 1] = t
      /\ \A k \in 1 .. Len(l) : m[k] = l[k]
  OBVIOUS
<1> HIDE DEF m
<1>2. CreationsIn(m) = {}
  <2> SUFFICES ASSUME NEW k \in CreationsIn(m) PROVE FALSE
    OBVIOUS
  <2>1. k \in 1 .. Len(l) /\ m[k].kind = "cat" /\ m[k + 1] \in {Here, CatHere}
    BY <1>1 DEF CreationsIn
  <2>2. k # Len(l)
    BY <1>1, <2>1
  <2>3. k \in 1 .. Len(l) - 1 /\ m[k] = l[k] /\ m[k + 1] = l[k + 1]
    BY <1>1, <2>1, <2>2
  <2>4. k \in CreationsIn(l)
    BY <2>1, <2>3 DEF CreationsIn
  <2> QED
    BY <2>4 DEF IsCommand
<1>3. PatchesIn(m) = {}
  <2> SUFFICES ASSUME NEW k \in PatchesIn(m) PROVE FALSE
    OBVIOUS
  <2>1. k \in 1 .. Len(l) /\ m[k] = CatHere /\ m[k + 1].kind = "patch"
    BY <1>1 DEF PatchesIn
  <2>2. k # Len(l)
    BY <1>1, <2>1
  <2>3. k \in 1 .. Len(l) - 1 /\ m[k] = l[k] /\ m[k + 1] = l[k + 1]
    BY <1>1, <2>1, <2>2
  <2>4. k \in PatchesIn(l)
    BY <2>1, <2>3 DEF PatchesIn
  <2> QED
    BY <2>4 DEF IsCommand
<1> QED
  BY <1>2, <1>3 DEF IsCommand, m

\* Nothing and single tokens are no commands.
LEMMA ShortLines ==
  /\ ~IsCommand(<<>>)
  /\ \A t \in Token : ~IsCommand(<<t>>)
<1>1. ~IsCommand(<<>>)
  BY DEF IsCommand, CreationsIn, PatchesIn
<1>2. ASSUME NEW t \in Token PROVE ~IsCommand(<<t>>)
  <2>1. Len(<<t>>) = 1
    OBVIOUS
  <2> QED
    BY <2>1 DEF IsCommand, CreationsIn, PatchesIn
<1> QED
  BY <1>1, <1>2

\* A complete command is recognised after whatever it follows.
LEMMA CompleteCommand ==
  ASSUME NEW y \in Seq(Token), NEW f \in File
  PROVE  /\ IsCommand(Append(Append(y, Cat(f)), Here))
         /\ IsCommand(Append(Append(y, CatHere), Patch(f)))
<1> DEFINE n == Len(y) + 1
<1>1. Cat(f) \in Token /\ Cat(f).kind = "cat" /\ Patch(f) \in Token /\ Patch(f).kind = "patch" /\ Here \in Token /\ CatHere \in Token
  BY TokenFacts
<1>2. ASSUME NEW s \in Token, NEW t \in Token
      PROVE  /\ n \in 1 .. Len(Append(Append(y, s), t)) - 1
             /\ Append(Append(y, s), t)[n] = s /\ Append(Append(y, s), t)[n + 1] = t
  OBVIOUS
<1> HIDE DEF n
<1>3. n \in CreationsIn(Append(Append(y, Cat(f)), Here))
  BY <1>1, <1>2 DEF CreationsIn
<1>4. n \in PatchesIn(Append(Append(y, CatHere), Patch(f)))
  BY <1>1, <1>2 DEF PatchesIn
<1> QED
  BY <1>3, <1>4 DEF IsCommand

\* The second half of a command, after text that ends with the first half and has
\* no command in it, opens the file of the first half.
LEMMA SecondHalf ==
  ASSUME NEW c \in Seq(Token), ~IsCommand(c), NEW f \in File, c # <<>>, Last(c) = Cat(f)
  PROVE  /\ IsCommand(c \o <<Here>>)
         /\ TryParseCommand(c \o <<Here>>) = [type |-> "file_creation", filePath |-> f]
<1> DEFINE m == c \o <<Here>>
<1> DEFINE n == Len(c)
<1>1. Cat(f).kind = "cat" /\ Cat(f).file = f /\ Here \in Token
  BY TokenFacts
<1>2. n \in Nat \ {0} /\ c[n] = Cat(f)
  BY DEF Last
<1>3. Len(m) = n + 1 /\ m[n + 1] = Here /\ \A k \in 1 .. n : m[k] = c[k]
  BY <1>1
<1> HIDE DEF m, n
<1>4. CreationsIn(m) = {n}
  <2>1. n \in CreationsIn(m)
    BY <1>1, <1>2, <1>3 DEF CreationsIn
  <2>2. ASSUME NEW k \in CreationsIn(m), k # n PROVE FALSE
    <3>1. k \in 1 .. n - 1 /\ m[k].kind = "cat" /\ m[k + 1] \in {Here, CatHere}
      BY <1>2, <1>3, <2>2 DEF CreationsIn
    <3>2. m[k] = c[k] /\ m[k + 1] = c[k + 1]
      BY <1>2, <1>3, <3>1
    <3>3. k \in CreationsIn(c)
      BY <3>1, <3>2 DEF CreationsIn, n
    <3> QED
      BY <3>3 DEF IsCommand
  <2> QED
    BY <2>1, <2>2
<1>5. Min(CreationsIn(m)) = n
  BY <1>2, <1>4, MinOf
<1>6. TryParseCommand(m) = [type |-> "file_creation", filePath |-> IF m[n + 1] = Here THEN m[n].file ELSE Garbled]
  BY <1>4, <1>5 DEF TryParseCommand
<1>7. m[n] = c[n]
  BY <1>2, <1>3
<1> QED
  BY <1>1, <1>2, <1>3, <1>4, <1>6, <1>7 DEF IsCommand, m

\* A command on a line of its own.
LEMMA WholeCommand ==
  ASSUME NEW f \in File
  PROVE  /\ TryParseCommand(<<Cat(f), Here>>) = [type |-> "file_creation", filePath |-> f]
         /\ TryParseCommand(<<CatHere, Patch(f)>>) = [type |-> "diff_patch", filePath |-> f]
<1>1. /\ Cat(f) \in Token /\ Cat(f).kind = "cat" /\ Cat(f).file = f /\ Here \in Token
      /\ Patch(f) \in Token /\ Patch(f).kind = "patch" /\ Patch(f).file = f /\ CatHere.kind # "cat"
  BY TokenFacts
<1>2. TryParseCommand(<<Cat(f), Here>>) = [type |-> "file_creation", filePath |-> f]
  <2>1. <<Cat(f)>> \in Seq(Token) /\ <<Cat(f)>> # <<>> /\ <<Cat(f)>> \o <<Here>> = <<Cat(f), Here>>
    <3>1. <<Cat(f)>> \in Seq(Token) /\ <<Cat(f)>> # <<>>
      BY <1>1
    <3>2. Append(<<Cat(f)>>, Here) = <<Cat(f)>> \o <<Here>>
      BY <1>1, <3>1, AppendIsConcat
    <3>3. Append(<<Cat(f)>>, Here) = <<Cat(f), Here>>
      BY <1>1, Literals
    <3> QED
      BY <3>1, <3>2, <3>3
  <2>2. Last(<<Cat(f)>>) = Cat(f)
    BY DEF Last
  <2>3. ~IsCommand(<<Cat(f)>>)
    BY <1>1, ShortLines
  <2>4. TryParseCommand(<<Cat(f)>> \o <<Here>>) = [type |-> "file_creation", filePath |-> f]
    BY <2>1, <2>2, <2>3, SecondHalf
  <2> QED
    BY <2>1, <2>4
<1>3. TryParseCommand(<<CatHere, Patch(f)>>) = [type |-> "diff_patch", filePath |-> f]
  <2> DEFINE l == <<CatHere, Patch(f)>>
  <2>1. Len(l) = 2 /\ l[1] = CatHere /\ l[2] = Patch(f)
    OBVIOUS
  <2> HIDE DEF l
  <2>2. CreationsIn(l) = {}
    BY <1>1, <2>1 DEF CreationsIn
  <2>3. PatchesIn(l) = {1}
    BY <1>1, <2>1 DEF PatchesIn
  <2>4. Min(PatchesIn(l)) = 1
    BY <2>3, MinOf
  <2>5. TryParseCommand(l) = [type |-> "diff_patch", filePath |-> IF 1 + 1 = Len(l) THEN l[1 + 1].file ELSE Garbled]
    BY <2>2, <2>4 DEF TryParseCommand
  <2> QED
    BY <1>1, <2>1, <2>5 DEF l
<1> QED
  BY <1>2, <1>3

-----------------------------------------------------------------------------
(* Files. *)

Contents == Seq(Seq(Token))
AllText(s) == \A k \in 1 .. Len(s) : s[k] \in Said

\* A diff is applied to lines and gives lines; added lines become text.
LEMMA DiffFacts ==
  ASSUME NEW o \in Contents, NEW d \in Contents
  PROVE  /\ ApplyDiff(o, d) \in Contents
         /\ AllText(o) /\ (\A k \in 1 .. Len(d) : d[k] = <<Added>>) => AllText(ApplyDiff(o, d))
<1> DEFINE S == {k \in DOMAIN d : d[k][1] = Added}
<1> DEFINE added == Picked(d, S)
<1> DEFINE lines2 == [k \in DOMAIN added |-> [added[k] EXCEPT ![1] = Text]]
<1>1. S \in SUBSET (1 .. Len(d)) /\ Len(d) \in Nat /\ DOMAIN d = 1 .. Len(d)
  BY DEF Contents
<1>2. ApplyDiff(o, d) = o \o lines2
  BY DEF ApplyDiff
<1>3. Text \in Token /\ Added \in Token
  BY TokenFacts
<1>4. added \in Contents
  BY <1>1, PickedType DEF Contents
<1> HIDE DEF added, S, lines2
<1>5. Len(added) \in Nat /\ DOMAIN added = 1 .. Len(added) /\ \A k \in 1 .. Len(added) : added[k] \in Seq(Token)
  BY <1>4 DEF Contents
<1>6. \A l \in Seq(Token) : [l EXCEPT ![1] = Text] \in Seq(Token)
  <2> SUFFICES ASSUME NEW l \in Seq(Token) PROVE [l EXCEPT ![1] = Text] \in Seq(Token)
    OBVIOUS
  <2>1. l \in [1 .. Len(l) -> Token] /\ Len(l) \in Nat
    BY LenProperties
  <2>2. [l EXCEPT ![1] = Text] \in [1 .. Len(l) -> Token]
    BY <1>3, <2>1
  <2> QED
    BY <2>1, <2>2, SeqDef
<1>7. lines2 \in [1 .. Len(added) -> Seq(Token)]
  BY <1>5, <1>6 DEF lines2
<1>8. lines2 \in Contents /\ Len(lines2) = Len(added) /\ \A k \in 1 .. Len(added) : lines2[k] = [added[k] EXCEPT ![1] = Text]
  <2>1. lines2 \in Contents
    <3> DEFINE T == Seq(Token)
    <3> HIDE DEF T
    <3>1. lines2 \in [1 .. Len(added) -> T]
      BY <1>7 DEF T
    <3>2. lines2 \in Seq(T)
      BY <1>5, <3>1, SeqDef
    <3> QED
      BY <3>2 DEF Contents, T
  <2>2. DOMAIN lines2 = 1 .. Len(added)
    BY <1>5 DEF lines2
  <2>3. \A k \in 1 .. Len(added) : lines2[k] = [added[k] EXCEPT ![1] = Text]
    BY <1>5 DEF lines2
  <2>4. Len(lines2) = Len(added)
    BY <1>5, <2>1, <2>2, LenProperties DEF Contents
  <2> QED
    BY <2>1, <2>3, <2>4
<1>9. /\ o \o lines2 \in Contents /\ Len(o \o lines2) = Len(o) + Len(lines2)
      /\ \A i \in 1 .. Len(o) + Len(lines2) : (o \o lines2)[i] = IF i <= Len(o) THEN o[i] ELSE lines2[i - Len(o)]
  <2>1. o \in Seq(Seq(Token)) /\ lines2 \in Seq(Seq(Token))
    BY <1>8 DEF Contents
  <2> DEFINE T == Seq(Token)
  <2> HIDE DEF T
  <2>2. o \in Seq(T) /\ lines2 \in Seq(T)
    BY <2>1 DEF T
  <2>3. /\ o \o lines2 \in Seq(T) /\ Len(o \o lines2) = Len(o) + Len(lines2)
        /\ \A i \in 1 .. Len(o) + Len(lines2) : (o \o lines2)[i] = IF i <= Len(o) THEN o[i] ELSE lines2[i - Len(o)]
    BY <2>2, ConcatProperties, Zenon
  <2> QED
    BY <2>3 DEF Contents, T
<1>10. ASSUME AllText(o), \A k \in 1 .. Len(d) : d[k] = <<Added>> PROVE AllText(o \o lines2)
  <2>1. S = 1 .. Len(d)
    <3>1. <<Added>>[1] = Added
      OBVIOUS
    <3> QED
      BY <1>1, <1>10, <3>1 DEF S
  <2>2. added = d
    <3>1. added = SubSeq(d, 1, Len(d))
      BY <1>1, <2>1, PickedFrom DEF Contents, added
    <3> QED
      BY <3>1 DEF Contents
  <2>3. \A k \in 1 .. Len(lines2) : lines2[k] = <<Text>>
    <3>1. [<<Added>> EXCEPT ![1] = Text] = <<Text>>
      <4> DEFINE x == [<<Added>> EXCEPT ![1] = Text]
      <4>1. x \in Seq(Token) /\ Len(x) = 1 /\ x[1] = Text
        BY <1>3
      <4>2. <<Text>> \in Seq(Token) /\ Len(<<Text>>) = 1 /\ <<Text>>[1] = Text
        BY <1>3
      <4> HIDE DEF x
      <4>3. \A i \in 1 .. Len(x) : x[i] = <<Text>>[i]
        BY <4>1, <4>2
      <4>4. x = <<Text>>
        BY <4>1, <4>2, <4>3, SeqEqual
      <4> QED
        BY <4>4 DEF x
    <3> QED
      BY <1>8, <1>10, <2>2, <3>1
  <2>4. ASSUME NEW i \in 1 .. Len(o) + Len(lines2) PROVE (o \o lines2)[i] \in Said
    <3>0. Len(o) \in Nat /\ Len(lines2) \in Nat
      BY <1>8 DEF Contents
    <3>1. CASE i <= Len(o)
      <4>1. i \in 1 .. Len(o) /\ (o \o lines2)[i] = o[i]
        BY <1>9, <3>0, <3>1
      <4> QED
        BY <1>10, <4>1 DEF AllText
    <3>2. CASE ~(i <= Len(o))
      <4>1. i - Len(o) \in 1 .. Len(lines2) /\ (o \o lines2)[i] = lines2[i - Len(o)]
        BY <1>9, <3>0, <3>2
      <4> QED
        BY <2>3, <4>1 DEF Said
    <3> QED
      BY <3>1, <3>2
  <2> QED
    BY <1>9, <2>4 DEF AllText
<1> QED
  BY <1>2, <1>9, <1>10

\* Blank lines aside, text is what it is, after a blank line too.
LEMMA NotBlankFacts ==
  ASSUME NEW s \in Contents, AllText(s)
  PROVE  NotBlank(s) = s /\ NotBlank(<<<<Pad>>>> \o s) = s
<1>1. Text \in Token /\ Pad \in Token /\ (\A l \in Said : ~IsBlank(l)) /\ IsBlank(<<Pad>>)
  BY TokenFacts, TrimmedMarker, TrimmedSaid
<1>2. NotBlank(s) = s
  <2>1. DOMAIN s = 1 .. Len(s) /\ \A k \in 1 .. Len(s) : ~IsBlank(s[k])
    BY <1>1 DEF AllText, Contents
  <2> DEFINE S == {k \in DOMAIN s : ~IsBlank(s[k])}
  <2>2. S = 1 .. Len(s)
    BY <2>1
  <2>3. Len(s) \in Nat
    BY DEF Contents
  <2>4. Picked(s, 1 .. Len(s)) = SubSeq(s, 1, Len(s))
    BY <2>3, PickedFrom DEF Contents
  <2>5. SubSeq(s, 1, Len(s)) = s
    BY DEF Contents
  <2> QED
    BY <2>2, <2>4, <2>5 DEF NotBlank
<1>3. NotBlank(<<<<Pad>>>> \o s) = s
  <2> DEFINE b == <<<<Pad>>>>
  <2> DEFINE u == b \o s
  <2>1. b \in Contents /\ Len(b) = 1 /\ b[1] = <<Pad>>
    BY <1>1 DEF Contents
  <2> HIDE DEF b
  <2>2. Len(s) \in Nat /\ s \in Seq(Seq(Token))
    BY DEF Contents
  <2>3. /\ u \in Contents /\ Len(u) = Len(s) + 1 /\ u[1] = <<Pad>> /\ \A k \in 2 .. Len(s) + 1 : u[k] = s[k - 1]
    <3>1. /\ u \in Contents /\ Len(u) = 1 + Len(s)
          /\ \A i \in 1 .. 1 + Len(s) : u[i] = IF i <= 1 THEN b[i] ELSE s[i - 1]
      <4> DEFINE T == Seq(Token)
      <4> HIDE DEF T
      <4>1. b \in Seq(T) /\ s \in Seq(T)
        BY <2>1 DEF Contents, T
      <4>2. /\ u \in Seq(T) /\ Len(u) = Len(b) + Len(s)
            /\ \A i \in 1 .. Len(b) + Len(s) : u[i] = IF i <= Len(b) THEN b[i] ELSE s[i - Len(b)]
        BY <4>1, ConcatProperties, Zenon
      <4> HIDE DEF u
      <4> QED
        BY <2>1, <4>2 DEF Contents, T
    <3> HIDE DEF u
    <3> QED
      BY <2>1, <2>2, <3>1
  <2> HIDE DEF u
  <2>4. DOMAIN u = 1 .. Len(s) + 1
    BY <2>3 DEF Contents
  <2>5. \A k \in 2 .. Len(s) + 1 : u[k] \in Said
    <3> SUFFICES ASSUME NEW k \in 2 .. Len(s) + 1 PROVE u[k] \in Said
      OBVIOUS
    <3>1. k - 1 \in 1 .. Len(s)
      BY <2>2
    <3> QED
      BY <2>3, <3>1 DEF AllText
  <2>6. {k \in DOMAIN u : ~IsBlank(u[k])} = 2 .. Len(u)
    <3> DEFINE S == {k \in DOMAIN u : ~IsBlank(u[k])}
    <3>1. ASSUME NEW k \in S PROVE k \in 2 .. Len(u)
      <4>1. k \in 1 .. Len(s) + 1 /\ k # 1
        BY <1>1, <2>3, <2>4, <3>1
      <4> QED
        BY <2>2, <2>3, <4>1
    <3>2. ASSUME NEW k \in 2 .. Len(u) PROVE k \in S
      <4>1. k \in 2 .. Len(s) + 1 /\ k \in 1 .. Len(s) + 1
        BY <2>2, <2>3, <3>2
      <4>2. ~IsBlank(u[k])
        BY <1>1, <2>5, <4>1
      <4> QED
        BY <2>4, <4>1, <4>2
    <3> HIDE DEF S
    <3>3. S = 2 .. Len(u)
      BY <3>1, <3>2
    <3> QED
      BY <3>3 DEF S
  <2>7. Picked(u, 2 .. Len(u)) = SubSeq(u, 2, Len(u))
    <3>1. 2 <= Len(u) + 1 /\ u \in Seq(Seq(Token))
      BY <2>2, <2>3 DEF Contents
    <3> QED
      BY <3>1, PickedFrom
  <2>8. SubSeq(u, 2, Len(u)) = s
    <3> DEFINE x == SubSeq(u, 2, Len(u))
    <3>1. x \in Seq(Seq(Token)) /\ Len(x) = Len(s) /\ \A i \in 1 .. Len(s) : x[i] = u[i + 1]
      BY <2>2, <2>3 DEF Contents
    <3> HIDE DEF x
    <3>2. \A i \in 1 .. Len(x) : x[i] = s[i]
      <4> SUFFICES ASSUME NEW i \in 1 .. Len(s) PROVE x[i] = s[i]
        BY <3>1
      <4>1. i + 1 \in 2 .. Len(s) + 1 /\ (i + 1) - 1 = i
        BY <2>2
      <4> QED
        BY <2>3, <3>1, <4>1
    <3>3. x = s
      BY <2>2, <3>1, <3>2, SeqEqual
    <3> QED
      BY <3>3 DEF x
  <2> QED
    BY <2>6, <2>7, <2>8 DEF NotBlank, u, b
<1> QED
  BY <1>2, <1>3

Promise == [file : File \cup {Garbled}, contents : Contents]

\* Saving takes the last version of every file.
LEMMA SavedFacts ==
  ASSUME NEW m, NEW ps \in Seq(Promise), NEW g \in File \cup {Garbled}, NEW c \in Contents
  PROVE  LET qs == Append(ps, [file |-> g, contents |-> c])
         IN  /\ qs \in Seq(Promise)
             /\ Saved(m, qs)[g] = c
             /\ \A f \in (File \cup {Garbled}) \ {g} : Saved(m, qs)[f] = Saved(m, ps)[f]
<1> DEFINE e == [file |-> g, contents |-> c]
<1> DEFINE qs == Append(ps, e)
<1> DEFINE closed(s, f) == {k \in DOMAIN s : s[k].file = f}
<1>1. e \in Promise /\ e.file = g /\ e.contents = c
  BY DEF Promise
<1> HIDE DEF e
<1>2. /\ qs \in Seq(Promise) /\ Len(ps) \in Nat /\ Len(qs) = Len(ps) + 1 /\ qs[Len(ps) + 1] = e
      /\ \A k \in 1 .. Len(ps) : qs[k] = ps[k]
      /\ DOMAIN ps = 1 .. Len(ps) /\ DOMAIN qs = 1 .. Len(ps) + 1
  BY <1>1
<1> HIDE DEF qs
<1>3. \A s : \A f \in File \cup {Garbled} :
        Saved(m, s)[f] = IF closed(s, f) = {} THEN m[f] ELSE s[Max(closed(s, f))].contents
  BY DEF Saved
<1>4. Saved(m, qs)[g] = c
  <2> DEFINE S == closed(qs, g)
  <2>1. S \in SUBSET (1 .. Len(ps) + 1) /\ Len(ps) + 1 \in S
    BY <1>1, <1>2
  <2>2. Max(S) \in S /\ \A y \in S : y <= Max(S)
    <3> HIDE DEF S
    <3>1. Len(ps) + 1 \in Nat /\ S # {}
      BY <1>2, <2>1
    <3> QED
      BY <2>1, <3>1, MaxOf
  <2>3. Max(S) = Len(ps) + 1
    <3> HIDE DEF S
    <3>1. Max(S) \in 1 .. Len(ps) + 1 /\ Len(ps) + 1 <= Max(S)
      BY <2>1, <2>2
    <3> QED
      BY <1>2, <3>1
  <2>4. Saved(m, qs)[g] = qs[Max(S)].contents
    BY <1>3, <2>1
  <2> QED
    BY <1>1, <1>2, <2>3, <2>4
<1>5. ASSUME NEW f \in (File \cup {Garbled}) \ {g} PROVE Saved(m, qs)[f] = Saved(m, ps)[f]
  <2>1. closed(qs, f) = closed(ps, f)
    <3>1. \A k \in 1 .. Len(ps) : k \in 1 .. Len(ps) + 1
      BY <1>2
    <3>2. \A k \in 1 .. Len(ps) + 1 : k \in 1 .. Len(ps) \/ k = Len(ps) + 1
      BY <1>2
    <3>3. qs[Len(ps) + 1].file # f
      BY <1>1, <1>2, <1>5
    <3>4. \A k : k \in closed(qs, f) <=> k \in closed(ps, f)
      BY <1>2, <3>1, <3>2, <3>3
    <3> QED
      BY <3>4
  <2>2. CASE closed(ps, f) = {}
    <3>1. f \in File \cup {Garbled} /\ closed(qs, f) = {}
      BY <2>1, <2>2
    <3> HIDE DEF closed
    <3>2. Saved(m, ps)[f] = m[f] /\ Saved(m, qs)[f] = m[f]
      BY <1>3, <2>2, <3>1
    <3> QED
      BY <3>2
  <2>3. CASE closed(ps, f) # {}
    <3> DEFINE S == closed(ps, f)
    <3>1. S \in SUBSET (1 .. Len(ps)) /\ S # {}
      BY <1>2, <2>3
    <3> HIDE DEF S
    <3>2. Max(S) \in 1 .. Len(ps)
      BY <1>2, <3>1, MaxOf
    <3>3. qs[Max(S)] = ps[Max(S)]
      BY <1>2, <3>2
    <3>4. Saved(m, qs)[f] = qs[Max(S)].contents /\ Saved(m, ps)[f] = ps[Max(S)].contents
      <4>1. f \in File \cup {Garbled} /\ closed(ps, f) = S /\ closed(qs, f) = S
        BY <2>1 DEF S
      <4> HIDE DEF closed
      <4>2. Saved(m, ps)[f] = ps[Max(S)].contents
        BY <1>3, <3>1, <4>1
      <4> QED
        BY <1>3, <3>1, <4>1, <4>2
    <3> QED
      BY <3>3, <3>4
  <2> QED
    BY <2>2, <2>3
<1> QED
  BY <1>2, <1>4, <1>5 DEF qs, e

\* What is saved is of the right type.
LEMMA SavedType ==
  ASSUME NEW ps \in Seq(Promise), NEW m \in [File \cup {Garbled} -> Contents]
  PROVE  Saved(m, ps) \in [File \cup {Garbled} -> Contents]
<1> SUFFICES ASSUME NEW f \in File \cup {Garbled} PROVE Saved(m, ps)[f] \in Contents
  BY DEF Saved
<1> DEFINE S == {k \in DOMAIN ps : ps[k].file = f}
<1>1. S \in SUBSET (1 .. Len(ps)) /\ Len(ps) \in Nat
  OBVIOUS
<1>2. Saved(m, ps)[f] = IF S = {} THEN m[f] ELSE ps[Max(S)].contents
  BY DEF Saved
<1> HIDE DEF S
<1>3. CASE S = {}
  BY <1>2, <1>3
<1>4. CASE S # {}
  <2>1. Max(S) \in 1 .. Len(ps)
    BY <1>1, <1>4, MaxOf
  <2>2. ps[Max(S)] \in Promise
    BY <2>1
  <2> QED
    BY <1>2, <1>4, <2>2 DEF Promise
<1> QED
  BY <1>3, <1>4

-----------------------------------------------------------------------------
(* What the operations of the parser change. *)

\* Nothing is closed and no command extracted, and the unfinished line stays.
SameFiles(p, q) ==
    /\ q.completedFiles = p.completedFiles /\ q.fixedFilePromises = p.fixedFilePromises
    /\ q.partialLineBuffer = p.partialLineBuffer

\* Opening a block.
LEMMA Opens ==
  ASSUME NEW p \in ScofState, NEW command, command.type \in {"file_creation", "diff_patch"},
         command.filePath \in File \cup {Garbled}, NEW q, q = HandleCommand(p, command)
  PROVE  /\ q \in ScofState /\ SameFiles(p, q)
         /\ q.currentMode = command.type /\ q.currentFile = command.filePath
         /\ q.contentBuffer = <<>> /\ q.commandBuffer = <<>>
         /\ q.betweenFilesBuffer = p.betweenFilesBuffer
         /\ q.extractedInstallCommands = p.extractedInstallCommands
<1>1. q = [p EXCEPT !.currentMode = command.type, !.currentFile = command.filePath,
                    !.contentBuffer = <<>>, !.commandBuffer = <<>>]
  BY DEF HandleCommand
<1>2. q \in ScofState
  <2>1. <<>> \in Seq(Seq(Token)) /\ <<>> \in Seq(Token)
    OBVIOUS
  <2> QED
    BY <1>1, <2>1 DEF ScofState
<1> QED
  BY <1>1, <1>2 DEF ScofState, SameFiles

\* Closing a block: a creation closes with what was collected, and so does a patch
\* of a file that has no completed version, applied to the original.
LEMMA Closes ==
  ASSUME NEW p \in ScofState, InBlock(p), NEW q, q = FinalizeCurrentFile(p)
  PROVE  /\ q \in ScofState
         /\ q.currentMode = "idle" /\ q.currentFile = NoFile /\ q.contentBuffer = <<>>
         /\ q.partialLineBuffer = p.partialLineBuffer /\ q.commandBuffer = p.commandBuffer
         /\ q.betweenFilesBuffer = p.betweenFilesBuffer
         /\ q.extractedInstallCommands = p.extractedInstallCommands
         /\ \E c \in Contents :
              /\ q.completedFiles = [p.completedFiles EXCEPT ![p.currentFile] = c]
              /\ q.fixedFilePromises = Append(p.fixedFilePromises, [file |-> p.currentFile, contents |-> c])
              /\ p.currentMode = "file_creation" => c = p.contentBuffer
              /\ p.currentMode = "diff_patch" /\ p.completedFiles[p.currentFile] = NoFile
                   => c = ApplyDiff(OriginalContents(p.currentFile), p.contentBuffer)
<1> DEFINE f == p.currentFile
<1> DEFINE existing == p.completedFiles[f]
<1> DEFINE final == IF p.currentMode = "diff_patch" /\ existing \notin {NoFile, <<>>}
                    THEN ApplyDiff(existing, p.contentBuffer) ELSE p.contentBuffer
<1> DEFINE c == ProcessGeneratedFileContents(f, p.currentMode, final)
<1>1. /\ f \in File \cup {Garbled} /\ p.contentBuffer \in Contents
      /\ p.completedFiles \in [File \cup {Garbled} -> Contents \cup {NoFile}]
      /\ p.fixedFilePromises \in Seq(Promise)
  BY DEF ScofState, InBlock, Contents, Promise
<1>2. existing \in Contents \cup {NoFile}
  BY <1>1
<1>3. final \in Contents
  BY <1>1, <1>2, DiffFacts
<1>4. OriginalContents(f) \in Contents
  BY TokenFacts DEF OriginalContents, Contents
<1>5. c \in Contents
  BY <1>3, <1>4, DiffFacts DEF ProcessGeneratedFileContents
<1>6. p.currentMode = "file_creation" => c = p.contentBuffer
  BY DEF ProcessGeneratedFileContents
<1>7. p.currentMode = "diff_patch" /\ existing = NoFile => c = ApplyDiff(OriginalContents(f), p.contentBuffer)
  BY DEF ProcessGeneratedFileContents
<1>8. q = [p EXCEPT !.completedFiles[f] = c,
                    !.fixedFilePromises = Append(@, [file |-> f, contents |-> c]),
                    !.currentMode = "idle", !.currentFile = NoFile, !.contentBuffer = <<>>]
  BY DEF FinalizeCurrentFile
<1> HIDE DEF c, final, existing, f
<1> DEFINE cs == [p.completedFiles EXCEPT ![f] = c]
<1> DEFINE ps == Append(p.fixedFilePromises, [file |-> f, contents |-> c])
<1>9. cs \in [File \cup {Garbled} -> Contents \cup {NoFile}] /\ ps \in Seq(Promise)
  <2>1. [file |-> f, contents |-> c] \in Promise
    BY <1>1, <1>5 DEF Promise
  <2> QED
    BY <1>1, <1>5, <2>1
<1> HIDE DEF cs, ps
<1>10. q = [currentMode |-> "idle", currentFile |-> NoFile, contentBuffer |-> <<>>,
            partialLineBuffer |-> p.partialLineBuffer, commandBuffer |-> p.commandBuffer,
            betweenFilesBuffer |-> p.betweenFilesBuffer,
            extractedInstallCommands |-> p.extractedInstallCommands,
            completedFiles |-> cs, fixedFilePromises |-> ps]
  BY <1>8 DEF cs, ps, ScofState
<1>11. q \in ScofState
  <2>1. <<>> \in Seq(Seq(Token))
    OBVIOUS
  <2> QED
    BY <1>9, <1>10, <2>1 DEF ScofState, Contents, Promise
<1>12. /\ q.completedFiles = [p.completedFiles EXCEPT ![p.currentFile] = c]
       /\ q.fixedFilePromises = Append(p.fixedFilePromises, [file |-> p.currentFile, contents |-> c])
       /\ p.currentMode = "file_creation" => c = p.contentBuffer
       /\ p.currentMode = "diff_patch" /\ p.completedFiles[p.currentFile] = NoFile
            => c = ApplyDiff(OriginalContents(p.currentFile), p.contentBuffer)
  BY <1>6, <1>7, <1>10 DEF cs, ps, f, existing
<1>13. /\ q.currentMode = "idle" /\ q.currentFile = NoFile /\ q.contentBuffer = <<>>
       /\ q.partialLineBuffer = p.partialLineBuffer /\ q.commandBuffer = p.commandBuffer
       /\ q.betweenFilesBuffer = p.betweenFilesBuffer
       /\ q.extractedInstallCommands = p.extractedInstallCommands
  BY <1>10
<1> QED
  BY <1>5, <1>11, <1>12, <1>13, Zenon

\* A line of a block that is not its end.
LEMMA Collects ==
  ASSUME NEW p \in ScofState, InBlock(p), NEW l \in Seq(Token), Trimmed(l) # <<Marker>>,
         NEW q, q = ProcessLine(p, l)
  PROVE  /\ q \in ScofState /\ SameFiles(p, q)
         /\ q.currentMode = p.currentMode /\ q.currentFile = p.currentFile
         /\ q.commandBuffer = p.commandBuffer /\ q.betweenFilesBuffer = p.betweenFilesBuffer
         /\ q.extractedInstallCommands = p.extractedInstallCommands
         /\ q.contentBuffer = IF ~IsBlank(l) \/ (p.contentBuffer = <<>> /\ l # <<>>)
                              THEN Append(p.contentBuffer, l) ELSE p.contentBuffer
<1>1. q = AddContentLine(p, l)
  BY DEF ProcessLine, InBlock
<1>2. CASE ~IsBlank(l) \/ (p.contentBuffer = <<>> /\ l # <<>>)
  <2>1. q = [p EXCEPT !.contentBuffer = Append(@, l)]
    BY <1>1, <1>2 DEF AddContentLine
  <2>2. Append(p.contentBuffer, l) \in Seq(Seq(Token))
    BY DEF ScofState
  <2>3. q \in ScofState
    BY <2>1, <2>2 DEF ScofState
  <2> QED
    BY <1>2, <2>1, <2>3 DEF ScofState, SameFiles
<1>3. CASE ~(~IsBlank(l) \/ (p.contentBuffer = <<>> /\ l # <<>>))
  BY <1>1, <1>3 DEF AddContentLine, SameFiles
<1> QED
  BY <1>2, <1>3

\* A line between the blocks: it holds a command, or completes one, or is kept as
\* part of one, or as text.
LEMMA Between ==
  ASSUME NEW p \in ScofState, ~InBlock(p), ~IsCommand(p.commandBuffer), NEW l \in Seq(Token), ~IsBlank(l),
         NEW q, q = ProcessLine(p, l), NEW t, t = Trimmed(l)
  PROVE  /\ q \in ScofState /\ SameFiles(p, q) /\ ~IsCommand(q.commandBuffer)
         /\ q.extractedInstallCommands = p.extractedInstallCommands \cup p.betweenFilesBuffer
         /\ ~IsCommand(t) /\ t[1] = InstallCommand => q.betweenFilesBuffer = {InstallCommand}
         /\ IsCommand(t) =>
              /\ q.currentMode = TryParseCommand(t).type /\ q.currentFile = TryParseCommand(t).filePath
              /\ q.contentBuffer = <<>> /\ q.commandBuffer = <<>>
         /\ ~IsCommand(t) /\ p.commandBuffer # <<>> /\ IsCommand(p.commandBuffer \o t) =>
              /\ q.currentMode = TryParseCommand(p.commandBuffer \o t).type
              /\ q.currentFile = TryParseCommand(p.commandBuffer \o t).filePath
              /\ q.contentBuffer = <<>> /\ q.commandBuffer = <<>>
         /\ ~IsCommand(t) /\ ~(p.commandBuffer # <<>> /\ IsCommand(p.commandBuffer \o t)) =>
              /\ q.currentMode = p.currentMode /\ q.currentFile = NoFile
              /\ q.commandBuffer = IF p.commandBuffer # <<>> THEN p.commandBuffer \o t
                                   ELSE IF Heads \cap Range(t) # {} THEN t ELSE <<>>
<1> DEFINE a == ProcessAccumulatedBetweenFilesContent(p)
<1> DEFINE b == IF t[1] = InstallCommand THEN [a EXCEPT !.betweenFilesBuffer = {InstallCommand}] ELSE a
<1> DEFINE more == p.commandBuffer \o t
<1>1. t \in Seq(Token) /\ t # <<>> /\ p.commandBuffer \in Seq(Token) /\ InstallCommand \in Token
  BY TrimmedType, TokenFacts DEF ScofState
<1>2. more \in Seq(Token)
  BY <1>1, ConcatProperties
<1>3. a = [p EXCEPT !.extractedInstallCommands = @ \cup p.betweenFilesBuffer, !.betweenFilesBuffer = {}]
  BY DEF ProcessAccumulatedBetweenFilesContent
<1>4. /\ a \in ScofState /\ SameFiles(p, a) /\ a.currentMode = p.currentMode /\ a.currentFile = NoFile
      /\ a.extractedInstallCommands = p.extractedInstallCommands \cup p.betweenFilesBuffer
      /\ a.commandBuffer = p.commandBuffer /\ a.contentBuffer = p.contentBuffer
  BY <1>3 DEF ScofState, SameFiles, InBlock
<1> HIDE DEF a
<1>5. /\ b \in ScofState /\ SameFiles(p, b) /\ b.currentMode = p.currentMode /\ b.currentFile = NoFile
      /\ b.extractedInstallCommands = p.extractedInstallCommands \cup p.betweenFilesBuffer
      /\ b.commandBuffer = p.commandBuffer /\ b.contentBuffer = p.contentBuffer
      /\ t[1] = InstallCommand => b.betweenFilesBuffer = {InstallCommand}
  BY <1>4 DEF ScofState, SameFiles
<1>6. q = LineBetweenFiles(a, t)
  BY DEF ProcessLine, InBlock, a
<1> HIDE DEF b, more
<1>7. CASE IsCommand(t)
  <2>1. q = HandleCommand(a, TryParseCommand(t))
    BY <1>6, <1>7 DEF LineBetweenFiles
  <2>2. TryParseCommand(t).type \in {"file_creation", "diff_patch"} /\ TryParseCommand(t).filePath \in File \cup {Garbled}
    BY <1>1, <1>7, ParsedCommand, NamesFacts
  <2>3. /\ q \in ScofState /\ SameFiles(a, q)
        /\ q.currentMode = TryParseCommand(t).type /\ q.currentFile = TryParseCommand(t).filePath
        /\ q.contentBuffer = <<>> /\ q.commandBuffer = <<>>
        /\ q.extractedInstallCommands = a.extractedInstallCommands
    BY <1>4, <2>1, <2>2, Opens
  <2> QED
    BY <1>4, <1>7, <2>3, ShortLines DEF SameFiles
<1>8. CASE ~IsCommand(t) /\ p.commandBuffer # <<>> /\ IsCommand(more)
  <2>1. q = HandleCommand(b, TryParseCommand(more))
    BY <1>4, <1>6, <1>8 DEF LineBetweenFiles, b, more
  <2>2. TryParseCommand(more).type \in {"file_creation", "diff_patch"} /\ TryParseCommand(more).filePath \in File \cup {Garbled}
    BY <1>2, <1>8, ParsedCommand, NamesFacts
  <2>3. /\ q \in ScofState /\ SameFiles(b, q)
        /\ q.currentMode = TryParseCommand(more).type /\ q.currentFile = TryParseCommand(more).filePath
        /\ q.contentBuffer = <<>> /\ q.commandBuffer = <<>>
        /\ q.extractedInstallCommands = b.extractedInstallCommands /\ q.betweenFilesBuffer = b.betweenFilesBuffer
    BY <1>5, <2>1, <2>2, Opens
  <2> QED
    BY <1>5, <1>8, <2>3, ShortLines DEF SameFiles, more
<1>9. CASE ~IsCommand(t) /\ p.commandBuffer # <<>> /\ ~IsCommand(more)
  <2>1. q = [b EXCEPT !.commandBuffer = more]
    BY <1>4, <1>6, <1>9 DEF LineBetweenFiles, b, more
  <2>2. q \in ScofState
    BY <1>2, <1>5, <2>1 DEF ScofState
  <2>3. /\ SameFiles(b, q) /\ q.currentMode = b.currentMode /\ q.currentFile = b.currentFile /\ q.commandBuffer = more
        /\ q.extractedInstallCommands = b.extractedInstallCommands /\ q.betweenFilesBuffer = b.betweenFilesBuffer
    BY <1>5, <2>1 DEF ScofState, SameFiles
  <2> QED
    BY <1>5, <1>9, <2>2, <2>3 DEF SameFiles, more
<1>10. CASE ~IsCommand(t) /\ p.commandBuffer = <<>> /\ Heads \cap Range(t) # {}
  <2>1. q = [b EXCEPT !.commandBuffer = t]
    BY <1>4, <1>6, <1>10 DEF LineBetweenFiles, b
  <2>2. q \in ScofState
    BY <1>1, <1>5, <2>1 DEF ScofState
  <2>3. /\ SameFiles(b, q) /\ q.currentMode = b.currentMode /\ q.currentFile = b.currentFile /\ q.commandBuffer = t
        /\ q.extractedInstallCommands = b.extractedInstallCommands /\ q.betweenFilesBuffer = b.betweenFilesBuffer
    BY <1>5, <2>1 DEF ScofState, SameFiles
  <2> QED
    BY <1>5, <1>10, <2>2, <2>3 DEF SameFiles
<1>11. CASE ~IsCommand(t) /\ p.commandBuffer = <<>> /\ Heads \cap Range(t) = {}
  <2>1. q = b
    BY <1>4, <1>6, <1>11 DEF LineBetweenFiles, b
  <2> QED
    BY <1>5, <1>11, <2>1, ShortLines DEF SameFiles
<1> QED
  BY <1>7, <1>8, <1>9, <1>10, <1>11

-----------------------------------------------------------------------------
(* The answer, read line by line. *)

OneLine(f) == <<Cat(f), Here, NewLine>>
PatchLine(f) == <<CatHere, Patch(f), NewLine>>

\* What the kinds of lines are read as.
LEMMA ReadFacts ==
  ASSUME NEW r
  PROVE  /\ \A f \in File : /\ ReadLine(r, OneLine(f)) = ReadOpening(r, "file_creation", f)
                            /\ ReadLine(r, TwoLines(f)) = ReadOpening(r, "file_creation", f)
                            /\ ReadLine(r, PatchLine(f)) = ReadOpening(r, "diff_patch", f)
         /\ \A w \in Endings : ReadLine(r, w) = ReadEnding(r)
         /\ ReadLine(r, <<InstallCommand, NewLine>>)
               = [r EXCEPT !.installs = IF r.lostSync THEN @ ELSE {InstallCommand}]
         /\ \A t \in {Text, Added} : ReadLine(r, <<t, NewLine>>) = [r EXCEPT !.contents = Append(@, <<t>>)]
         /\ ReadLine(r, <<Marker, Text, NewLine>>) = [r EXCEPT !.contents = Append(@, <<Marker, Text>>)]
<1>1. /\ Marker # Text /\ Marker # Added /\ Marker # InstallCommand /\ Marker # CatHere
      /\ InstallCommand # CatHere /\ Text # InstallCommand /\ Added # InstallCommand
      /\ Text # CatHere /\ Added # CatHere
      /\ \A f \in File : /\ Cat(f).file = f /\ Patch(f).file = f
                         /\ \A t \in {Marker, Text, Added, InstallCommand, CatHere} : t # Cat(f)
  <2>1. \A t \in {Text, Added, InstallCommand} : t.kind # "cathere"
    BY DEF Text, Added, InstallCommand, Word
  <2>2. CatHere.kind = "cathere"
    BY DEF CatHere, Word
  <2>3. Text.kind # "install" /\ Added.kind # "install" /\ InstallCommand.kind = "install"
    BY DEF Text, Added, InstallCommand, Word
  <2> QED
    BY <2>1, <2>2, <2>3, TokenFacts
<1>2. ASSUME NEW w PROVE /\ w \in Creations => \E f \in File : w[1] = Cat(f)
                         /\ w \in Patches => w[1] = CatHere
                         /\ w \in Endings => w[1] = Marker
  BY DEF Creations, Patches, Endings
<1>3. \A f \in File : /\ ReadLine(r, OneLine(f)) = ReadOpening(r, "file_creation", f)
                      /\ ReadLine(r, TwoLines(f)) = ReadOpening(r, "file_creation", f)
  <2> SUFFICES ASSUME NEW f \in File, NEW w \in {OneLine(f), TwoLines(f)}
               PROVE  ReadLine(r, w) = ReadOpening(r, "file_creation", f)
    BY Zenon
  <2>1. w \in Creations /\ w[1] = Cat(f)
    BY DEF Creations, OneLine, TwoLines
  <2>2. w \notin Patches /\ w \notin Endings /\ w[1] # InstallCommand /\ w[1].file = f
    BY <1>1, <1>2, <2>1
  <2> QED
    BY <2>1, <2>2 DEF ReadLine
<1>4. \A f \in File : ReadLine(r, PatchLine(f)) = ReadOpening(r, "diff_patch", f)
  <2> SUFFICES ASSUME NEW f \in File PROVE ReadLine(r, PatchLine(f)) = ReadOpening(r, "diff_patch", f)
    OBVIOUS
  <2> DEFINE w == PatchLine(f)
  <2>1. w \in Patches /\ w[1] = CatHere /\ w[2] = Patch(f)
    BY DEF Patches, PatchLine
  <2> HIDE DEF w
  <2>2. w \notin Creations /\ w \notin Endings /\ w[1] # InstallCommand /\ w[2].file = f
    BY <1>1, <1>2, <2>1
  <2> QED
    BY <2>1, <2>2 DEF ReadLine, w
<1>5. \A w \in Endings : ReadLine(r, w) = ReadEnding(r)
  <2> SUFFICES ASSUME NEW w \in Endings PROVE ReadLine(r, w) = ReadEnding(r)
    OBVIOUS
  <2>1. w[1] = Marker
    BY <1>2
  <2>2. w \notin Creations /\ w \notin Patches /\ w[1] # InstallCommand
    BY <1>1, <1>2, <2>1
  <2> QED
    BY <2>2 DEF ReadLine
<1>6. ReadLine(r, <<InstallCommand, NewLine>>) = [r EXCEPT !.installs = IF r.lostSync THEN @ ELSE {InstallCommand}]
  <2> DEFINE w == <<InstallCommand, NewLine>>
  <2>1. w[1] = InstallCommand
    OBVIOUS
  <2> HIDE DEF w
  <2>2. w \notin Creations /\ w \notin Patches /\ w \notin Endings
    BY <1>1, <1>2, <2>1
  <2> QED
    BY <2>1, <2>2 DEF ReadLine, w
<1>7. \A t \in {Text, Added} : ReadLine(r, <<t, NewLine>>) = [r EXCEPT !.contents = Append(@, <<t>>)]
  <2> SUFFICES ASSUME NEW t \in {Text, Added} PROVE ReadLine(r, <<t, NewLine>>) = [r EXCEPT !.contents = Append(@, <<t>>)]
    OBVIOUS
  <2> DEFINE w == <<t, NewLine>>
  <2>1. w[1] = t
    OBVIOUS
  <2>2. Front(w) = <<t>>
    <3>1. t \in Token /\ NewLine \in Token
      BY TokenFacts
    <3>2. Append(<<t>>, NewLine) = w /\ <<t>> \in Seq(Token)
      BY <3>1, Literals
    <3>3. \A x \in Seq(Token), u \in Token : Front(Append(x, u)) = x
      BY FrontOfAppend
    <3> QED
      BY <3>1, <3>2, <3>3
  <2> HIDE DEF w
  <2>3. w \notin Creations /\ w \notin Patches /\ w \notin Endings /\ w[1] # InstallCommand
    BY <1>1, <1>2, <2>1
  <2> QED
    BY <2>2, <2>3 DEF ReadLine, w
<1>8. ReadLine(r, <<Marker, Text, NewLine>>) = [r EXCEPT !.contents = Append(@, <<Marker, Text>>)]
  <2> DEFINE w == <<Marker, Text, NewLine>>
  <2>0. Marker \in Token /\ Text \in Token /\ NewLine \in Token /\ Text # Pad /\ Text # NewLine
    BY TokenFacts
  <2>1. w[1] = Marker /\ w[2] = Text
    OBVIOUS
  <2>2. Front(w) = <<Marker, Text>>
    <3>1. Append(<<Marker, Text>>, NewLine) = w /\ <<Marker, Text>> \in Seq(Token)
      <4> DEFINE x == Append(<<Marker, Text>>, NewLine)
      <4>1. x \in Seq(Token) /\ Len(x) = 3 /\ x[1] = Marker /\ x[2] = Text /\ x[3] = NewLine
        BY <2>0
      <4>2. w \in Seq(Token) /\ Len(w) = 3 /\ w[1] = Marker /\ w[2] = Text /\ w[3] = NewLine
        BY <2>0
      <4> HIDE DEF x, w
      <4>3. \A i \in 1 .. Len(x) : x[i] = w[i]
        BY <4>1, <4>2
      <4>4. x = w
        BY <4>1, <4>2, <4>3, SeqEqual
      <4> QED
        BY <2>0, <4>4 DEF x
    <3>2. \A x \in Seq(Token), u \in Token : Front(Append(x, u)) = x
      BY FrontOfAppend
    <3> QED
      BY <2>0, <3>1, <3>2
  <2>3. w \notin Endings
    BY <2>0, <2>1 DEF Endings
  <2> HIDE DEF w
  <2>4. w \notin Creations /\ w \notin Patches /\ w[1] # InstallCommand
    BY <1>1, <1>2, <2>1
  <2> QED
    BY <2>2, <2>3, <2>4 DEF ReadLine, w
<1> QED
  BY <1>3, <1>4, <1>5, <1>6, <1>7, <1>8

\* A block is opened: what is read is s instead of r.
AfterOpening(r, s, m, f) ==
    /\ s \in Script /\ s.mode = m /\ s.file = f /\ s.contents = <<>> /\ s.files = r.files
    /\ s.written = r.written /\ s.installs = r.installs /\ s.due = r.due
    /\ s.lostSync = r.lostSync /\ s.repatched = r.repatched
    /\ s.spoilt = IF r.lostSync THEN r.spoilt \cup {f} ELSE r.spoilt

\* That is what ReadOpening does.
LEMMA ReadOpeningFacts ==
  ASSUME NEW r \in Script, NEW m \in {"file_creation", "diff_patch"}, NEW f \in File,
         NEW s, s = ReadOpening(r, m, f)
  PROVE  AfterOpening(r, s, m, f)
<1>1. s = [r EXCEPT !.mode = m, !.file = f, !.contents = <<>>,
                    !.spoilt = IF r.lostSync THEN @ \cup {f} ELSE @]
  BY DEF ReadOpening
<1>2. <<>> \in Seq(Seq(Token))
  OBVIOUS
<1> DEFINE sp == IF r.lostSync THEN r.spoilt \cup {f} ELSE r.spoilt
<1>3. sp \in SUBSET (File \cup {Garbled})
  BY DEF Script
<1>4. s = [mode |-> m, file |-> f, contents |-> <<>>, files |-> r.files, written |-> r.written,
           installs |-> r.installs, due |-> r.due, lostSync |-> r.lostSync, spoilt |-> sp,
           repatched |-> r.repatched]
  BY <1>1 DEF Script
<1> HIDE DEF sp
<1>5. s \in Script
  BY <1>2, <1>3, <1>4 DEF Script
<1> QED
  BY <1>4, <1>5 DEF sp, AfterOpening

\* A block ends.
LEMMA ReadEndingFacts ==
  ASSUME NEW r \in Script, r.mode # "idle", r.file \in File, NEW s, s = ReadEnding(r)
  PROVE  /\ s \in Script /\ s.mode = "idle" /\ s.file = NoFile /\ s.lostSync = FALSE
         /\ s.installs = r.installs /\ s.written = r.written \cup {r.file}
         /\ s.due = IF r.lostSync THEN r.due ELSE r.due \cup r.installs
         /\ s.files = [r.files EXCEPT ![r.file] = IF r.mode = "diff_patch"
                                                  THEN ApplyDiff(r.files[r.file], r.contents) ELSE r.contents]
         /\ s.spoilt = IF r.mode = "diff_patch" \/ r.lostSync THEN r.spoilt ELSE r.spoilt \ {r.file}
         /\ r.mode = "file_creation" => s.repatched = r.repatched \ {r.file}
         /\ r.mode = "diff_patch" => s.repatched = IF r.file \in r.written THEN r.repatched \cup {r.file} ELSE r.repatched
<1> DEFINE c == IF r.mode = "diff_patch" THEN ApplyDiff(r.files[r.file], r.contents) ELSE r.contents
<1> DEFINE fs == [r.files EXCEPT ![r.file] = c]
<1> DEFINE rep == CASE r.mode = "file_creation" -> r.repatched \ {r.file}
                    [] r.mode = "diff_patch" /\ r.file \in r.written -> r.repatched \cup {r.file}
                    [] OTHER -> r.repatched
<1>1. c \in Contents
  BY DiffFacts DEF Script, Contents
<1>2. fs \in [File -> Contents]
  BY <1>1 DEF Script, Contents
<1>3. /\ rep \in SUBSET File
      /\ r.mode = "file_creation" => rep = r.repatched \ {r.file}
      /\ r.mode = "diff_patch" => rep = IF r.file \in r.written THEN r.repatched \cup {r.file} ELSE r.repatched
  BY DEF Script
<1>4. s = [r EXCEPT !.mode = "idle", !.file = NoFile, !.lostSync = FALSE,
                    !.written = @ \cup {r.file},
                    !.due = IF r.lostSync THEN @ ELSE @ \cup r.installs,
                    !.files = fs,
                    !.spoilt = IF r.mode = "diff_patch" \/ r.lostSync THEN @ ELSE @ \ {r.file},
                    !.repatched = rep]
  BY DEF ReadEnding
<1> HIDE DEF c, fs, rep
<1>5. s = [mode |-> "idle", file |-> NoFile, contents |-> r.contents, files |-> fs,
           written |-> r.written \cup {r.file}, installs |-> r.installs,
           due |-> IF r.lostSync THEN r.due ELSE r.due \cup r.installs, lostSync |-> FALSE,
           spoilt |-> IF r.mode = "diff_patch" \/ r.lostSync THEN r.spoilt ELSE r.spoilt \ {r.file},
           repatched |-> rep]
  BY <1>4 DEF Script
<1>6. s \in Script
  BY <1>2, <1>3, <1>5 DEF Script, Contents
<1> QED
  BY <1>3, <1>5, <1>6 DEF fs, c

-----------------------------------------------------------------------------
(* The parser completes a line. *)

\* The parser q is p with another unfinished line.
WithPartial(p, q, l) ==
    /\ q \in ScofState /\ q.partialLineBuffer = l /\ Cleared(q) = Cleared(p)
    /\ q.currentMode = p.currentMode /\ q.currentFile = p.currentFile
    /\ q.contentBuffer = p.contentBuffer /\ q.commandBuffer = p.commandBuffer
    /\ q.betweenFilesBuffer = p.betweenFilesBuffer
    /\ q.extractedInstallCommands = p.extractedInstallCommands
    /\ q.completedFiles = p.completedFiles /\ q.fixedFilePromises = p.fixedFilePromises

\* The unfinished line is a field like the others.
LEMMA PartialFacts ==
  ASSUME NEW p \in ScofState, NEW l \in Seq(Token), NEW q, q = [p EXCEPT !.partialLineBuffer = l]
  PROVE  WithPartial(p, q, l)
<1>1. q = [currentMode |-> p.currentMode, currentFile |-> p.currentFile, contentBuffer |-> p.contentBuffer,
           partialLineBuffer |-> l, commandBuffer |-> p.commandBuffer,
           betweenFilesBuffer |-> p.betweenFilesBuffer,
           extractedInstallCommands |-> p.extractedInstallCommands,
           completedFiles |-> p.completedFiles, fixedFilePromises |-> p.fixedFilePromises]
  BY DEF ScofState
<1>2. q \in ScofState
  BY DEF ScofState
<1>3. Cleared(q) = Cleared(p)
  BY DEF Cleared, ScofState
<1> QED
  BY <1>1, <1>2, <1>3 DEF WithPartial

\* Clearing it, too.
LEMMA ClearedFacts ==
  ASSUME NEW p \in ScofState
  PROVE  WithPartial(p, Cleared(p), <<>>)
<1>1. <<>> \in Seq(Token)
  OBVIOUS
<1> QED
  BY <1>1, PartialFacts DEF Cleared

\* What was accounted for stays so while no block is closed.
LEMMA StillAccounted ==
  ASSUME NEW p \in ScofState, NEW r \in Script, Accounted(p, r), NEW q, NEW s,
         q.completedFiles = p.completedFiles, q.fixedFilePromises = p.fixedFilePromises,
         p.extractedInstallCommands \subseteq q.extractedInstallCommands,
         s.files = r.files, s.written = r.written, s.due = r.due, s.repatched = r.repatched,
         r.spoilt \subseteq s.spoilt
  PROVE  Accounted(q, s)
  BY DEF Accounted

\* In step means that nobody is in a block or both are.
LEMMA InStepFacts ==
  ASSUME NEW p, NEW r, AtLine(p, r)
  PROVE  /\ p \in ScofState /\ r \in Script /\ r.lostSync \in BOOLEAN /\ p.partialLineBuffer \in Seq(Token)
         /\ ~IsCommand(p.commandBuffer) /\ p.commandBuffer \in Seq(Token) /\ Accounted(p, r)
         /\ r.mode \in {"idle", "file_creation", "diff_patch"}
         /\ NewLine \notin Range(p.partialLineBuffer) /\ (InBlock(p) => p.commandBuffer = <<>>)
         /\ ~r.lostSync => InStep(p, r)
         /\ r.lostSync => Astray(p, r)
         /\ ~r.lostSync => (r.mode = "idle" <=> ~InBlock(p))
         /\ r.mode # "idle" => p.partialLineBuffer = <<>> /\ p.commandBuffer = <<>> /\ r.file \in File
<1>1. /\ p \in ScofState /\ r \in Script
      /\ ~IsCommand(p.commandBuffer) /\ Accounted(p, r)
      /\ NewLine \notin Range(p.partialLineBuffer) /\ (InBlock(p) => p.commandBuffer = <<>>)
      /\ r.mode = "idle" <=> r.file = NoFile
  BY DEF AtLine, Sound
<1>2. /\ r.lostSync \in BOOLEAN /\ p.partialLineBuffer \in Seq(Token) /\ p.commandBuffer \in Seq(Token)
      /\ r.mode \in {"idle", "file_creation", "diff_patch"} /\ r.file \in File \cup {NoFile}
  BY <1>1 DEF Script, ScofState
<1>3. (~r.lostSync => InStep(p, r)) /\ (r.lostSync => Astray(p, r))
  BY <1>2 DEF AtLine
<1>4. ~r.lostSync /\ r.mode = "idle" => ~InBlock(p)
  BY <1>1, <1>3 DEF InStep, InBlock
<1>5. r.mode # "idle" => r.file \in File /\ r.file # NoFile
  BY <1>1, <1>2
<1>6. ~r.lostSync /\ r.mode # "idle" => InBlock(p) /\ p.partialLineBuffer = <<>>
  BY <1>3, <1>5 DEF InStep, InBlock, SameContents
<1>7. r.lostSync /\ r.mode # "idle" => p.partialLineBuffer = <<>> /\ p.commandBuffer = <<>>
  BY <1>3 DEF Astray
<1> QED
  BY <1>1, <1>2, <1>3, <1>4, <1>5, <1>6, <1>7

\* Putting together what a line leaves behind.
LEMMA StaysSound ==
  ASSUME NEW q \in ScofState, NEW s \in Script, InBlock(q) <=> q.currentMode # "idle",
         s.mode = "idle" <=> s.file = NoFile, ~IsCommand(q.commandBuffer),
         InBlock(q) => q.commandBuffer = <<>>, q.partialLineBuffer = <<>>, Accounted(q, s)
  PROVE  Sound(q, s)
<1>1. Range(<<>>) = {} /\ <<>> \in Seq(Token)
  BY DEF Range
<1>2. Trimmed(<<>>) # <<Marker>>
  BY <1>1, NoMarker
<1> QED
  BY <1>1, <1>2 DEF Sound

\* A line between the blocks that holds neither a command nor the beginning of
\* one leaves what is between them as it is.
LEMMA UnnoticedLine ==
  ASSUME NEW u \in ScofState, ~InBlock(u), u.commandBuffer = <<>>,
         NEW l \in Seq(Token), Range(l) \subseteq {Pad, Marker, Text, Added}, NEW q, q = ProcessLine(u, l)
  PROVE  /\ q \in ScofState /\ SameFiles(u, q)
         /\ q.currentMode = u.currentMode /\ q.currentFile = NoFile /\ q.commandBuffer = <<>>
         /\ u.extractedInstallCommands \subseteq q.extractedInstallCommands
         /\ u.betweenFilesBuffer \subseteq q.betweenFilesBuffer \cup q.extractedInstallCommands
<1>1. CASE IsBlank(l)
  <2>1. q = u
    BY <1>1 DEF ProcessLine, InBlock
  <2> QED
    BY <2>1 DEF SameFiles, InBlock
<1>2. CASE ~IsBlank(l)
  <2> DEFINE t == Trimmed(l)
  <2>1. t \in Seq(Token) /\ Range(t) \subseteq {Pad, Marker, Text, Added}
    BY TrimmedType
  <2> HIDE DEF t
  <2>2. \A k \in DOMAIN t : t[k] \in {Pad, Marker, Text, Added}
    BY <2>1 DEF Range
  <2>3. \A a \in {Pad, Marker, Text, Added} : a.kind # "cat" /\ a # CatHere
    <3>1. /\ Pad.kind = "pad" /\ Marker.kind = "EOF" /\ Text.kind = "text" /\ Added.kind = "added"
          /\ CatHere.kind = "cathere"
      BY DEF Pad, Marker, Text, Added, CatHere, Word
    <3> QED
      BY <3>1
  <2>4. ~IsCommand(t)
    <3>1. \A k \in 1 .. Len(t) - 1 : t[k] \in {Pad, Marker, Text, Added}
      BY <2>1, <2>2
    <3> QED
      BY <2>3, <3>1 DEF IsCommand, CreationsIn, PatchesIn
  <2>5. Heads \cap Range(t) = {}
    <3>1. \A f \in File : Cat(f).kind = "cat"
      BY DEF Cat
    <3> QED
      BY <2>1, <2>3, <3>1 DEF Heads
  <2>6. ~IsCommand(u.commandBuffer)
    BY ShortLines
  <2>7. /\ q \in ScofState /\ SameFiles(u, q)
        /\ q.extractedInstallCommands = u.extractedInstallCommands \cup u.betweenFilesBuffer
        /\ ~IsCommand(t) /\ ~(u.commandBuffer # <<>> /\ IsCommand(u.commandBuffer \o t)) =>
              /\ q.currentMode = u.currentMode /\ q.currentFile = NoFile
              /\ q.commandBuffer = IF u.commandBuffer # <<>> THEN u.commandBuffer \o t
                                   ELSE IF Heads \cap Range(t) # {} THEN t ELSE <<>>
    BY <1>2, <2>6, Between DEF t
  <2> QED
    BY <2>4, <2>5, <2>7
<1> QED
  BY <1>1, <1>2

\* Out of the blocks, such a line changes nothing of how the two go together.
LEMMA OutOfBlock ==
  ASSUME NEW p, NEW r, AtLine(p, r), ~InBlock(p), p.commandBuffer = <<>>,
         NEW l \in Seq(Token), Range(l) \subseteq {Pad, Marker, Text, Added},
         NEW q, q = ProcessLine(Cleared(p), l),
         NEW s \in Script, s.mode = r.mode, s.file = r.file, s.files = r.files, s.installs = r.installs,
         s.written = r.written, s.due = r.due, s.lostSync = r.lostSync, s.repatched = r.repatched,
         s.spoilt = r.spoilt
  PROVE  AtLine(q, s)
<1> DEFINE u == Cleared(p)
<1>1. /\ p \in ScofState /\ r \in Script /\ r.lostSync \in BOOLEAN /\ Accounted(p, r)
      /\ ~r.lostSync => InStep(p, r)
      /\ r.lostSync => Astray(p, r)
      /\ ~r.lostSync => r.mode = "idle"
  BY InStepFacts
<1>2. p.currentMode = "idle" /\ (r.mode = "idle" <=> r.file = NoFile)
  BY DEF AtLine, Sound, InBlock, ScofState
<1> HIDE DEF u
<1>0. WithPartial(p, u, <<>>)
  BY <1>1, ClearedFacts, Zenon DEF u
<1>3. /\ u \in ScofState /\ u.partialLineBuffer = <<>>
      /\ u.currentMode = p.currentMode /\ u.currentFile = p.currentFile
      /\ u.commandBuffer = p.commandBuffer /\ u.betweenFilesBuffer = p.betweenFilesBuffer
      /\ u.extractedInstallCommands = p.extractedInstallCommands
      /\ u.completedFiles = p.completedFiles /\ u.fixedFilePromises = p.fixedFilePromises
  BY <1>0 DEF WithPartial
<1>4. /\ q \in ScofState /\ SameFiles(u, q)
      /\ q.currentMode = u.currentMode /\ q.currentFile = NoFile /\ q.commandBuffer = <<>>
      /\ u.extractedInstallCommands \subseteq q.extractedInstallCommands
      /\ u.betweenFilesBuffer \subseteq q.betweenFilesBuffer \cup q.extractedInstallCommands
  <2>1. u \in ScofState /\ ~InBlock(u) /\ u.commandBuffer = <<>> /\ q = ProcessLine(u, l)
    BY <1>3 DEF InBlock, u
  <2> QED
    BY <2>1, UnnoticedLine
<1>5. q.partialLineBuffer = <<>> /\ q.currentMode = "idle" /\ ~InBlock(q)
  BY <1>2, <1>3, <1>4 DEF SameFiles, InBlock
<1>6. Accounted(q, s)
  BY <1>1, <1>3, <1>4, StillAccounted DEF SameFiles
<1>7. Sound(q, s)
  BY <1>2, <1>4, <1>5, <1>6, StaysSound, ShortLines
<1>8. CASE r.lostSync
  <2>1. Names(<<>>) = {}
    BY NamesFacts
  <2>2. Astray(q, s)
    BY <1>1, <1>4, <1>5, <1>8, <2>1 DEF Astray
  <2> QED
    BY <1>7, <1>8, <2>2 DEF AtLine
<1>9. CASE ~r.lostSync
  <2>1. r.mode = "idle" /\ r.installs \subseteq p.betweenFilesBuffer \cup p.extractedInstallCommands
    BY <1>1, <1>9 DEF InStep, SameContents
  <2>2. SameContents(q, s)
    BY <1>3, <1>4, <2>1 DEF SameContents
  <2>3. InStep(q, s)
    BY <1>2, <1>4, <1>5, <2>1, <2>2, TrimmedMarker DEF InStep
  <2> QED
    BY <1>7, <1>9, <2>3 DEF AtLine
<1> QED
  BY <1>1, <1>8, <1>9

\* A complete command opens its block, and nothing else happens to what was
\* closed; out of step, it opens some block or is taken for text in one.
LEMMA CommandLine ==
  ASSUME NEW p, NEW r, AtLine(p, r), r.mode = "idle", NEW f \in File,
         NEW m \in {"file_creation", "diff_patch"},
         NEW a \in Token, NEW b \in Token, a # Pad, b # Pad, a # Marker, b # Marker,
         a.file \in {f, NoFile}, b.file \in {f, NoFile},
         \A y \in Seq(Token) : IsCommand(Append(Append(y, a), b)),
         TryParseCommand(<<a, b>>) = [type |-> m, filePath |-> f],
         NEW q, q = ProcessLine(Cleared(p), Append(Append(p.partialLineBuffer, a), b)),
         NEW s, s = ReadOpening(r, m, f)
  PROVE  AtLine(q, s)
<1> DEFINE x == p.partialLineBuffer
<1> DEFINE l == Append(Append(x, a), b)
<1> DEFINE u == Cleared(p)
<1>1. /\ p \in ScofState /\ r \in Script /\ r.lostSync \in BOOLEAN /\ x \in Seq(Token)
      /\ ~IsCommand(p.commandBuffer) /\ p.commandBuffer \in Seq(Token) /\ Accounted(p, r)
      /\ (InBlock(p) => p.commandBuffer = <<>>)
      /\ ~r.lostSync => InStep(p, r)
      /\ r.lostSync => Astray(p, r)
      /\ ~r.lostSync /\ r.mode = "idle" => ~InBlock(p)
  BY InStepFacts
<1> HIDE DEF x, l, u
<1>0. AfterOpening(r, s, m, f) /\ WithPartial(p, u, <<>>)
  BY <1>1, ReadOpeningFacts, ClearedFacts, Zenon DEF u
<1>2. /\ s \in Script /\ s.mode = m /\ s.file = f /\ s.contents = <<>> /\ s.files = r.files
      /\ s.written = r.written /\ s.installs = r.installs /\ s.due = r.due
      /\ s.lostSync = r.lostSync /\ s.repatched = r.repatched
      /\ s.spoilt = IF r.lostSync THEN r.spoilt \cup {f} ELSE r.spoilt
  BY <1>0 DEF AfterOpening
<1>3. f # NoFile /\ m # "idle" /\ Garbled # NoFile /\ NoFile \notin File
  BY StreamAssumption
<1>4. /\ u \in ScofState /\ u.partialLineBuffer = <<>>
      /\ u.currentMode = p.currentMode /\ u.currentFile = p.currentFile
      /\ u.contentBuffer = p.contentBuffer /\ u.commandBuffer = p.commandBuffer
      /\ u.betweenFilesBuffer = p.betweenFilesBuffer
      /\ u.extractedInstallCommands = p.extractedInstallCommands
      /\ u.completedFiles = p.completedFiles /\ u.fixedFilePromises = p.fixedFilePromises
  BY <1>0 DEF WithPartial
<1>5. l \in Seq(Token)
  BY <1>1 DEF l
<1>6. PICK y \in Seq(Token) : /\ Trimmed(l) = Append(Append(y, a), b) /\ Range(y) \subseteq Range(x)
                              /\ IsBlank(x) => y = <<>>
  <2>1. x \in Seq(Token)
    BY <1>1
  <2> QED
    BY <2>1, TrimmedTwo DEF l
<1>7. ~IsBlank(l)
  BY <1>1, TrimmedTwo, Zenon DEF l
<1>8. q = ProcessLine(u, l)
  BY DEF u, l, x
<1> DEFINE t == Trimmed(l)
<1>9. IsCommand(t) /\ t \in Seq(Token)
  BY <1>6
<1>10. Names(t) \subseteq Names(x) \cup {f}
  <2>1. Names(Append(Append(y, a), b)) = Names(Append(y, a)) \cup ({b.file} \ {NoFile})
    <3>1. Append(y, a) \in Seq(Token)
      OBVIOUS
    <3> QED
      BY <3>1, NamesFacts, Zenon
  <2>2. Names(Append(y, a)) = Names(y) \cup ({a.file} \ {NoFile})
    BY NamesFacts
  <2>3. Names(y) \subseteq Names(x)
    BY <1>1, <1>6, NamesFacts
  <2> QED
    BY <1>6, <2>1, <2>2, <2>3
<1> HIDE DEF t
<1>11. CASE InBlock(p)
  <2>1. r.lostSync /\ Astray(p, r) /\ InBlock(u)
    BY <1>1, <1>4, <1>11 DEF InBlock
  <2>2. Trimmed(l) # <<Marker>>
    <3>1. Len(Append(Append(y, a), b)) >= 2 /\ Len(<<Marker>>) = 1
      OBVIOUS
    <3> QED
      BY <1>6, <3>1
  <2>3. /\ q \in ScofState /\ SameFiles(u, q)
        /\ q.currentMode = u.currentMode /\ q.currentFile = u.currentFile
        /\ q.commandBuffer = u.commandBuffer /\ q.extractedInstallCommands = u.extractedInstallCommands
    BY <1>4, <1>5, <1>8, <2>1, <2>2, Collects
  <2>4. Accounted(q, s)
    BY <1>1, <1>2, <1>4, <2>3, StillAccounted DEF SameFiles
  <2>5. InBlock(q) /\ q.currentMode # "idle"
    BY <1>4, <1>11, <2>3 DEF InBlock, AtLine, Sound
  <2>6. Sound(q, s)
    <3>1. q.partialLineBuffer = <<>>
      BY <1>4, <2>3 DEF SameFiles
    <3> QED
      BY <1>1, <1>2, <1>3, <1>4, <1>11, <2>3, <2>4, <2>5, <3>1, StaysSound
  <2>7. Astray(q, s)
    <3>1. q.partialLineBuffer = <<>> /\ Names(<<>>) = {}
      BY <1>4, <2>3, NamesFacts DEF SameFiles
    <3> QED
      BY <1>1, <1>2, <1>4, <1>11, <2>1, <2>3, <2>5, <3>1 DEF Astray
  <2> QED
    BY <1>2, <2>1, <2>6, <2>7 DEF AtLine
<1>12. CASE ~InBlock(p)
  <2>1. ~InBlock(u) /\ ~IsCommand(u.commandBuffer)
    BY <1>1, <1>4, <1>12 DEF InBlock
  <2>2. /\ q \in ScofState /\ SameFiles(u, q) /\ ~IsCommand(q.commandBuffer)
        /\ q.extractedInstallCommands = u.extractedInstallCommands \cup u.betweenFilesBuffer
        /\ q.currentMode = TryParseCommand(t).type /\ q.currentFile = TryParseCommand(t).filePath
        /\ q.contentBuffer = <<>> /\ q.commandBuffer = <<>>
    BY <1>4, <1>5, <1>7, <1>8, <1>9, <2>1, Between DEF t
  <2>3. q.currentMode \in {"file_creation", "diff_patch"} /\ q.currentFile \in Names(t) \cup {Garbled}
    BY <1>9, <2>2, ParsedCommand
  <2>4. InBlock(q) /\ q.currentMode # "idle"
    <3>1. Names(t) \subseteq File
      BY <1>9, NamesFacts
    <3> QED
      BY <1>3, <2>3, <3>1 DEF InBlock
  <2>5. q.partialLineBuffer = <<>>
    BY <1>4, <2>2 DEF SameFiles
  <2>6. Accounted(q, s)
    BY <1>1, <1>2, <1>4, <2>2, StillAccounted DEF SameFiles
  <2>7. Sound(q, s)
    BY <1>2, <1>3, <2>2, <2>4, <2>5, <2>6, StaysSound
  <2>8. CASE r.lostSync
    <3>1. Names(x) \subseteq r.spoilt /\ r.installs = {}
      BY <1>1, <2>8 DEF Astray, x
    <3>2. Names(<<>>) = {}
      BY NamesFacts
    <3>3. Astray(q, s)
      BY <1>2, <1>10, <2>2, <2>3, <2>4, <2>5, <2>8, <3>1, <3>2 DEF Astray
    <3> QED
      BY <1>2, <2>7, <2>8, <3>3 DEF AtLine
  <2>9. CASE ~r.lostSync
    <3>1. InStep(p, r) /\ IsBlank(x)
      BY <1>1, <2>9 DEF InStep, x
    <3>2. t = <<a, b>>
      BY <1>6, <3>1, Literals DEF t
    <3>3. q.currentMode = m /\ q.currentFile = f
      BY <2>2, <3>2
    <3>4. r.installs \subseteq q.extractedInstallCommands
      BY <1>4, <2>2, <3>1 DEF InStep, SameContents
    <3>5. Len(s.contents) = 0 /\ q.contentBuffer = s.contents
      BY <1>2, <2>2
    <3>6. SameContents(q, s)
      BY <1>2, <2>5, <3>4, <3>5 DEF SameContents
    <3>7. InStep(q, s)
      BY <1>2, <2>5, <3>3, <3>6, TrimmedMarker DEF InStep
    <3> QED
      BY <1>2, <2>7, <2>9, <3>7 DEF AtLine
  <2> QED
    BY <1>1, <2>8, <2>9
<1> QED
  BY <1>11, <1>12

\* The first half of a command that goes on in the next line is kept, after what
\* was kept before.
LEMMA FirstHalfLine ==
  ASSUME NEW p, NEW r, AtLine(p, r), r.mode = "idle", NEW f \in File,
         NEW q, q = ProcessLine(Cleared(p), Append(p.partialLineBuffer, Cat(f)))
  PROVE  HalfWay(q, r, f)
<1> DEFINE x == p.partialLineBuffer
<1> DEFINE c == p.commandBuffer
<1> DEFINE l == Append(x, Cat(f))
<1> DEFINE u == Cleared(p)
<1>1. /\ p \in ScofState /\ r \in Script /\ r.lostSync \in BOOLEAN /\ x \in Seq(Token)
      /\ ~IsCommand(c) /\ c \in Seq(Token) /\ Accounted(p, r)
      /\ (InBlock(p) => c = <<>>)
      /\ ~r.lostSync => InStep(p, r)
      /\ r.lostSync => Astray(p, r)
      /\ ~r.lostSync /\ r.mode = "idle" => ~InBlock(p)
  BY InStepFacts
<1> HIDE DEF x, l, u, c
<1>0. WithPartial(p, u, <<>>)
  BY <1>1, ClearedFacts, Zenon DEF u
<1>2. Cat(f) \in Token /\ Cat(f) # Pad /\ Cat(f) # Marker /\ Cat(f) # Here /\ Cat(f) # CatHere /\ Cat(f).file = f /\ Cat(f).kind # "patch"
  BY TokenFacts
<1>3. f # NoFile /\ Garbled # NoFile /\ NoFile \notin File /\ r.file = NoFile
  BY StreamAssumption DEF AtLine, Sound
<1>4. /\ u \in ScofState /\ u.partialLineBuffer = <<>>
      /\ u.currentMode = p.currentMode /\ u.currentFile = p.currentFile
      /\ u.contentBuffer = p.contentBuffer /\ u.commandBuffer = c
      /\ u.betweenFilesBuffer = p.betweenFilesBuffer
      /\ u.extractedInstallCommands = p.extractedInstallCommands
      /\ u.completedFiles = p.completedFiles /\ u.fixedFilePromises = p.fixedFilePromises
  BY <1>0 DEF WithPartial, c
<1>5. l \in Seq(Token)
  BY <1>1, <1>2 DEF l
<1>6. PICK y \in Seq(Token) : /\ Trimmed(l) = Append(y, Cat(f)) /\ Range(y) \subseteq Range(x)
                              /\ IsBlank(x) => y = <<>>
  <2>1. x \in Seq(Token) /\ Cat(f) \in Token /\ Cat(f) # Pad
    BY <1>1, <1>2
  <2> QED
    BY <2>1, TrimmedEnd, Zenon DEF l
<1>7. ~IsBlank(l)
  BY <1>1, <1>2, TrimmedEnd, Zenon DEF l
<1>8. q = ProcessLine(u, l)
  BY DEF u, l, x
<1> DEFINE t == Trimmed(l)
<1>9. t \in Seq(Token) /\ t # <<>> /\ Last(t) = Cat(f)
  BY <1>2, <1>6, FrontOfAppend
<1>10. Names(t) \subseteq Names(x) \cup {f} /\ Cat(f) \in Range(t)
  <2>1. Names(Append(y, Cat(f))) = Names(y) \cup ({Cat(f).file} \ {NoFile})
    BY <1>2, NamesFacts
  <2>2. Names(y) \subseteq Names(x)
    BY <1>1, <1>6, NamesFacts
  <2>3. Cat(f) \in Range(t)
    <3>1. Len(t) \in DOMAIN t
      BY <1>9
    <3> QED
      BY <1>9, <3>1 DEF Last, Range
  <2> QED
    BY <1>2, <1>6, <2>1, <2>2, <2>3
<1> HIDE DEF t
<1>11. CASE InBlock(p)
  <2>1. r.lostSync /\ Astray(p, r) /\ InBlock(u)
    BY <1>1, <1>4, <1>11 DEF InBlock
  <2>2. Trimmed(l) # <<Marker>>
    <3>1. Last(<<Marker>>) = Marker
      BY DEF Last
    <3> QED
      BY <1>2, <1>9, <3>1 DEF t
  <2>3. /\ q \in ScofState /\ SameFiles(u, q)
        /\ q.currentMode = u.currentMode /\ q.currentFile = u.currentFile
        /\ q.commandBuffer = u.commandBuffer /\ q.extractedInstallCommands = u.extractedInstallCommands
    BY <1>4, <1>5, <1>8, <2>1, <2>2, Collects
  <2>4. Accounted(q, r)
    BY <1>1, <1>4, <2>3, StillAccounted DEF SameFiles
  <2>5. InBlock(q) /\ q.currentMode # "idle"
    BY <1>4, <1>11, <2>3 DEF InBlock, AtLine, Sound
  <2>6. q.partialLineBuffer = <<>>
    BY <1>4, <2>3 DEF SameFiles
  <2>7. Sound(q, r)
    BY <1>1, <1>3, <1>4, <1>11, <2>3, <2>4, <2>5, <2>6, StaysSound
  <2>8. q.currentFile \in r.spoilt \cup {NoFile, Garbled, f} /\ r.installs = {} /\ Names(q.commandBuffer) \subseteq r.spoilt \cup {f}
    BY <1>4, <2>1, <2>3 DEF Astray, c
  <2> QED
    BY <2>1, <2>5, <2>6, <2>7, <2>8 DEF HalfWay
<1>12. CASE ~InBlock(p)
  <2>1. ~InBlock(u) /\ ~IsCommand(u.commandBuffer) /\ u.currentMode = "idle"
    BY <1>1, <1>4, <1>12 DEF InBlock, AtLine, Sound
  <2> DEFINE more == c \o t
  <2>2. more \in Seq(Token) /\ Names(more) = Names(c) \cup Names(t) /\ more # <<>> /\ Last(more) = Cat(f)
    <3>1. more \in Seq(Token) /\ Len(more) = Len(c) + Len(t) /\ Len(t) \in Nat \ {0} /\ Len(c) \in Nat
      BY <1>1, <1>9
    <3>2. more[Len(more)] = t[Len(t)]
      BY <1>1, <1>9, <3>1
    <3>3. Names(more) = Names(c) \cup Names(t)
      BY <1>1, <1>9, NamesFacts
    <3> HIDE DEF more
    <3>4. more # <<>>
      BY <3>1
    <3> QED
      BY <1>9, <3>1, <3>2, <3>3, <3>4 DEF Last
  <2>3. /\ q \in ScofState /\ SameFiles(u, q) /\ ~IsCommand(q.commandBuffer)
        /\ q.extractedInstallCommands = u.extractedInstallCommands \cup u.betweenFilesBuffer
        /\ IsCommand(t) =>
             /\ q.currentMode = TryParseCommand(t).type /\ q.currentFile = TryParseCommand(t).filePath
             /\ q.commandBuffer = <<>>
        /\ ~IsCommand(t) /\ c # <<>> /\ IsCommand(more) =>
             /\ q.currentMode = TryParseCommand(more).type /\ q.currentFile = TryParseCommand(more).filePath
             /\ q.commandBuffer = <<>>
        /\ ~IsCommand(t) /\ ~(c # <<>> /\ IsCommand(more)) =>
             /\ q.currentMode = u.currentMode /\ q.currentFile = NoFile
             /\ q.commandBuffer = IF c # <<>> THEN more ELSE IF Heads \cap Range(t) # {} THEN t ELSE <<>>
    BY <1>4, <1>5, <1>7, <1>8, <2>1, Between DEF t
  <2>4. q.partialLineBuffer = <<>>
    BY <1>4, <2>3 DEF SameFiles
  <2>5. Accounted(q, r)
    BY <1>1, <1>4, <2>3, StillAccounted DEF SameFiles
  <2> HIDE DEF more
  <2>6. Heads \cap Range(t) # {}
    BY <1>10 DEF Heads
  <2>7. Names(t) \subseteq File /\ Names(more) \subseteq File /\ Names(<<>>) = {}
    BY <1>9, <2>2, NamesFacts
  <2>8. ASSUME NEW k \in {t, more}, IsCommand(k), q.currentMode = TryParseCommand(k).type,
               q.currentFile = TryParseCommand(k).filePath, q.commandBuffer = <<>>
        PROVE  q.currentMode # "idle" /\ InBlock(q) /\ q.currentFile \in Names(c) \cup Names(t) \cup {Garbled}
    <3>1. TryParseCommand(k).type \in {"file_creation", "diff_patch"} /\ TryParseCommand(k).filePath \in Names(k) \cup {Garbled}
      BY <1>9, <2>2, <2>8, ParsedCommand
    <3> QED
      BY <1>3, <2>2, <2>7, <2>8, <3>1 DEF InBlock
  <2>9. \/ /\ q.currentMode # "idle" /\ InBlock(q) /\ q.currentFile \in Names(c) \cup Names(t) \cup {Garbled}
           /\ q.commandBuffer = <<>> /\ (IsCommand(t) \/ IsCommand(more))
        \/ /\ q.currentMode = "idle" /\ ~InBlock(q) /\ q.currentFile = NoFile
           /\ q.commandBuffer # <<>> /\ Last(q.commandBuffer) = Cat(f)
           /\ Names(q.commandBuffer) \subseteq Names(c) \cup Names(t)
    <3>1. CASE IsCommand(t)
      BY <2>3, <2>8, <3>1
    <3>2. CASE ~IsCommand(t) /\ c # <<>> /\ IsCommand(more)
      BY <2>3, <2>8, <3>2
    <3>3. CASE ~IsCommand(t) /\ ~(c # <<>> /\ IsCommand(more))
      <4>1. q.currentMode = "idle" /\ q.currentFile = NoFile /\ q.commandBuffer \in {t, more}
        BY <2>1, <2>3, <2>6, <3>3
      <4> QED
        BY <1>9, <2>2, <4>1 DEF InBlock
    <3> QED
      BY <3>1, <3>2, <3>3
  <2>10. Sound(q, r)
    BY <1>1, <1>3, <2>3, <2>4, <2>5, <2>9, StaysSound
  <2>11. CASE r.lostSync
    <3>1. Names(c) \cup Names(t) \subseteq r.spoilt \cup {f} /\ r.installs = {}
      BY <1>1, <1>10, <2>11 DEF Astray, x, c
    <3> QED
      BY <2>4, <2>7, <2>9, <2>10, <2>11, <3>1 DEF HalfWay
  <2>12. CASE ~r.lostSync
    <3>1. IsBlank(x) /\ r.installs \subseteq p.betweenFilesBuffer \cup p.extractedInstallCommands
      BY <1>1, <2>12 DEF InStep, SameContents, x
    <3>2. t = <<Cat(f)>>
      BY <1>2, <1>6, <3>1, Literals DEF t
    <3>3. ~IsCommand(t)
      BY <1>2, <3>2, ShortLines
    <3>4. more = Append(c, Cat(f))
      BY <1>1, <1>2, <3>2, AppendIsConcat DEF more
    <3>5. ~IsCommand(more)
      BY <1>1, <1>2, <3>4, NoNewCommand
    <3>6. r.installs \subseteq q.extractedInstallCommands
      BY <1>4, <2>3, <3>1
    <3> QED
      BY <2>4, <2>9, <2>10, <2>12, <3>3, <3>5, <3>6 DEF HalfWay
  <2> QED
    BY <1>1, <2>11, <2>12
<1> QED
  BY <1>11, <1>12

\* The second half opens the file of the first.
LEMMA SecondHalfLine ==
  ASSUME NEW p, NEW r, NEW f \in File, HalfWay(p, r, f),
         NEW q, q = ProcessLine(Cleared(p), Append(p.partialLineBuffer, Here)),
         NEW s, s = ReadOpening(r, "file_creation", f)
  PROVE  AtLine(q, s)
<1> DEFINE c == p.commandBuffer
<1> DEFINE u == Cleared(p)
<1>1. /\ p \in ScofState /\ r \in Script /\ c \in Seq(Token) /\ Accounted(p, r) /\ ~IsCommand(c)
      /\ r.lostSync \in BOOLEAN /\ (InBlock(p) <=> p.currentMode # "idle") /\ r.mode = "idle" /\ p.partialLineBuffer = <<>>
      /\ ~InBlock(p) => c # <<>> /\ Last(c) = Cat(f)
      /\ InBlock(p) => c = <<>>
  BY DEF HalfWay, Sound, ScofState, Script
<1>2. r.lostSync => /\ p.currentFile \in r.spoilt \cup {NoFile, Garbled, f} /\ r.installs = {}
                    /\ Names(c) \subseteq r.spoilt \cup {f}
  BY DEF HalfWay
<1>3. ~r.lostSync => /\ ~InBlock(p)
                     /\ r.installs \subseteq p.betweenFilesBuffer \cup p.extractedInstallCommands
  BY <1>1 DEF HalfWay
<1> HIDE DEF u, c
<1>4. AfterOpening(r, s, "file_creation", f) /\ WithPartial(p, u, <<>>)
  <2>1. "file_creation" \in {"file_creation", "diff_patch"}
    OBVIOUS
  <2> QED
    BY <1>1, <2>1, ReadOpeningFacts, ClearedFacts, Zenon DEF u
<1>5. /\ s \in Script /\ s.mode = "file_creation" /\ s.file = f /\ s.contents = <<>> /\ s.files = r.files
      /\ s.written = r.written /\ s.installs = r.installs /\ s.due = r.due
      /\ s.lostSync = r.lostSync /\ s.repatched = r.repatched
      /\ s.spoilt = IF r.lostSync THEN r.spoilt \cup {f} ELSE r.spoilt
  BY <1>4 DEF AfterOpening
<1>6. /\ u \in ScofState /\ u.partialLineBuffer = <<>>
      /\ u.currentMode = p.currentMode /\ u.currentFile = p.currentFile
      /\ u.contentBuffer = p.contentBuffer /\ u.commandBuffer = c
      /\ u.betweenFilesBuffer = p.betweenFilesBuffer
      /\ u.extractedInstallCommands = p.extractedInstallCommands
      /\ u.completedFiles = p.completedFiles /\ u.fixedFilePromises = p.fixedFilePromises
  BY <1>4 DEF WithPartial, c
<1>7. f # NoFile /\ Garbled # NoFile /\ NoFile \notin File
  BY StreamAssumption
<1>8. Here \in Token /\ Here # Pad /\ Here # Marker /\ <<Here>> \in Seq(Token) /\ Append(<<>>, Here) = <<Here>>
  BY TokenFacts, Literals
<1>9. q = ProcessLine(u, <<Here>>)
  BY <1>1, <1>8 DEF u
<1>10. ~IsBlank(<<Here>>) /\ Trimmed(<<Here>>) = <<Here>>
  <2>1. <<>> \in Seq(Token)
    OBVIOUS
  <2>2. ~IsBlank(Append(<<>>, Here)) /\ \E y \in Seq(Token) : Trimmed(Append(<<>>, Here)) = Append(y, Here) /\ (IsBlank(<<>>) => y = <<>>)
    BY <1>8, <2>1, TrimmedEnd
  <2> QED
    BY <1>8, <2>2, TrimmedMarker
<1>11. Names(<<>>) = {}
  BY NamesFacts
<1>12. CASE InBlock(p)
  <2>1. r.lostSync /\ InBlock(u)
    BY <1>1, <1>3, <1>6, <1>12 DEF InBlock
  <2>2. Trimmed(<<Here>>) # <<Marker>>
    BY <1>8, <1>10
  <2>3. /\ q \in ScofState /\ SameFiles(u, q)
        /\ q.currentMode = u.currentMode /\ q.currentFile = u.currentFile
        /\ q.commandBuffer = u.commandBuffer /\ q.extractedInstallCommands = u.extractedInstallCommands
    BY <1>6, <1>8, <1>9, <2>1, <2>2, Collects
  <2>4. Accounted(q, s)
    BY <1>1, <1>5, <1>6, <2>3, StillAccounted DEF SameFiles
  <2>5. InBlock(q) /\ q.currentMode # "idle" /\ q.partialLineBuffer = <<>>
    BY <1>1, <1>6, <1>12, <2>3 DEF InBlock, SameFiles
  <2>6. Sound(q, s)
    BY <1>1, <1>5, <1>6, <1>7, <1>12, <2>3, <2>4, <2>5, StaysSound
  <2>7. Astray(q, s)
    BY <1>1, <1>2, <1>5, <1>6, <1>11, <1>12, <2>1, <2>3, <2>5 DEF Astray, c
  <2> QED
    BY <1>5, <2>1, <2>6, <2>7 DEF AtLine
<1>13. CASE ~InBlock(p)
  <2>1. ~InBlock(u) /\ ~IsCommand(u.commandBuffer) /\ ~IsCommand(<<Here>>)
    BY <1>1, <1>6, <1>8, <1>13, ShortLines DEF InBlock
  <2>2. IsCommand(c \o <<Here>>) /\ TryParseCommand(c \o <<Here>>) = [type |-> "file_creation", filePath |-> f]
    BY <1>1, <1>13, SecondHalf
  <2>3. /\ q \in ScofState /\ SameFiles(u, q) /\ ~IsCommand(q.commandBuffer)
        /\ q.extractedInstallCommands = u.extractedInstallCommands \cup u.betweenFilesBuffer
        /\ q.currentMode = TryParseCommand(c \o <<Here>>).type
        /\ q.currentFile = TryParseCommand(c \o <<Here>>).filePath
        /\ q.contentBuffer = <<>> /\ q.commandBuffer = <<>>
    <3> DEFINE t == <<Here>>
    <3>1. /\ u \in ScofState /\ ~InBlock(u) /\ ~IsCommand(u.commandBuffer) /\ t \in Seq(Token) /\ ~IsBlank(t)
          /\ q = ProcessLine(u, t) /\ t = Trimmed(t)
      BY <1>6, <1>8, <1>9, <1>10, <2>1
    <3>2. /\ ~IsCommand(t) /\ u.commandBuffer # <<>> /\ IsCommand(u.commandBuffer \o t) /\ u.commandBuffer = c
      BY <1>1, <1>6, <1>13, <2>1, <2>2
    <3> HIDE DEF t
    <3>3. /\ q \in ScofState /\ SameFiles(u, q) /\ ~IsCommand(q.commandBuffer)
          /\ q.extractedInstallCommands = u.extractedInstallCommands \cup u.betweenFilesBuffer
          /\ ~IsCommand(t) /\ u.commandBuffer # <<>> /\ IsCommand(u.commandBuffer \o t) =>
              /\ q.currentMode = TryParseCommand(u.commandBuffer \o t).type
              /\ q.currentFile = TryParseCommand(u.commandBuffer \o t).filePath
              /\ q.contentBuffer = <<>> /\ q.commandBuffer = <<>>
      BY <3>1, Between
    <3> QED
      BY <3>2, <3>3, Zenon DEF t
  <2>4. q.currentMode = "file_creation" /\ q.currentFile = f /\ InBlock(q) /\ q.partialLineBuffer = <<>>
    BY <1>6, <1>7, <2>2, <2>3 DEF InBlock, SameFiles
  <2>5. Accounted(q, s)
    BY <1>1, <1>5, <1>6, <2>3, StillAccounted DEF SameFiles
  <2>6. Sound(q, s)
    BY <1>5, <1>7, <2>3, <2>4, <2>5, StaysSound
  <2>7. CASE r.lostSync
    <3>1. Astray(q, s)
      BY <1>2, <1>5, <1>11, <2>3, <2>4, <2>7 DEF Astray
    <3> QED
      BY <1>5, <2>6, <2>7, <3>1 DEF AtLine
  <2>8. CASE ~r.lostSync
    <3>1. r.installs \subseteq q.extractedInstallCommands
      BY <1>3, <1>6, <2>3, <2>8
    <3>2. Len(s.contents) = 0 /\ q.contentBuffer = s.contents
      BY <1>5, <2>3
    <3>3. SameContents(q, s)
      BY <1>5, <2>4, <3>1, <3>2 DEF SameContents
    <3>4. InStep(q, s)
      BY <1>5, <2>4, <3>3, TrimmedMarker DEF InStep
    <3> QED
      BY <1>5, <2>6, <2>8, <3>4 DEF AtLine
  <2> QED
    BY <1>1, <2>7, <2>8
<1> QED
  BY <1>12, <1>13

\* An install command is read: s instead of r.
AfterInstall(r, s) ==
    /\ s \in Script /\ s.mode = r.mode /\ s.file = r.file /\ s.files = r.files
    /\ s.written = r.written /\ s.due = r.due /\ s.lostSync = r.lostSync
    /\ s.repatched = r.repatched /\ s.spoilt = r.spoilt
    /\ s.installs = IF r.lostSync THEN r.installs ELSE {InstallCommand}

\* That is what ReadLine does.
LEMMA ReadInstallFacts ==
  ASSUME NEW r \in Script, NEW s, s = [r EXCEPT !.installs = IF r.lostSync THEN @ ELSE {InstallCommand}]
  PROVE  AfterInstall(r, s)
  BY DEF Script, AfterInstall

\* An install command is kept with the text between the blocks.
LEMMA InstallLine ==
  ASSUME NEW p, NEW r, AtLine(p, r), r.mode = "idle",
         NEW q, q = ProcessLine(Cleared(p), Append(p.partialLineBuffer, InstallCommand)),
         NEW s, AfterInstall(r, s)
  PROVE  AtLine(q, s) /\ s \in Script /\ s.mode = "idle" /\ Accounted(p, s)
<1> DEFINE x == p.partialLineBuffer
<1> DEFINE c == p.commandBuffer
<1> DEFINE l == Append(x, InstallCommand)
<1> DEFINE u == Cleared(p)
<1>1. /\ p \in ScofState /\ r \in Script /\ r.lostSync \in BOOLEAN /\ x \in Seq(Token)
      /\ ~IsCommand(c) /\ c \in Seq(Token) /\ Accounted(p, r)
      /\ (InBlock(p) => c = <<>>)
      /\ ~r.lostSync => InStep(p, r)
      /\ r.lostSync => Astray(p, r)
      /\ ~r.lostSync /\ r.mode = "idle" => ~InBlock(p)
  BY InStepFacts
<1>2. /\ InstallCommand \in Token /\ InstallCommand # Pad /\ InstallCommand # Marker
      /\ InstallCommand # Here /\ InstallCommand # CatHere
      /\ InstallCommand.file = NoFile /\ InstallCommand.kind # "patch"
  BY TokenFacts
<1>3. Garbled # NoFile /\ NoFile \notin File /\ r.file = NoFile
  BY StreamAssumption DEF AtLine, Sound
<1>4. /\ s \in Script /\ s.mode = "idle" /\ s.file = NoFile /\ s.files = r.files
      /\ s.written = r.written /\ s.due = r.due /\ s.lostSync = r.lostSync
      /\ s.repatched = r.repatched /\ s.spoilt = r.spoilt
      /\ ~r.lostSync => s.installs = {InstallCommand}
      /\ r.lostSync => s.installs = r.installs
  BY <1>1, <1>3 DEF AfterInstall
<1> HIDE DEF x, l, u, c
<1>0. WithPartial(p, u, <<>>)
  BY <1>1, ClearedFacts, Zenon DEF u
<1>5. /\ u \in ScofState /\ u.partialLineBuffer = <<>>
      /\ u.currentMode = p.currentMode /\ u.currentFile = p.currentFile
      /\ u.contentBuffer = p.contentBuffer /\ u.commandBuffer = c
      /\ u.betweenFilesBuffer = p.betweenFilesBuffer
      /\ u.extractedInstallCommands = p.extractedInstallCommands
      /\ u.completedFiles = p.completedFiles /\ u.fixedFilePromises = p.fixedFilePromises
  BY <1>0 DEF WithPartial, c
<1>6. Accounted(p, s)
  BY <1>1, <1>4, StillAccounted
<1>7. l \in Seq(Token)
  BY <1>1, <1>2 DEF l
<1>8. /\ ~IsBlank(l)
      /\ \E y \in Seq(Token) : /\ Trimmed(l) = Append(y, InstallCommand) /\ Range(y) \subseteq Range(x)
                               /\ IsBlank(x) => y = <<>>
  <2>1. x \in Seq(Token) /\ InstallCommand \in Token /\ InstallCommand # Pad
    BY <1>1, <1>2
  <2> QED
    BY <2>1, TrimmedEnd, Zenon DEF l
<1>9. PICK y \in Seq(Token) : /\ Trimmed(l) = Append(y, InstallCommand) /\ Range(y) \subseteq Range(x)
                              /\ IsBlank(x) => y = <<>>
  BY <1>8
<1>10. q = ProcessLine(u, l)
  BY DEF u, l, x
<1> DEFINE t == Trimmed(l)
<1>11. t \in Seq(Token) /\ t # <<>> /\ Last(t) = InstallCommand
  BY <1>2, <1>9, FrontOfAppend
<1>12. Names(t) \subseteq Names(x)
  <2>1. Names(Append(y, InstallCommand)) = Names(y) \cup ({InstallCommand.file} \ {NoFile})
    BY <1>2, NamesFacts
  <2>2. Names(y) \subseteq Names(x)
    BY <1>1, <1>9, NamesFacts
  <2> QED
    BY <1>2, <1>9, <2>1, <2>2
<1> HIDE DEF t
<1>13. CASE InBlock(p)
  <2>1. r.lostSync /\ Astray(p, r) /\ InBlock(u)
    BY <1>1, <1>5, <1>13 DEF InBlock
  <2>2. Trimmed(l) # <<Marker>>
    <3>1. Last(<<Marker>>) = Marker
      BY DEF Last
    <3> QED
      BY <1>2, <1>11, <3>1 DEF t
  <2>3. /\ q \in ScofState /\ SameFiles(u, q)
        /\ q.currentMode = u.currentMode /\ q.currentFile = u.currentFile
        /\ q.commandBuffer = u.commandBuffer /\ q.extractedInstallCommands = u.extractedInstallCommands
    BY <1>5, <1>7, <1>10, <2>1, <2>2, Collects
  <2>4. Accounted(q, s)
    BY <1>1, <1>4, <1>5, <2>3, StillAccounted DEF SameFiles
  <2>5. InBlock(q) /\ q.currentMode # "idle"
    BY <1>5, <1>13, <2>3 DEF InBlock, AtLine, Sound
  <2>6. q.partialLineBuffer = <<>> /\ Names(<<>>) = {}
    BY <1>5, <2>3, NamesFacts DEF SameFiles
  <2>7. Sound(q, s)
    BY <1>1, <1>4, <1>5, <1>13, <2>3, <2>4, <2>5, <2>6, StaysSound
  <2>8. Astray(q, s)
    BY <1>4, <1>5, <2>1, <2>3, <2>6 DEF Astray, c
  <2> QED
    BY <1>4, <1>6, <2>1, <2>7, <2>8 DEF AtLine
<1>14. CASE ~InBlock(p)
  <2>1. ~InBlock(u) /\ ~IsCommand(u.commandBuffer) /\ u.currentMode = "idle"
    BY <1>1, <1>5, <1>14 DEF InBlock, AtLine, Sound
  <2> DEFINE more == c \o t
  <2>2. more \in Seq(Token) /\ Names(more) = Names(c) \cup Names(t)
    BY <1>1, <1>11, NamesFacts
  <2>3. /\ q \in ScofState /\ SameFiles(u, q) /\ ~IsCommand(q.commandBuffer)
        /\ q.extractedInstallCommands = u.extractedInstallCommands \cup u.betweenFilesBuffer
        /\ ~IsCommand(t) /\ t[1] = InstallCommand => q.betweenFilesBuffer = {InstallCommand}
        /\ IsCommand(t) =>
             /\ q.currentMode = TryParseCommand(t).type /\ q.currentFile = TryParseCommand(t).filePath
             /\ q.commandBuffer = <<>>
        /\ ~IsCommand(t) /\ c # <<>> /\ IsCommand(more) =>
             /\ q.currentMode = TryParseCommand(more).type /\ q.currentFile = TryParseCommand(more).filePath
             /\ q.commandBuffer = <<>>
        /\ ~IsCommand(t) /\ ~(c # <<>> /\ IsCommand(more)) =>
             /\ q.currentMode = u.currentMode /\ q.currentFile = NoFile
             /\ q.commandBuffer = IF c # <<>> THEN more ELSE IF Heads \cap Range(t) # {} THEN t ELSE <<>>
    <3>1. /\ u \in ScofState /\ ~InBlock(u) /\ ~IsCommand(u.commandBuffer) /\ l \in Seq(Token) /\ ~IsBlank(l)
          /\ q = ProcessLine(u, l) /\ t = Trimmed(l) /\ u.commandBuffer = c
      BY <1>5, <1>7, <1>8, <1>10, <2>1 DEF t
    <3> QED
      BY <3>1, Between
  <2>4. q.partialLineBuffer = <<>>
    BY <1>5, <2>3 DEF SameFiles
  <2>5. Accounted(q, s)
    BY <1>1, <1>4, <1>5, <2>3, StillAccounted DEF SameFiles
  <2> HIDE DEF more
  <2>6. Names(t) \subseteq File /\ Names(more) \subseteq File /\ Names(<<>>) = {}
    BY <1>11, <2>2, NamesFacts
  <2>7. ASSUME NEW k \in {t, more}, IsCommand(k), q.currentMode = TryParseCommand(k).type,
               q.currentFile = TryParseCommand(k).filePath, q.commandBuffer = <<>>
        PROVE  q.currentMode # "idle" /\ InBlock(q) /\ q.currentFile \in Names(c) \cup Names(t) \cup {Garbled}
    <3>1. TryParseCommand(k).type \in {"file_creation", "diff_patch"} /\ TryParseCommand(k).filePath \in Names(k) \cup {Garbled}
      BY <1>11, <2>2, <2>7, ParsedCommand
    <3> QED
      BY <1>3, <2>2, <2>6, <2>7, <3>1 DEF InBlock
  <2>8. \/ /\ q.currentMode # "idle" /\ InBlock(q) /\ q.currentFile \in Names(c) \cup Names(t) \cup {Garbled}
           /\ q.commandBuffer = <<>> /\ (IsCommand(t) \/ IsCommand(more))
        \/ /\ q.currentMode = "idle" /\ ~InBlock(q) /\ q.currentFile = NoFile
           /\ q.commandBuffer \in {t, more, <<>>}
    <3>1. CASE IsCommand(t)
      BY <2>3, <2>7, <3>1
    <3>2. CASE ~IsCommand(t) /\ c # <<>> /\ IsCommand(more)
      BY <2>3, <2>7, <3>2
    <3>3. CASE ~IsCommand(t) /\ ~(c # <<>> /\ IsCommand(more))
      BY <2>1, <2>3, <3>3 DEF InBlock
    <3> QED
      BY <3>1, <3>2, <3>3
  <2>9. Sound(q, s)
    BY <1>4, <2>3, <2>4, <2>5, <2>8, StaysSound
  <2>10. CASE r.lostSync
    <3>1. Names(c) \cup Names(t) \subseteq r.spoilt
      BY <1>1, <1>12, <2>10 DEF Astray, x, c
    <3>0. s.installs = {}
      BY <1>1, <1>4, <2>10 DEF Astray
    <3>2. Names(q.commandBuffer) \subseteq r.spoilt
      BY <2>2, <2>6, <2>8, <3>1
    <3>3. Astray(q, s)
      BY <1>4, <2>4, <2>6, <2>8, <3>0, <3>1, <3>2 DEF Astray
    <3> QED
      BY <1>4, <1>6, <2>9, <2>10, <3>3 DEF AtLine
  <2>11. CASE ~r.lostSync
    <3>1. IsBlank(x)
      BY <1>1, <2>11 DEF InStep, x
    <3>2. t = <<InstallCommand>> /\ t[1] = InstallCommand
      BY <1>2, <1>9, <3>1, Literals DEF t
    <3>3. ~IsCommand(t)
      BY <1>2, <3>2, ShortLines
    <3>4. more = Append(c, InstallCommand)
      BY <1>1, <1>2, <3>2, AppendIsConcat DEF more
    <3>5. ~IsCommand(more)
      BY <1>1, <1>2, <3>4, NoNewCommand
    <3>6. q.currentMode = "idle" /\ q.currentFile = NoFile /\ q.betweenFilesBuffer = {InstallCommand}
      BY <2>3, <2>8, <3>2, <3>3, <3>5
    <3>7. SameContents(q, s)
      BY <1>4, <2>11, <3>6 DEF SameContents
    <3>8. InStep(q, s)
      BY <1>4, <2>4, <3>6, <3>7, TrimmedMarker DEF InStep
    <3> QED
      BY <1>4, <1>6, <2>9, <2>11, <3>8 DEF AtLine
  <2> QED
    BY <1>1, <2>10, <2>11
<1> QED
  BY <1>13, <1>14

\* A line of a block is read: s instead of r.
AfterText(r, s, l) ==
    /\ s \in Script /\ s.mode = r.mode /\ s.file = r.file /\ s.files = r.files
    /\ s.contents = Append(r.contents, l) /\ s.installs = r.installs
    /\ s.written = r.written /\ s.due = r.due /\ s.lostSync = r.lostSync
    /\ s.repatched = r.repatched /\ s.spoilt = r.spoilt

\* That is what ReadLine does.
LEMMA ReadTextFacts ==
  ASSUME NEW r \in Script, NEW l \in Seq(Token), NEW s, s = [r EXCEPT !.contents = Append(@, l)]
  PROVE  AfterText(r, s, l)
<1>1. r.contents \in Seq(Seq(Token))
  BY DEF Script
<1>2. Append(r.contents, l) \in Seq(Seq(Token))
  BY <1>1
<1> QED
  BY <1>2 DEF Script, AfterText

\* Appending to a list that begins with a blank line.
LEMMA AppendAfterPad ==
  ASSUME NEW c \in Contents, NEW l \in Seq(Token)
  PROVE  /\ Append(<<<<Pad>>>> \o c, l) = <<<<Pad>>>> \o Append(c, l)
         /\ <<<<Pad>>>> \o c # <<>> /\ <<<<Pad>>>> \o <<>> = <<<<Pad>>>>
         /\ Append(<<>>, <<Pad>>) = <<<<Pad>>>>
<1> DEFINE T == Seq(Token)
<1>1. <<Pad>> \in T /\ c \in Seq(T) /\ l \in T
  BY TokenFacts DEF Contents
<1> DEFINE b == <<Pad>>
<1>2. b \in T
  BY <1>1
<1> HIDE DEF T, b
<1> DEFINE h == <<b>>
<1> DEFINE y == Append(h \o c, l)
<1> DEFINE z == h \o Append(c, l)
<1>3. h \in Seq(T) /\ Len(h) = 1
  BY <1>2
<1>4. h \o c \in Seq(T) /\ Len(h \o c) = 1 + Len(c) /\ Append(c, l) \in Seq(T) /\ Len(Append(c, l)) = Len(c) + 1 /\ Len(c) \in Nat
  BY <1>1, <1>3
<1>5. y \in Seq(T) /\ z \in Seq(T) /\ Len(y) = Len(c) + 2 /\ Len(z) = Len(c) + 2
  BY <1>1, <1>3, <1>4
<1>6. \A k \in 1 .. Len(y) : y[k] = z[k]
  <2>1. y[1] = b /\ z[1] = b
    BY <1>1, <1>2, <1>3, <1>4
  <2>2. ASSUME NEW k \in 2 .. Len(c) + 1 PROVE y[k] = c[k - 1] /\ z[k] = c[k - 1]
    BY <1>1, <1>2, <1>3, <1>4
  <2>3. y[Len(c) + 2] = l /\ z[Len(c) + 2] = l
    BY <1>1, <1>2, <1>3, <1>4
  <2>4. \A k \in 1 .. Len(y) : k = 1 \/ k \in 2 .. Len(c) + 1 \/ k = Len(c) + 2
    BY <1>4, <1>5
  <2> QED
    BY <2>1, <2>2, <2>3, <2>4
<1>7. y = z
  <2> HIDE DEF y, z
  <2> QED
    BY <1>5, <1>6, SeqEqual
<1>8. h \o c # <<>>
  BY <1>4
<1>9. h \o <<>> = h /\ Append(<<>>, b) = h
  BY <1>2, <1>3
<1> QED
  BY <1>7, <1>8, <1>9 DEF b

\* A line of text is collected, in step or not.
LEMMA TextLine ==
  ASSUME NEW p, NEW r, AtLine(p, r), NEW l,
         \/ l \in Said /\ r.mode = "file_creation"
         \/ l = <<Added>> /\ r.mode = "diff_patch",
         NEW q, q = ProcessLine(Cleared(p), l), NEW s, AfterText(r, s, l)
  PROVE  AtLine(q, s) /\ Accounted(p, s)
<1> DEFINE u == Cleared(p)
<1>1. /\ p \in ScofState /\ r \in Script /\ r.lostSync \in BOOLEAN /\ Accounted(p, r)
      /\ ~IsCommand(p.commandBuffer)
      /\ ~r.lostSync => InStep(p, r)
      /\ r.lostSync => Astray(p, r)
      /\ p.partialLineBuffer = <<>> /\ p.commandBuffer = <<>> /\ r.file \in File /\ r.mode # "idle"
  BY InStepFacts
<1>2. /\ s \in Script /\ s.mode = r.mode /\ s.file = r.file /\ s.files = r.files
      /\ s.contents = Append(r.contents, l) /\ s.installs = r.installs
      /\ s.written = r.written /\ s.due = r.due /\ s.lostSync = r.lostSync
      /\ s.repatched = r.repatched /\ s.spoilt = r.spoilt
  BY DEF AfterText
<1>3. l \in Seq(Token) /\ ~IsBlank(l) /\ Trimmed(l) # <<Marker>>
  <2>1. <<Added>> \in Seq(Token) /\ ~IsBlank(<<Added>>) /\ Trimmed(<<Added>>) # <<Marker>>
    BY TokenFacts, TrimmedMarker
  <2> QED
    BY <2>1, TrimmedSaid
<1>4. Accounted(p, s)
  BY <1>1, <1>2, StillAccounted
<1>out. CASE ~InBlock(p)
  <2>1. Range(l) \subseteq {Pad, Marker, Text, Added}
    BY DEF Range, Said
  <2>2. AtLine(q, s)
    BY <1>1, <1>2, <1>3, <1>out, <2>1, OutOfBlock
  <2> QED
    BY <1>4, <2>2
<1> HIDE DEF u
<1>0. WithPartial(p, u, <<>>)
  BY <1>1, ClearedFacts, Zenon DEF u
<1>5. /\ u \in ScofState /\ u.partialLineBuffer = <<>>
      /\ u.currentMode = p.currentMode /\ u.currentFile = p.currentFile
      /\ u.contentBuffer = p.contentBuffer /\ u.commandBuffer = p.commandBuffer
      /\ u.extractedInstallCommands = p.extractedInstallCommands
      /\ u.completedFiles = p.completedFiles /\ u.fixedFilePromises = p.fixedFilePromises
  BY <1>0 DEF WithPartial
<1> SUFFICES ASSUME InBlock(p) PROVE AtLine(q, s) /\ Accounted(p, s)
  BY <1>out
<1>6. /\ q \in ScofState /\ SameFiles(u, q)
      /\ q.currentMode = u.currentMode /\ q.currentFile = u.currentFile
      /\ q.commandBuffer = u.commandBuffer
      /\ q.extractedInstallCommands = u.extractedInstallCommands
      /\ q.contentBuffer = Append(u.contentBuffer, l)
  <2>1. InBlock(u) /\ q = ProcessLine(u, l)
    BY <1>1, <1>5 DEF InBlock, u
  <2>2. u \in ScofState /\ l \in Seq(Token) /\ Trimmed(l) # <<Marker>>
    BY <1>3, <1>5
  <2>3. /\ q \in ScofState /\ SameFiles(u, q)
        /\ q.currentMode = u.currentMode /\ q.currentFile = u.currentFile
        /\ q.commandBuffer = u.commandBuffer
        /\ q.extractedInstallCommands = u.extractedInstallCommands
        /\ q.contentBuffer = IF ~IsBlank(l) \/ (u.contentBuffer = <<>> /\ l # <<>>)
                             THEN Append(u.contentBuffer, l) ELSE u.contentBuffer
    BY <2>1, <2>2, Collects
  <2> QED
    BY <1>3, <2>3
<1>7. q.partialLineBuffer = <<>> /\ Accounted(q, s)
  BY <1>2, <1>4, <1>1, <1>5, <1>6, StillAccounted DEF SameFiles
<1>8. InBlock(q) /\ q.currentMode # "idle" /\ s.file # NoFile
  BY <1>1, <1>2, <1>5, <1>6, StreamAssumption DEF InBlock, AtLine, Sound
<1>9. Sound(q, s)
  BY <1>1, <1>2, <1>5, <1>6, <1>7, <1>8, StaysSound
<1>10. CASE r.lostSync
  <2>1. Names(<<>>) = {}
    BY NamesFacts
  <2>2. Astray(q, s)
    BY <1>1, <1>2, <1>5, <1>6, <1>7, <1>8, <1>10, <2>1 DEF Astray
  <2> QED
    BY <1>2, <1>4, <1>9, <1>10, <2>2 DEF AtLine
<1>11. CASE ~r.lostSync
  <2>1. InStep(p, r) /\ r.installs \subseteq p.extractedInstallCommands
    BY <1>1, <1>11 DEF InStep, SameContents
  <2>2. r.contents \in Contents /\ Len(r.contents) \in Nat
    BY <1>1 DEF Script, Contents
  <2>3. /\ Len(s.contents) = Len(r.contents) + 1 /\ s.contents[Len(r.contents) + 1] = l
        /\ \A k \in 1 .. Len(r.contents) : s.contents[k] = r.contents[k]
    BY <1>2, <1>3, <2>2 DEF Contents
  <2>4. ASSUME NEW A, l \in A, \A k \in 1 .. Len(r.contents) : r.contents[k] \in A
        PROVE  \A k \in 1 .. Len(s.contents) : s.contents[k] \in A
    BY <2>2, <2>3, <2>4
  <2>5. Append(<<<<Pad>>>> \o r.contents, l) = <<<<Pad>>>> \o s.contents
    BY <1>2, <1>3, <2>2, AppendAfterPad
  <2>6. SameContents(q, s)
    <3>1. CASE l \in Said /\ r.mode = "file_creation"
      <4>1. /\ \A k \in 1 .. Len(r.contents) : r.contents[k] \in Said
            /\ p.contentBuffer \in {r.contents, <<<<Pad>>>> \o r.contents}
        BY <2>1, <3>1 DEF InStep, SameContents
      <4>2. q.contentBuffer \in {s.contents, <<<<Pad>>>> \o s.contents}
        BY <1>2, <1>5, <1>6, <2>5, <4>1
      <4> QED
        BY <1>2, <1>5, <1>6, <1>7, <2>1, <2>4, <3>1, <4>1, <4>2 DEF SameContents
    <3>2. CASE l = <<Added>> /\ r.mode = "diff_patch"
      <4>2. /\ \A k \in 1 .. Len(r.contents) : r.contents[k] \in {<<Added>>}
            /\ p.contentBuffer = r.contents
        BY <2>1, <3>2 DEF InStep, SameContents
      <4>3. q.contentBuffer = s.contents
        BY <1>2, <1>5, <1>6, <4>2
      <4> QED
        BY <1>2, <1>5, <1>6, <1>7, <2>1, <2>4, <3>2, <4>2, <4>3 DEF SameContents
    <3> QED
      BY <3>1, <3>2
  <2>7. InStep(q, s)
    BY <1>2, <1>5, <1>6, <1>7, <2>1, <2>6, TrimmedMarker DEF InStep
  <2> QED
    BY <1>2, <1>4, <1>9, <1>11, <2>7 DEF AtLine
<1> QED
  BY <1>1, <1>10, <1>11

\* White space is dropped, or kept at the beginning of a file.
LEMMA PadLine ==
  ASSUME NEW p, NEW r, AtLine(p, r), r.mode = "file_creation",
         NEW q, q = ProcessLine(Cleared(p), <<Pad>>)
  PROVE  AtLine(q, r)
<1> DEFINE u == Cleared(p)
<1> DEFINE l == <<Pad>>
<1>1. /\ p \in ScofState /\ r \in Script /\ r.lostSync \in BOOLEAN /\ Accounted(p, r)
      /\ ~IsCommand(p.commandBuffer)
      /\ ~r.lostSync => InStep(p, r)
      /\ r.lostSync => Astray(p, r)
      /\ p.partialLineBuffer = <<>> /\ p.commandBuffer = <<>> /\ r.file \in File
  BY InStepFacts
<1>2. r.mode # "idle" /\ r.file # NoFile
  BY <1>1, StreamAssumption
<1>3. l \in Seq(Token) /\ IsBlank(l) /\ Trimmed(l) # <<Marker>> /\ l # <<>>
  BY TokenFacts, TrimmedMarker
<1>out. CASE ~InBlock(p)
  <2>1. Range(l) \subseteq {Pad, Marker, Text, Added}
    BY DEF Range
  <2> QED
    BY <1>1, <1>3, <1>out, <2>1, OutOfBlock
<1> HIDE DEF u, l
<1>0. WithPartial(p, u, <<>>)
  BY <1>1, ClearedFacts, Zenon DEF u
<1>5. /\ u \in ScofState /\ u.partialLineBuffer = <<>>
      /\ u.currentMode = p.currentMode /\ u.currentFile = p.currentFile
      /\ u.contentBuffer = p.contentBuffer /\ u.commandBuffer = p.commandBuffer
      /\ u.extractedInstallCommands = p.extractedInstallCommands
      /\ u.completedFiles = p.completedFiles /\ u.fixedFilePromises = p.fixedFilePromises
  BY <1>0 DEF WithPartial
<1> SUFFICES ASSUME InBlock(p) PROVE AtLine(q, r)
  BY <1>out
<1>6. /\ q \in ScofState /\ SameFiles(u, q)
      /\ q.currentMode = u.currentMode /\ q.currentFile = u.currentFile
      /\ q.commandBuffer = u.commandBuffer
      /\ q.extractedInstallCommands = u.extractedInstallCommands
      /\ q.contentBuffer = IF u.contentBuffer = <<>> THEN Append(<<>>, l) ELSE u.contentBuffer
  <2>1. InBlock(u) /\ q = ProcessLine(u, l)
    BY <1>1, <1>5 DEF InBlock, u, l
  <2>2. u \in ScofState /\ l \in Seq(Token) /\ Trimmed(l) # <<Marker>>
    BY <1>3, <1>5
  <2>3. /\ q \in ScofState /\ SameFiles(u, q)
        /\ q.currentMode = u.currentMode /\ q.currentFile = u.currentFile
        /\ q.commandBuffer = u.commandBuffer
        /\ q.extractedInstallCommands = u.extractedInstallCommands
        /\ q.contentBuffer = IF ~IsBlank(l) \/ (u.contentBuffer = <<>> /\ l # <<>>)
                             THEN Append(u.contentBuffer, l) ELSE u.contentBuffer
    BY <2>1, <2>2, Collects
  <2> QED
    BY <1>3, <2>3
<1>7. q.partialLineBuffer = <<>> /\ Accounted(q, r)
  BY <1>1, <1>5, <1>6, StillAccounted DEF SameFiles
<1>8. InBlock(q) /\ q.currentMode # "idle"
  BY <1>1, <1>5, <1>6 DEF InBlock, AtLine, Sound
<1>9. Sound(q, r)
  BY <1>1, <1>2, <1>5, <1>6, <1>7, <1>8, StaysSound
<1>10. CASE r.lostSync
  <2>1. Names(<<>>) = {}
    BY NamesFacts
  <2>2. Astray(q, r)
    BY <1>1, <1>5, <1>6, <1>7, <1>8, <1>10, <2>1 DEF Astray
  <2> QED
    BY <1>9, <1>10, <2>2 DEF AtLine
<1>11. CASE ~r.lostSync
  <2>1. /\ p.currentMode = r.mode /\ p.currentFile = r.file /\ r.installs \subseteq p.extractedInstallCommands
        /\ \A k \in 1 .. Len(r.contents) : r.contents[k] \in Said
        /\ p.contentBuffer \in {r.contents, <<<<Pad>>>> \o r.contents}
    BY <1>1, <1>11 DEF InStep, SameContents
  <2>2. r.contents \in Contents
    BY <1>1 DEF Script, Contents
  <2>3. q.contentBuffer \in {r.contents, <<<<Pad>>>> \o r.contents}
    <3>1. CASE u.contentBuffer = <<>>
      <4>1. r.contents = <<>>
        BY <1>3, <1>5, <2>1, <2>2, <3>1, AppendAfterPad
      <4>2. q.contentBuffer = <<<<Pad>>>> \o <<>>
        BY <1>3, <1>6, <2>2, <3>1, AppendAfterPad DEF l
      <4> QED
        BY <4>1, <4>2
    <3>2. CASE u.contentBuffer # <<>>
      BY <1>5, <1>6, <2>1, <3>2
    <3> QED
      BY <3>1, <3>2
  <2>4. SameContents(q, r)
    BY <1>5, <1>6, <1>7, <2>1, <2>3 DEF SameContents
  <2>5. InStep(q, r)
    BY <1>5, <1>6, <1>7, <2>1, <2>4, TrimmedMarker DEF InStep
  <2> QED
    BY <1>9, <1>11, <2>5 DEF AtLine
<1> QED
  BY <1>1, <1>10, <1>11

\* A block that ends leaves what was written in it, if it was read as it was
\* meant, and spoils only files that a retry had spoilt.
LEMMA MarkerLine ==
  ASSUME NEW p, NEW r, AtLine(p, r), r.mode # "idle", InBlock(p),
         NEW q, q = FinalizeCurrentFile(Cleared(p)), NEW s, s = ReadEnding(r)
  PROVE  AtLine(q, s)
<1> DEFINE u == Cleared(p)
<1> DEFINE g == p.currentFile
<1> DEFINE f == r.file
<1> DEFINE ps == p.fixedFilePromises
<1>1. /\ p \in ScofState /\ r \in Script /\ r.lostSync \in BOOLEAN /\ Accounted(p, r)
      /\ ~IsCommand(p.commandBuffer) /\ r.mode \in {"file_creation", "diff_patch"}
      /\ ~r.lostSync => InStep(p, r)
      /\ r.lostSync => Astray(p, r)
      /\ p.partialLineBuffer = <<>> /\ f \in File
  BY InStepFacts
<1>2. /\ s \in Script /\ s.mode = "idle" /\ s.file = NoFile /\ s.lostSync = FALSE
      /\ s.installs = r.installs /\ s.written = r.written \cup {f}
      /\ s.due = IF r.lostSync THEN r.due ELSE r.due \cup r.installs
      /\ s.files = [r.files EXCEPT ![f] = IF r.mode = "diff_patch"
                                          THEN ApplyDiff(r.files[f], r.contents) ELSE r.contents]
      /\ s.spoilt = IF r.mode = "diff_patch" \/ r.lostSync THEN r.spoilt ELSE r.spoilt \ {f}
      /\ r.mode = "file_creation" => s.repatched = r.repatched \ {f}
      /\ r.mode = "diff_patch" => s.repatched = IF f \in r.written THEN r.repatched \cup {f} ELSE r.repatched
  BY <1>1, ReadEndingFacts
<1> HIDE DEF u, f, g, ps
<1>0. WithPartial(p, u, <<>>)
  BY <1>1, ClearedFacts, Zenon DEF u
<1>3. /\ u \in ScofState /\ u.partialLineBuffer = <<>>
      /\ u.currentMode = p.currentMode /\ u.currentFile = g
      /\ u.contentBuffer = p.contentBuffer /\ u.commandBuffer = p.commandBuffer
      /\ u.betweenFilesBuffer = p.betweenFilesBuffer
      /\ u.extractedInstallCommands = p.extractedInstallCommands
      /\ u.completedFiles = p.completedFiles /\ u.fixedFilePromises = ps
  BY <1>0 DEF WithPartial, g, ps
<1>4. g \in File \cup {Garbled} /\ g # NoFile /\ Garbled \notin File /\ InBlock(u)
  BY <1>1, <1>3, StreamAssumption DEF ScofState, InBlock, g
<1>5. /\ r.contents \in Contents /\ r.files \in [File -> Contents]
      /\ ps \in Seq(Promise) /\ p.completedFiles \in [File \cup {Garbled} -> Contents \cup {NoFile}]
  BY <1>1 DEF Script, ScofState, Contents, Promise, ps
<1>6. /\ q \in ScofState /\ q.currentMode = "idle" /\ q.currentFile = NoFile
      /\ q.partialLineBuffer = u.partialLineBuffer /\ q.commandBuffer = u.commandBuffer
      /\ q.betweenFilesBuffer = u.betweenFilesBuffer
      /\ q.extractedInstallCommands = u.extractedInstallCommands
      /\ \E c \in Contents :
           /\ q.completedFiles = [u.completedFiles EXCEPT ![u.currentFile] = c]
           /\ q.fixedFilePromises = Append(u.fixedFilePromises, [file |-> u.currentFile, contents |-> c])
           /\ u.currentMode = "file_creation" => c = u.contentBuffer
           /\ u.currentMode = "diff_patch" /\ u.completedFiles[u.currentFile] = NoFile
                => c = ApplyDiff(OriginalContents(u.currentFile), u.contentBuffer)
  <2>1. q = FinalizeCurrentFile(u)
    BY DEF u
  <2> QED
    BY <1>3, <1>4, <2>1, Closes
<1>7. PICK c \in Contents :
           /\ q.completedFiles = [p.completedFiles EXCEPT ![g] = c]
           /\ q.fixedFilePromises = Append(ps, [file |-> g, contents |-> c])
           /\ p.currentMode = "file_creation" => c = p.contentBuffer
           /\ p.currentMode = "diff_patch" /\ p.completedFiles[g] = NoFile
                => c = ApplyDiff(OriginalContents(g), p.contentBuffer)
  BY <1>3, <1>6
<1> DEFINE old == Saved(Original, ps)
<1> DEFINE new == Saved(Original, q.fixedFilePromises)
<1>8. new[g] = c /\ \A h \in File \ {g} : new[h] = old[h]
  BY <1>4, <1>5, <1>7, SavedFacts
<1>9. /\ \A h \in File \ (r.spoilt \cup r.repatched) : NotBlank(old[h]) = r.files[h]
      /\ \A h \in File \ r.written : r.files[h] = OriginalContents(h)
      /\ \A h \in File \ (r.written \cup r.spoilt) : p.completedFiles[h] = NoFile
      /\ r.due \subseteq p.extractedInstallCommands
  BY <1>1 DEF Accounted, ps
<1> HIDE DEF old, new
<1>10. \A h \in File \ {f} : s.files[h] = r.files[h]
  BY <1>1, <1>2, <1>5
<1>11. \A h \in File \ {g} : q.completedFiles[h] = p.completedFiles[h]
  BY <1>4, <1>5, <1>7
<1>12. \A h \in File \ {f} : (h \in r.spoilt => h \in s.spoilt) /\ (h \in r.repatched => h \in s.repatched)
  BY <1>1, <1>2
<1>13. r.lostSync => g \in r.spoilt \cup {Garbled} /\ f \in r.spoilt /\ r.installs = {} /\ s.spoilt = r.spoilt
  BY <1>1, <1>2, <1>4 DEF Astray, f, g
<1>14. ~r.lostSync => g = f /\ p.currentMode = r.mode /\ r.installs \subseteq p.extractedInstallCommands
  BY <1>1 DEF InStep, SameContents, f, g
<1>15. ~r.lostSync /\ r.mode = "file_creation" => NotBlank(c) = r.contents
  <2> SUFFICES ASSUME ~r.lostSync, r.mode = "file_creation" PROVE NotBlank(c) = r.contents
    OBVIOUS
  <2>1. InStep(p, r)
    BY <1>1
  <2>2. /\ AllText(r.contents) /\ p.contentBuffer \in {r.contents, <<<<Pad>>>> \o r.contents}
    BY <2>1 DEF InStep, SameContents, AllText
  <2>3. c = p.contentBuffer
    BY <1>7, <1>14
  <2>4. NotBlank(r.contents) = r.contents /\ NotBlank(<<<<Pad>>>> \o r.contents) = r.contents
    BY <1>5, <2>2, NotBlankFacts
  <2> QED
    BY <2>2, <2>3, <2>4
<1>16. ~r.lostSync /\ r.mode = "diff_patch" /\ f \notin r.written /\ f \notin r.spoilt
         => NotBlank(c) = ApplyDiff(r.files[f], r.contents)
  <2> SUFFICES ASSUME ~r.lostSync, r.mode = "diff_patch", f \notin r.written, f \notin r.spoilt
               PROVE  NotBlank(c) = ApplyDiff(r.files[f], r.contents)
    OBVIOUS
  <2>1. InStep(p, r)
    BY <1>1
  <2>2. (\A k \in 1 .. Len(r.contents) : r.contents[k] = <<Added>>) /\ p.contentBuffer = r.contents
    BY <2>1 DEF InStep, SameContents
  <2>3. r.files[f] = OriginalContents(f) /\ p.completedFiles[f] = NoFile
    BY <1>1, <1>9
  <2>4. c = ApplyDiff(OriginalContents(f), r.contents)
    BY <1>7, <1>14, <2>2, <2>3
  <2>5. OriginalContents(f) \in Contents /\ AllText(OriginalContents(f))
    BY TokenFacts DEF OriginalContents, Contents, AllText, Said
  <2>6. AllText(c)
    BY <1>5, <2>2, <2>4, <2>5, DiffFacts
  <2> QED
    BY <2>3, <2>4, <2>6, NotBlankFacts
<1>17. Accounted(q, s)
  <2>1. ASSUME NEW h \in File \ (s.spoilt \cup s.repatched) PROVE NotBlank(new[h]) = s.files[h]
    <3>1. CASE h # f /\ h # g
      BY <1>8, <1>9, <1>10, <1>12, <2>1, <3>1
    <3>2. CASE h = g \/ h = f
      <4>1. ~r.lostSync /\ h = f /\ h = g
        BY <1>1, <1>4, <1>13, <1>14, <2>1, <3>2
      <4>2. CASE r.mode = "file_creation"
        BY <1>1, <1>2, <1>5, <1>8, <1>15, <4>1, <4>2
      <4>3. CASE r.mode = "diff_patch"
        <5>1. f \notin r.written /\ f \notin r.spoilt
          BY <1>2, <2>1, <4>1, <4>3
        <5> QED
          BY <1>1, <1>2, <1>5, <1>8, <1>16, <4>1, <4>3, <5>1
      <4> QED
        BY <1>1, <4>2, <4>3
    <3> QED
      BY <3>1, <3>2
  <2>2. \A h \in File \ s.written : s.files[h] = OriginalContents(h)
    BY <1>2, <1>9, <1>10
  <2>3. ASSUME NEW h \in File \ (s.written \cup s.spoilt) PROVE q.completedFiles[h] = NoFile
    <3>1. h # f /\ h \notin r.written /\ h \notin r.spoilt
      BY <1>2, <1>12, <2>3
    <3>2. h # g
      BY <1>1, <1>4, <1>13, <1>14, <3>1
    <3> QED
      BY <1>9, <1>11, <2>3, <3>1, <3>2
  <2>4. s.due \subseteq q.extractedInstallCommands
    BY <1>1, <1>2, <1>3, <1>6, <1>9, <1>14
  <2> QED
    BY <2>1, <2>2, <2>3, <2>4 DEF Accounted, new
<1>18. q.partialLineBuffer = <<>> /\ ~InBlock(q)
  BY <1>3, <1>6 DEF InBlock
<1>19. Sound(q, s)
  BY <1>1, <1>2, <1>3, <1>6, <1>17, <1>18, StaysSound
<1>20. SameContents(q, s)
  BY <1>1, <1>2, <1>3, <1>6, <1>13, <1>14 DEF SameContents
<1>21. InStep(q, s)
  BY <1>2, <1>6, <1>18, <1>20, TrimmedMarker DEF InStep
<1> QED
  BY <1>2, <1>19, <1>21 DEF AtLine

\* The end of a block that was cut short is read, and the two are in step again.
LEMMA EndsOutOfBlock ==
  ASSUME NEW p, NEW r, AtLine(p, r), r.mode # "idle", ~InBlock(p), NEW s, s = ReadEnding(r)
  PROVE  AtLine(p, s)
<1> DEFINE f == r.file
<1>1. /\ p \in ScofState /\ r \in Script /\ r.lostSync /\ Astray(p, r) /\ Accounted(p, r)
      /\ ~IsCommand(p.commandBuffer) /\ r.mode \in {"file_creation", "diff_patch"}
      /\ p.partialLineBuffer = <<>> /\ p.commandBuffer = <<>> /\ f \in File
  BY InStepFacts
<1>2. /\ s \in Script /\ s.mode = "idle" /\ s.file = NoFile /\ s.lostSync = FALSE
      /\ s.installs = r.installs /\ s.written = r.written \cup {f} /\ s.due = r.due
      /\ s.files = [r.files EXCEPT ![f] = IF r.mode = "diff_patch"
                                          THEN ApplyDiff(r.files[f], r.contents) ELSE r.contents]
      /\ s.spoilt = r.spoilt
      /\ r.mode = "file_creation" => s.repatched = r.repatched \ {f}
      /\ r.mode = "diff_patch" => s.repatched = IF f \in r.written THEN r.repatched \cup {f} ELSE r.repatched
  BY <1>1, ReadEndingFacts
<1>3. f \in r.spoilt /\ r.installs = {} /\ p.currentMode = "idle" /\ p.currentFile = NoFile
  BY <1>1 DEF Astray, AtLine, Sound, InBlock
<1> HIDE DEF f
<1>4. r.files \in [File -> Contents]
  BY <1>1 DEF Script, Contents
<1>5. \A h \in File \ {f} : s.files[h] = r.files[h] /\ (h \in r.repatched => h \in s.repatched)
  BY <1>1, <1>2, <1>4
<1>6. Accounted(p, s)
  BY <1>1, <1>2, <1>3, <1>5 DEF Accounted
<1>7. Sound(p, s)
  BY <1>1, <1>2, <1>3, <1>6, StaysSound DEF InBlock
<1>8. InStep(p, s)
  BY <1>1, <1>2, <1>3, TrimmedMarker DEF InStep, SameContents
<1> QED
  BY <1>2, <1>7, <1>8 DEF AtLine

\* A block is cut short: s instead of r.
AfterCut(r, s) ==
    /\ s \in Script /\ s.mode = r.mode /\ s.file = r.file /\ s.files = r.files /\ s.written = r.written
    /\ s.repatched = r.repatched /\ s.lostSync = TRUE /\ s.spoilt = r.spoilt \cup {r.file}
    /\ s.due = r.due \cup r.installs /\ s.installs = {}

\* That is what ReadCut does behind the beginning of a line that looks like the
\* marker, and nothing anywhere else.
LEMMA ReadCutFacts ==
  ASSUME NEW r \in Script, r.file \in File, NEW line, line.text \in Lookalikes, line.sent = 1
  PROVE  AfterCut(r, ReadCut(r, line))
<1> DEFINE s == ReadCut(r, line)
<1>1. s = [r EXCEPT !.lostSync = TRUE, !.spoilt = @ \cup {r.file},
                    !.due = @ \cup r.installs, !.installs = {}]
  BY DEF ReadCut
<1> HIDE DEF s
<1>2. s = [mode |-> r.mode, file |-> r.file, contents |-> r.contents, files |-> r.files,
           written |-> r.written, installs |-> {}, due |-> r.due \cup r.installs, lostSync |-> TRUE,
           spoilt |-> r.spoilt \cup {r.file}, repatched |-> r.repatched]
  BY <1>1 DEF Script
<1>3. s \in Script
  BY <1>2 DEF Script
<1>4. AfterCut(r, s)
  BY <1>2, <1>3 DEF AfterCut
<1> QED
  BY <1>4 DEF s

\* A parser out of the block has nothing more to close.
LEMMA CutOutOfBlock ==
  ASSUME NEW p, NEW r, AtLine(p, r), r.mode # "idle", ~InBlock(p), NEW s, AfterCut(r, s)
  PROVE  AtLine(p, s)
<1>1. /\ p \in ScofState /\ r \in Script /\ r.lostSync /\ Astray(p, r) /\ Accounted(p, r)
      /\ ~IsCommand(p.commandBuffer) /\ p.partialLineBuffer = <<>> /\ r.file \in File
  BY InStepFacts
<1>2. /\ s \in Script /\ s.mode = r.mode /\ s.file = r.file /\ s.files = r.files /\ s.written = r.written
      /\ s.repatched = r.repatched /\ s.lostSync = TRUE /\ s.spoilt = r.spoilt \cup {r.file}
      /\ s.due = r.due \cup r.installs /\ s.installs = {}
  BY DEF AfterCut
<1>3. r.file \in r.spoilt /\ r.installs = {}
  BY <1>1 DEF Astray
<1>4. s.due = r.due /\ s.spoilt = r.spoilt
  BY <1>2, <1>3
<1>5. Sound(p, s)
  BY <1>1, <1>2, <1>4, StillAccounted DEF AtLine, Sound
<1>6. Astray(p, s)
  BY <1>1, <1>2, <1>4 DEF Astray
<1> QED
  BY <1>2, <1>5, <1>6 DEF AtLine

\* A block that is closed too early is cut short, and spoils its file or files
\* that a retry had spoilt; what was due before it stays due.
LEMMA ClosedEarly ==
  ASSUME NEW p, NEW r, AtLine(p, r), r.mode = "file_creation", InBlock(p),
         NEW q, q = FinalizeCurrentFile(Cleared(p)), NEW s, AfterCut(r, s)
  PROVE  AtLine(q, s) /\ ~InBlock(q) /\ q.partialLineBuffer = <<>> /\ q.commandBuffer = <<>>
<1> DEFINE u == Cleared(p)
<1> DEFINE g == p.currentFile
<1> DEFINE f == r.file
<1> DEFINE ps == p.fixedFilePromises
<1>1. /\ p \in ScofState /\ r \in Script /\ r.lostSync \in BOOLEAN /\ Accounted(p, r)
      /\ ~IsCommand(p.commandBuffer) /\ p.commandBuffer = <<>>
      /\ ~r.lostSync => InStep(p, r)
      /\ r.lostSync => Astray(p, r)
      /\ p.partialLineBuffer = <<>> /\ f \in File
  BY InStepFacts
<1>2. /\ s \in Script /\ s.mode = r.mode /\ s.file = f /\ s.files = r.files /\ s.written = r.written
      /\ s.repatched = r.repatched /\ s.lostSync = TRUE /\ s.spoilt = r.spoilt \cup {f}
      /\ s.due = r.due \cup r.installs /\ s.installs = {}
  BY DEF AfterCut
<1> HIDE DEF u, f, g, ps
<1>0. WithPartial(p, u, <<>>)
  BY <1>1, ClearedFacts, Zenon DEF u
<1>3. /\ u \in ScofState /\ u.partialLineBuffer = <<>>
      /\ u.currentFile = g /\ u.commandBuffer = p.commandBuffer
      /\ u.extractedInstallCommands = p.extractedInstallCommands
      /\ u.completedFiles = p.completedFiles /\ u.fixedFilePromises = ps
  BY <1>0 DEF WithPartial, g, ps
<1>4. g \in File \cup {Garbled} /\ Garbled \notin File /\ InBlock(u)
  BY <1>1, <1>3, StreamAssumption DEF ScofState, InBlock, g
<1>5. ps \in Seq(Promise) /\ p.completedFiles \in [File \cup {Garbled} -> Contents \cup {NoFile}]
  BY <1>1 DEF ScofState, Contents, Promise, ps
<1>6. /\ q \in ScofState /\ q.currentMode = "idle" /\ q.currentFile = NoFile
      /\ q.partialLineBuffer = u.partialLineBuffer /\ q.commandBuffer = u.commandBuffer
      /\ q.extractedInstallCommands = u.extractedInstallCommands
      /\ \E c \in Contents :
           /\ q.completedFiles = [u.completedFiles EXCEPT ![u.currentFile] = c]
           /\ q.fixedFilePromises = Append(u.fixedFilePromises, [file |-> u.currentFile, contents |-> c])
           /\ u.currentMode = "file_creation" => c = u.contentBuffer
           /\ u.currentMode = "diff_patch" /\ u.completedFiles[u.currentFile] = NoFile
                => c = ApplyDiff(OriginalContents(u.currentFile), u.contentBuffer)
  <2>1. q = FinalizeCurrentFile(u)
    BY DEF u
  <2> QED
    BY <1>3, <1>4, <2>1, Closes
<1>7. PICK c \in Contents :
           /\ q.completedFiles = [p.completedFiles EXCEPT ![g] = c]
           /\ q.fixedFilePromises = Append(ps, [file |-> g, contents |-> c])
  BY <1>3, <1>6
<1> DEFINE old == Saved(Original, ps)
<1> DEFINE new == Saved(Original, q.fixedFilePromises)
<1>8. \A h \in File \ {g} : new[h] = old[h]
  BY <1>4, <1>5, <1>7, SavedFacts
<1>9. /\ \A h \in File \ (r.spoilt \cup r.repatched) : NotBlank(old[h]) = r.files[h]
      /\ \A h \in File \ r.written : r.files[h] = OriginalContents(h)
      /\ \A h \in File \ (r.written \cup r.spoilt) : p.completedFiles[h] = NoFile
      /\ r.due \subseteq p.extractedInstallCommands
  BY <1>1 DEF Accounted, ps
<1> HIDE DEF old, new
<1>10. \A h \in File \ {g} : q.completedFiles[h] = p.completedFiles[h]
  BY <1>4, <1>5, <1>7
<1>11. r.lostSync => g \in r.spoilt \cup {Garbled} /\ r.installs = {}
  BY <1>1, <1>3, <1>4 DEF Astray, g, InBlock
<1>12. ~r.lostSync => g = f /\ r.installs \subseteq p.extractedInstallCommands
  BY <1>1 DEF InStep, SameContents, f, g
<1>13. g \in s.spoilt \cup {Garbled} /\ s.due \subseteq p.extractedInstallCommands
  BY <1>1, <1>2, <1>9, <1>11, <1>12
<1>14. Accounted(q, s)
  <2>1. ASSUME NEW h \in File \ (s.spoilt \cup s.repatched) PROVE NotBlank(new[h]) = s.files[h]
    BY <1>2, <1>4, <1>8, <1>9, <1>13, <2>1
  <2>2. ASSUME NEW h \in File \ (s.written \cup s.spoilt) PROVE q.completedFiles[h] = NoFile
    BY <1>2, <1>4, <1>9, <1>10, <1>13, <2>2
  <2> QED
    BY <1>2, <1>3, <1>6, <1>9, <1>13, <2>1, <2>2 DEF Accounted, new
<1>15. q.partialLineBuffer = <<>> /\ ~InBlock(q) /\ q.commandBuffer = <<>>
  BY <1>1, <1>3, <1>6 DEF InBlock
<1>16. s.file # NoFile /\ s.mode # "idle"
  BY <1>1, <1>2, StreamAssumption
<1>17. Sound(q, s)
  BY <1>1, <1>2, <1>6, <1>14, <1>15, <1>16, StaysSound
<1>18. Astray(q, s)
  <2>1. Names(<<>>) = {}
    BY NamesFacts
  <2> QED
    BY <1>2, <1>6, <1>15, <2>1 DEF Astray
<1> QED
  BY <1>2, <1>15, <1>17, <1>18 DEF AtLine

-----------------------------------------------------------------------------
(* The answer, a token at a time. *)

Says(w, k) == w[k] \notin {Pad, NewLine}

\* What has been read of a line w after its token k: the line, with its last word.
ReadUpTo(r, w, k) ==
    IF Says(w, k) /\ \A j \in k + 1 .. Len(w) : ~Says(w, j) THEN ReadLine(r, w) ELSE r

\* With which token each kind of line is read.
LEMMA ReadingCommands ==
  ASSUME NEW r, NEW f \in File
  PROVE  /\ ReadUpTo(r, OneLine(f), 1) = r
         /\ ReadUpTo(r, OneLine(f), 2) = ReadOpening(r, "file_creation", f)
         /\ ReadUpTo(r, PatchLine(f), 1) = r
         /\ ReadUpTo(r, PatchLine(f), 2) = ReadOpening(r, "diff_patch", f)
         /\ ReadUpTo(r, TwoLines(f), 1) = r /\ ReadUpTo(r, TwoLines(f), 2) = r
         /\ ReadUpTo(r, TwoLines(f), 3) = ReadOpening(r, "file_creation", f)
<1>0. /\ \A t \in {Cat(f), Here, CatHere, Patch(f)} : t \notin {Pad, NewLine}
  BY TokenFacts
<1>1. ReadUpTo(r, OneLine(f), 1) = r /\ ReadUpTo(r, OneLine(f), 2) = ReadOpening(r, "file_creation", f)
  <2> DEFINE w == OneLine(f)
  <2>1. Len(w) = 3 /\ w[1] = Cat(f) /\ w[2] = Here /\ w[3] = NewLine
    BY DEF OneLine
  <2> HIDE DEF w
  <2>2. Says(w, 1) /\ Says(w, 2) /\ ~Says(w, 3)
    BY <1>0, <2>1 DEF Says
  <2>3. 2 \in 1 + 1 .. Len(w) /\ \A j \in 2 + 1 .. Len(w) : j = 3
    BY <2>1
  <2> QED
    BY <2>2, <2>3, ReadFacts DEF ReadUpTo, w
<1>2. ReadUpTo(r, PatchLine(f), 1) = r /\ ReadUpTo(r, PatchLine(f), 2) = ReadOpening(r, "diff_patch", f)
  <2> DEFINE w == PatchLine(f)
  <2>1. Len(w) = 3 /\ w[1] = CatHere /\ w[2] = Patch(f) /\ w[3] = NewLine
    BY DEF PatchLine
  <2> HIDE DEF w
  <2>2. Says(w, 1) /\ Says(w, 2) /\ ~Says(w, 3)
    BY <1>0, <2>1 DEF Says
  <2>3. 2 \in 1 + 1 .. Len(w) /\ \A j \in 2 + 1 .. Len(w) : j = 3
    BY <2>1
  <2> QED
    BY <2>2, <2>3, ReadFacts DEF ReadUpTo, w
<1>3. /\ ReadUpTo(r, TwoLines(f), 1) = r /\ ReadUpTo(r, TwoLines(f), 2) = r
      /\ ReadUpTo(r, TwoLines(f), 3) = ReadOpening(r, "file_creation", f)
  <2> DEFINE w == TwoLines(f)
  <2>1. Len(w) = 4 /\ w[1] = Cat(f) /\ w[2] = NewLine /\ w[3] = Here /\ w[4] = NewLine
    BY DEF TwoLines
  <2> HIDE DEF w
  <2>2. Says(w, 1) /\ ~Says(w, 2) /\ Says(w, 3) /\ ~Says(w, 4)
    BY <1>0, <2>1 DEF Says
  <2>3. 3 \in 1 + 1 .. Len(w) /\ \A j \in 3 + 1 .. Len(w) : j = 4
    BY <2>1
  <2> QED
    BY <2>2, <2>3, ReadFacts DEF ReadUpTo, w
<1> QED
  BY <1>1, <1>2, <1>3

\* The other lines are read with their first token, white space not at all.
LEMMA ReadingWords ==
  ASSUME NEW r
  PROVE  /\ ReadUpTo(r, <<InstallCommand, NewLine>>, 1) = ReadLine(r, <<InstallCommand, NewLine>>)
         /\ \A t \in {Text, Added} : ReadUpTo(r, <<t, NewLine>>, 1) = ReadLine(r, <<t, NewLine>>)
         /\ ReadUpTo(r, <<Pad, NewLine>>, 1) = r
         /\ \A w \in Endings : ReadUpTo(r, w, 1) = ReadEnding(r)
         /\ ReadUpTo(r, <<Marker, Pad, NewLine>>, 2) = r
         /\ ReadUpTo(r, <<Marker, Text, NewLine>>, 1) = r
         /\ ReadUpTo(r, <<Marker, Text, NewLine>>, 2) = ReadLine(r, <<Marker, Text, NewLine>>)
         /\ \A w : w[Len(w)] = NewLine => ReadUpTo(r, w, Len(w)) = r
<1>0. \A t \in {InstallCommand, Text, Added, Marker} : t \notin {Pad, NewLine}
  BY TokenFacts
<1>1. ASSUME NEW t \in {InstallCommand, Text, Added, Marker} PROVE ReadUpTo(r, <<t, NewLine>>, 1) = ReadLine(r, <<t, NewLine>>)
  <2> DEFINE w == <<t, NewLine>>
  <2>1. Len(w) = 2 /\ w[1] = t /\ w[2] = NewLine
    OBVIOUS
  <2> HIDE DEF w
  <2>2. Says(w, 1) /\ ~Says(w, 2) /\ \A j \in 1 + 1 .. Len(w) : j = 2
    BY <1>0, <2>1 DEF Says
  <2> QED
    BY <2>2 DEF ReadUpTo, w
<1>2. ReadUpTo(r, <<Pad, NewLine>>, 1) = r
  <2>1. ~Says(<<Pad, NewLine>>, 1)
    BY DEF Says
  <2> QED
    BY <2>1 DEF ReadUpTo
<1>3. /\ ReadUpTo(r, <<Marker, Pad, NewLine>>, 1) = ReadLine(r, <<Marker, Pad, NewLine>>)
      /\ ReadUpTo(r, <<Marker, Pad, NewLine>>, 2) = r
  <2> DEFINE w == <<Marker, Pad, NewLine>>
  <2>1. Len(w) = 3 /\ w[1] = Marker /\ w[2] = Pad /\ w[3] = NewLine
    OBVIOUS
  <2> HIDE DEF w
  <2>2. Says(w, 1) /\ ~Says(w, 2) /\ ~Says(w, 3) /\ \A j \in 1 + 1 .. Len(w) : j = 2 \/ j = 3
    BY <1>0, <2>1 DEF Says
  <2> QED
    BY <2>2 DEF ReadUpTo, w
<1>4. \A w \in Endings : ReadUpTo(r, w, 1) = ReadEnding(r)
  BY <1>1, <1>3, ReadFacts DEF Endings
<1>5. \A w : w[Len(w)] = NewLine => ReadUpTo(r, w, Len(w)) = r
  BY DEF ReadUpTo, Says
<1>6. /\ ReadUpTo(r, <<Marker, Text, NewLine>>, 1) = r
      /\ ReadUpTo(r, <<Marker, Text, NewLine>>, 2) = ReadLine(r, <<Marker, Text, NewLine>>)
  <2> DEFINE w == <<Marker, Text, NewLine>>
  <2>1. Len(w) = 3 /\ w[1] = Marker /\ w[2] = Text /\ w[3] = NewLine
    OBVIOUS
  <2> HIDE DEF w
  <2>2. Says(w, 1) /\ Says(w, 2) /\ ~Says(w, 3)
    BY <1>0, <2>1 DEF Says
  <2>3. 2 \in 1 + 1 .. Len(w) /\ \A j \in 2 + 1 .. Len(w) : j = 3
    BY <2>1
  <2> QED
    BY <2>2, <2>3 DEF ReadUpTo, w
<1> QED
  BY <1>1, <1>2, <1>3, <1>4, <1>5, <1>6

\* A token that is no newline goes to the end of the unfinished line.
LEMMA TokenKept ==
  ASSUME NEW v \in ScofState, NEW t \in Token, t # NewLine, NEW q, q = ProcessToken(v, t)
  PROVE  /\ WithPartial(v, q, Append(v.partialLineBuffer, t))
         /\ ProcessToken(q, NewLine) = ProcessLine(Cleared(v), Append(v.partialLineBuffer, t))
<1>1. Append(v.partialLineBuffer, t) \in Seq(Token)
  BY DEF ScofState
<1>2. q = [v EXCEPT !.partialLineBuffer = Append(v.partialLineBuffer, t)]
  BY DEF ProcessToken
<1>3. WithPartial(v, q, Append(v.partialLineBuffer, t))
  BY <1>1, <1>2, PartialFacts
<1>4. ProcessToken(q, NewLine) = ProcessLine(Cleared(q), q.partialLineBuffer)
  BY DEF ProcessToken, Cleared
<1> QED
  BY <1>3, <1>4 DEF WithPartial

\* The tokens of an unfinished line.
LEMMA AppendRange ==
  ASSUME NEW x \in Seq(Token), NEW t \in Token
  PROVE  Range(Append(x, t)) = Range(x) \cup {t}
<1> DEFINE y == Append(x, t)
<1>1. /\ y \in Seq(Token) /\ DOMAIN y = 1 .. Len(x) + 1 /\ DOMAIN x = 1 .. Len(x) /\ Len(x) \in Nat
      /\ y[Len(x) + 1] = t /\ \A k \in 1 .. Len(x) : y[k] = x[k]
  OBVIOUS
<1> HIDE DEF y
<1> QED
  BY <1>1 DEF Range, y

\* Less or more of an unfinished line is still one.
LEMMA SoundFragment ==
  ASSUME NEW p, NEW r, Sound(p, r), NEW l \in Seq(Token), NEW q, WithPartial(p, q, l),
         InBlock(p) => Trimmed(l) # <<Marker>>, NewLine \notin Range(l),
         NEW s \in Script, s.mode = "idle" <=> s.file = NoFile, Accounted(p, s)
  PROVE  Sound(q, s)
<1>1. /\ q \in ScofState /\ q.currentMode = p.currentMode /\ q.currentFile = p.currentFile
      /\ q.commandBuffer = p.commandBuffer /\ q.partialLineBuffer = l
      /\ q.extractedInstallCommands = p.extractedInstallCommands
      /\ q.completedFiles = p.completedFiles /\ q.fixedFilePromises = p.fixedFilePromises
  BY DEF WithPartial
<1>2. Accounted(q, s)
  BY <1>1 DEF Accounted
<1>3. /\ InBlock(q) <=> q.currentMode # "idle"
      /\ ~IsCommand(q.commandBuffer)
  BY <1>1 DEF Sound, InBlock
<1>4. /\ NewLine \notin Range(q.partialLineBuffer)
      /\ InBlock(q) => Trimmed(q.partialLineBuffer) # <<Marker>> /\ q.commandBuffer = <<>>
  BY <1>1 DEF Sound, InBlock
<1> QED
  BY <1>1, <1>2, <1>3, <1>4 DEF Sound

\* A list that is not empty is its front and its last element.
LEMMA FrontAndLast ==
  ASSUME NEW x \in Seq(Token), x # <<>>
  PROVE  Front(x) \in Seq(Token) /\ Last(x) \in Token /\ x = Append(Front(x), Last(x))
<1> DEFINE y == SubSeq(x, 1, Len(x) - 1)
<1>1. Len(x) \in Nat \ {0} /\ x[Len(x)] \in Token
  OBVIOUS
<1>2. y \in Seq(Token) /\ Len(y) = Len(x) - 1 /\ \A k \in 1 .. Len(x) - 1 : y[k] = x[k]
  <2> DEFINE n == Len(x) - 1
  <2>1. n \in Nat /\ \A i \in 1 .. n : x[i] \in Token
    BY <1>1
  <2> HIDE DEF n
  <2>2. /\ SubSeq(x, 1, n) \in Seq(Token) /\ Len(SubSeq(x, 1, n)) = IF 1 <= n THEN n - 1 + 1 ELSE 0
        /\ \A i \in 1 .. n - 1 + 1 : SubSeq(x, 1, n)[i] = x[1 + i - 1]
    BY <2>1, SubSeqProperties
  <2>3. Len(SubSeq(x, 1, n)) = n /\ \A i \in 1 .. n : SubSeq(x, 1, n)[i] = x[i]
    BY <2>1, <2>2
  <2> QED
    BY <2>2, <2>3 DEF n
<1> HIDE DEF y
<1> DEFINE z == Append(y, x[Len(x)])
<1>3. z \in Seq(Token) /\ Len(z) = Len(x) /\ \A k \in 1 .. Len(x) : z[k] = x[k]
  BY <1>1, <1>2
<1> HIDE DEF z
<1>4. z = x
  BY <1>3, SeqEqual
<1> QED
  BY <1>1, <1>2, <1>4 DEF Front, Last, y, z

\* The first token of a command follows what was left of a line.
LEMMA FirstToken ==
  ASSUME NEW v, NEW r, AtLine(v, r), NEW t \in Token, t # NewLine, NEW q, q = ProcessToken(v, t)
  PROVE  AfterFirst(q, r, t)
<1> DEFINE x == v.partialLineBuffer
<1>1. v \in ScofState /\ x \in Seq(Token)
  BY InStepFacts
<1>2. q = [v EXCEPT !.partialLineBuffer = Append(x, t)]
  BY DEF ProcessToken
<1>3. q \in ScofState /\ q.partialLineBuffer = Append(x, t)
  BY <1>1, TokenKept DEF WithPartial
<1>4. Append(x, t) # <<>> /\ Front(Append(x, t)) = x /\ Last(Append(x, t)) = t
  BY <1>1, FrontOfAppend
<1>5. [q EXCEPT !.partialLineBuffer = x] = v
  BY <1>1, <1>2 DEF ScofState
<1> QED
  BY <1>3, <1>4, <1>5 DEF AfterFirst

\* What precedes that token.
LEMMA BeforeFirst ==
  ASSUME NEW v, NEW r, NEW t, AfterFirst(v, r, t)
  PROVE  \E p : /\ AtLine(p, r) /\ v.partialLineBuffer = Append(p.partialLineBuffer, t) /\ t \in Token
                /\ Cleared(v) = Cleared(p) /\ WithPartial(p, v, v.partialLineBuffer)
<1> DEFINE x == v.partialLineBuffer
<1> DEFINE p == [v EXCEPT !.partialLineBuffer = Front(x)]
<1>1. v \in ScofState /\ x # <<>> /\ Last(x) = t /\ AtLine(p, r)
  BY DEF AfterFirst
<1>2. x \in Seq(Token)
  BY <1>1 DEF ScofState
<1>3. Front(x) \in Seq(Token) /\ t \in Token /\ x = Append(Front(x), t)
  BY <1>1, <1>2, FrontAndLast
<1>4. WithPartial(v, p, Front(x))
  BY <1>1, <1>3, PartialFacts
<1> HIDE DEF p
<1>5. WithPartial(p, v, x) /\ Cleared(v) = Cleared(p) /\ p.partialLineBuffer = Front(x)
  BY <1>1, <1>4 DEF WithPartial
<1> QED
  BY <1>1, <1>3, <1>5

\* The second token of a command on one line.
LEMMA SecondToken ==
  ASSUME NEW v, NEW r, r.mode = "idle", NEW f \in File, NEW m \in {"file_creation", "diff_patch"},
         NEW a, NEW b,
         \/ m = "file_creation" /\ a = Cat(f) /\ b = Here
         \/ m = "diff_patch" /\ a = CatHere /\ b = Patch(f),
         AfterFirst(v, r, a), NEW q, q = ProcessToken(v, b), NEW s, s = ReadOpening(r, m, f)
  PROVE  Sound(q, s) /\ AtLine(ProcessToken(q, NewLine), s)
<1>1. PICK p : /\ AtLine(p, r) /\ v.partialLineBuffer = Append(p.partialLineBuffer, a) /\ a \in Token
               /\ Cleared(v) = Cleared(p) /\ WithPartial(p, v, v.partialLineBuffer)
  BY BeforeFirst
<1> DEFINE x == p.partialLineBuffer
<1> DEFINE l == Append(Append(x, a), b)
<1>2. /\ a # Pad /\ b # Pad /\ a # Marker /\ b # Marker /\ a # NewLine /\ b # NewLine
      /\ a \in Token /\ b \in Token /\ a.file \in {f, NoFile} /\ b.file \in {f, NoFile}
  BY TokenFacts
<1>3. \A y \in Seq(Token) : IsCommand(Append(Append(y, a), b))
  BY CompleteCommand
<1>4. TryParseCommand(<<a, b>>) = [type |-> m, filePath |-> f]
  BY WholeCommand
<1>5. /\ p \in ScofState /\ r \in Script /\ x \in Seq(Token) /\ Accounted(p, r)
      /\ NewLine \notin Range(x) /\ v \in ScofState
  BY <1>1, InStepFacts DEF WithPartial
<1>6. WithPartial(v, q, l) /\ ProcessToken(q, NewLine) = ProcessLine(Cleared(p), l)
  BY <1>1, <1>2, <1>5, TokenKept
<1>7. AtLine(ProcessLine(Cleared(p), l), s)
  BY <1>1, <1>2, <1>3, <1>4, CommandLine
<1>8. l \in Seq(Token) /\ Trimmed(l) # <<Marker>> /\ NewLine \notin Range(l)
  <2>1. Append(x, a) \in Seq(Token) /\ Range(Append(x, a)) = Range(x) \cup {a}
    BY <1>2, <1>5, AppendRange
  <2>2. Range(l) = Range(Append(x, a)) \cup {b}
    BY <1>2, <2>1, AppendRange
  <2>3. Trimmed(l) # <<Marker>>
    BY <1>2, <2>1, TrimmedOther
  <2> QED
    BY <1>2, <1>5, <2>1, <2>2, <2>3
<1> HIDE DEF l, x
<1>9. WithPartial(p, q, l)
  BY <1>1, <1>6 DEF WithPartial
<1>10. AfterOpening(r, s, m, f)
  BY <1>5, ReadOpeningFacts
<1>11. s \in Script /\ (s.mode = "idle" <=> s.file = NoFile) /\ Accounted(p, s)
  <2>1. /\ s \in Script /\ s.mode = m /\ s.file = f /\ s.files = r.files /\ s.written = r.written
        /\ s.due = r.due /\ s.repatched = r.repatched /\ r.spoilt \subseteq s.spoilt
    BY <1>10 DEF AfterOpening
  <2>2. Accounted(p, s)
    BY <1>5, <2>1, StillAccounted
  <2> QED
    BY <2>1, <2>2, StreamAssumption
<1>12. Sound(q, s)
  <2>1. Sound(p, r)
    BY <1>1 DEF AtLine
  <2> QED
    BY <1>8, <1>9, <1>11, <2>1, SoundFragment
<1> QED
  BY <1>6, <1>7, <1>12

\* The end of the first of two lines of a command.
LEMMA EndOfFirstHalf ==
  ASSUME NEW v, NEW r, r.mode = "idle", NEW f \in File, AfterFirst(v, r, Cat(f)),
         NEW q, q = ProcessToken(v, NewLine)
  PROVE  HalfWay(q, r, f)
<1>1. PICK p : /\ AtLine(p, r) /\ v.partialLineBuffer = Append(p.partialLineBuffer, Cat(f))
               /\ Cleared(v) = Cleared(p)
  BY BeforeFirst
<1>2. q = ProcessLine(Cleared(p), Append(p.partialLineBuffer, Cat(f)))
  BY <1>1 DEF ProcessToken, Cleared
<1> QED
  BY <1>1, <1>2, FirstHalfLine

\* The second of them.
LEMMA SecondHalfToken ==
  ASSUME NEW v, NEW r, NEW f \in File, HalfWay(v, r, f), NEW q, q = ProcessToken(v, Here),
         NEW s, s = ReadOpening(r, "file_creation", f)
  PROVE  Sound(q, s) /\ AtLine(ProcessToken(q, NewLine), s)
<1> DEFINE l == Append(v.partialLineBuffer, Here)
<1>1. /\ v \in ScofState /\ r \in Script /\ Sound(v, r) /\ Accounted(v, r) /\ v.partialLineBuffer \in Seq(Token)
      /\ NewLine \notin Range(v.partialLineBuffer)
  BY DEF HalfWay, Sound, ScofState
<1>2. Here \in Token /\ Here # NewLine /\ Here # Marker /\ Here # Pad
  BY TokenFacts
<1>3. WithPartial(v, q, l) /\ ProcessToken(q, NewLine) = ProcessLine(Cleared(v), l)
  BY <1>1, <1>2, TokenKept
<1>4. AtLine(ProcessLine(Cleared(v), l), s)
  BY SecondHalfLine
<1>5. l \in Seq(Token) /\ Trimmed(l) # <<Marker>> /\ NewLine \notin Range(l)
  BY <1>1, <1>2, AppendRange, TrimmedOther
<1> HIDE DEF l
<1>6. AfterOpening(r, s, "file_creation", f)
  BY <1>1, ReadOpeningFacts
<1>7. s \in Script /\ (s.mode = "idle" <=> s.file = NoFile) /\ Accounted(v, s)
  <2>1. /\ s \in Script /\ s.mode = "file_creation" /\ s.file = f /\ s.files = r.files /\ s.written = r.written
        /\ s.due = r.due /\ s.repatched = r.repatched /\ r.spoilt \subseteq s.spoilt
    BY <1>6 DEF AfterOpening
  <2>2. Accounted(v, s)
    BY <1>1, <2>1, StillAccounted
  <2> QED
    BY <2>1, <2>2, StreamAssumption
<1>8. Sound(q, s)
  BY <1>1, <1>3, <1>5, <1>7, SoundFragment
<1> QED
  BY <1>3, <1>4, <1>8

\* The one word of a line.
LEMMA OnlyToken ==
  ASSUME NEW v, NEW r, AtLine(v, r), NEW t \in Token, t # NewLine, t # Marker,
         t # Pad \/ v.partialLineBuffer = <<>>,
         NEW s, s \in Script, s.mode = "idle" <=> s.file = NoFile, Accounted(v, s),
         AtLine(ProcessLine(Cleared(v), Append(v.partialLineBuffer, t)), s),
         NEW q, q = ProcessToken(v, t)
  PROVE  Sound(q, s) /\ AtLine(ProcessToken(q, NewLine), s)
<1> DEFINE l == Append(v.partialLineBuffer, t)
<1>1. /\ v \in ScofState /\ v.partialLineBuffer \in Seq(Token) /\ Sound(v, r)
      /\ NewLine \notin Range(v.partialLineBuffer)
  BY DEF AtLine, Sound, ScofState
<1>2. WithPartial(v, q, l) /\ ProcessToken(q, NewLine) = ProcessLine(Cleared(v), l)
  BY <1>1, TokenKept
<1>3. l \in Seq(Token) /\ Trimmed(l) # <<Marker>> /\ NewLine \notin Range(l)
  <2>1. l \in Seq(Token) /\ NewLine \notin Range(l)
    BY <1>1, AppendRange
  <2>2. CASE t # Pad
    BY <1>1, <2>1, <2>2, TrimmedOther
  <2>3. CASE t = Pad
    <3>1. l = <<Pad>>
      BY <2>3, Literals
    <3> QED
      BY <2>1, <3>1, TrimmedMarker
  <2> QED
    BY <2>2, <2>3
<1> HIDE DEF l
<1>4. Sound(q, s)
  BY <1>1, <1>2, <1>3, SoundFragment
<1> QED
  BY <1>2, <1>4 DEF l

\* The marker.
LEMMA MarkerToken ==
  ASSUME NEW v, NEW r, AtLine(v, r), r.mode # "idle", NEW q, q = ProcessToken(v, Marker),
         NEW s, s = ReadEnding(r)
  PROVE  AtMarker(q, s, <<Marker>>)
<1>1. v \in ScofState /\ v.partialLineBuffer = <<>> /\ v.commandBuffer = <<>>
  BY InStepFacts
<1>2. Marker \in Token /\ Marker # NewLine /\ Append(<<>>, Marker) = <<Marker>>
  BY TokenFacts, Literals
<1>3. WithPartial(v, q, <<Marker>>)
  BY <1>1, <1>2, TokenKept
<1>4. /\ q \in ScofState /\ q.partialLineBuffer = <<Marker>> /\ q.commandBuffer = <<>>
      /\ Cleared(q) = Cleared(v) /\ (InBlock(q) <=> InBlock(v))
  BY <1>1, <1>3 DEF WithPartial, InBlock
<1>5. CASE InBlock(v)
  <2>1. AtLine(FinalizeCurrentFile(Cleared(v)), s)
    BY <1>5, MarkerLine
  <2> QED
    BY <1>4, <1>5, <2>1 DEF AtMarker
<1>6. CASE ~InBlock(v)
  <2>1. AtLine(v, s) /\ Cleared(v) = v
    BY <1>1, <1>6, EndsOutOfBlock DEF Cleared, ScofState
  <2>2. MarkerAtMost(<<Marker>>)
    BY DEF MarkerAtMost, Range
  <2> QED
    BY <1>4, <1>6, <2>1, <2>2 DEF AtMarker
<1> QED
  BY <1>5, <1>6

\* The beginning of a line of text that looks like the marker.
LEMMA LookalikeToken ==
  ASSUME NEW v, NEW r, AtLine(v, r), r.mode = "file_creation", NEW q, q = ProcessToken(v, Marker)
  PROVE  AtLookalike(q, r)
<1>1. v \in ScofState /\ v.partialLineBuffer = <<>> /\ v.commandBuffer = <<>>
  BY InStepFacts
<1>2. Marker \in Token /\ Marker # NewLine /\ Append(<<>>, Marker) = <<Marker>>
  BY TokenFacts, Literals
<1>3. WithPartial(v, q, <<Marker>>)
  BY <1>1, <1>2, TokenKept
<1>4. Cleared(q) = v
  BY <1>1, <1>3 DEF WithPartial, Cleared, ScofState
<1> QED
  BY <1>1, <1>3, <1>4 DEF AtLookalike, WithPartial

\* The rest of it, which is text in the block or after it was cut short.
LEMMA LookalikeGoesOn ==
  ASSUME NEW v, NEW r, AtLookalike(v, r), NEW q, q = ProcessToken(v, Text),
         NEW s, AfterText(r, s, <<Marker, Text>>)
  PROVE  Sound(q, s) /\ AtLine(ProcessToken(q, NewLine), s)
<1> DEFINE u == Cleared(v)
<1> DEFINE x == v.partialLineBuffer
<1> DEFINE l == Append(x, Text)
<1>1. /\ v \in ScofState /\ AtLine(u, r) /\ r.mode = "file_creation" /\ v.commandBuffer = <<>>
      /\ x \in {<<>>, <<Marker>>} /\ (InBlock(v) => x = <<Marker>>) /\ x \in Seq(Token)
  BY DEF AtLookalike, ScofState
<1>2. /\ Text \in Token /\ Marker \in Token /\ Text # NewLine /\ Marker # NewLine
      /\ Append(<<>>, Text) = <<Text>> /\ Append(<<Marker>>, Text) = <<Marker, Text>>
  BY TokenFacts, Literals
<1>3. l \in Said /\ (InBlock(v) => l = <<Marker, Text>>)
  BY <1>1, <1>2 DEF Said
<1>4. l \in Seq(Token) /\ Trimmed(l) # <<Marker>>
  BY <1>3, TrimmedSaid
<1>5. Range(l) = Range(x) \cup {Text} /\ Range(x) \subseteq {Marker}
  <2>1. Range(<<>>) = {} /\ Range(<<Marker>>) = {Marker}
    BY DEF Range
  <2> QED
    BY <1>1, <1>2, <2>1, AppendRange
<1>6. WithPartial(v, q, l) /\ ProcessToken(q, NewLine) = ProcessLine(u, l)
  BY <1>1, <1>2, TokenKept
<1>7. WithPartial(v, u, <<>>)
  BY <1>1, ClearedFacts
<1> HIDE DEF u, x, l
<1>8. /\ Cleared(u) = u /\ u.commandBuffer = <<>> /\ (InBlock(u) <=> InBlock(v)) /\ u \in ScofState
      /\ WithPartial(u, q, l)
  BY <1>1, <1>6, <1>7 DEF WithPartial, InBlock, u
<1>9. /\ s \in Script /\ s.mode = r.mode /\ s.file = r.file /\ s.files = r.files /\ s.installs = r.installs
      /\ s.written = r.written /\ s.due = r.due /\ s.lostSync = r.lostSync /\ s.repatched = r.repatched
      /\ s.spoilt = r.spoilt
  BY DEF AfterText
<1>10. AtLine(ProcessLine(u, l), s)
  <2>1. CASE InBlock(v)
    BY <1>1, <1>3, <1>8, <2>1, TextLine
  <2>2. CASE ~InBlock(v)
    <3>1. Range(l) \subseteq {Pad, Marker, Text, Added}
      BY <1>5
    <3> QED
      BY <1>1, <1>4, <1>8, <1>9, <2>2, <3>1, OutOfBlock
  <2> QED
    BY <2>1, <2>2
<1>11. Sound(u, r) /\ Accounted(u, r) /\ r \in Script /\ (s.mode = "idle" <=> s.file = NoFile)
  BY <1>1, <1>9 DEF AtLine, Sound
<1>12. Accounted(u, s)
  BY <1>8, <1>9, <1>11, StillAccounted
<1>13. NewLine \notin Range(l)
  BY <1>2, <1>5
<1>14. Sound(q, s)
  BY <1>4, <1>8, <1>9, <1>11, <1>12, <1>13, SoundFragment
<1> QED
  BY <1>6, <1>10, <1>14

\* White space after the marker.
LEMMA PadAfterMarker ==
  ASSUME NEW v, NEW r, AtMarker(v, r, <<Marker>>), NEW q, q = ProcessToken(v, Pad)
  PROVE  AtMarker(q, r, <<Marker, Pad>>)
<1> DEFINE x == v.partialLineBuffer
<1>1. v \in ScofState /\ x \in Seq(Token)
  BY DEF AtMarker, ScofState
<1>2. Pad \in Token /\ Pad # NewLine /\ Append(<<Marker>>, Pad) = <<Marker, Pad>>
  BY TokenFacts, Literals
<1>3. WithPartial(v, q, Append(x, Pad))
  BY <1>1, <1>2, TokenKept
<1>4. /\ q \in ScofState /\ Cleared(q) = Cleared(v) /\ (InBlock(q) <=> InBlock(v))
      /\ q.partialLineBuffer = Append(x, Pad) /\ q.commandBuffer = <<>>
  BY <1>3 DEF WithPartial, InBlock, AtMarker
<1>5. MarkerAtMost(x) => MarkerAtMost(Append(x, Pad))
  BY <1>1, <1>2, AppendRange DEF MarkerAtMost
<1>6. CASE InBlock(v)
  BY <1>2, <1>4, <1>6 DEF AtMarker
<1>7. CASE ~InBlock(v)
  BY <1>4, <1>5, <1>7 DEF AtMarker
<1> QED
  BY <1>6, <1>7

\* The end of the line of the marker.
LEMMA EndOfMarker ==
  ASSUME NEW v, NEW r, NEW c \in {<<Marker>>, <<Marker, Pad>>}, AtMarker(v, r, c),
         NEW q, q = ProcessToken(v, NewLine)
  PROVE  AtLine(q, r)
<1> DEFINE x == v.partialLineBuffer
<1> DEFINE u == Cleared(v)
<1>1. q = ProcessLine(u, x) /\ v \in ScofState
  BY DEF ProcessToken, Cleared, AtMarker
<1>2. WithPartial(v, u, <<>>)
  BY <1>1, ClearedFacts
<1>3. u.currentFile = v.currentFile
  BY <1>2 DEF WithPartial
<1>4. CASE InBlock(v)
  <2>1. x = c /\ AtLine(FinalizeCurrentFile(u), r) /\ u.currentFile # NoFile
    BY <1>3, <1>4 DEF AtMarker, InBlock
  <2>2. Trimmed(x) = <<Marker>>
    BY <2>1, TrimmedMarker
  <2> HIDE DEF u, x
  <2>3. q = FinalizeCurrentFile(u)
    BY <1>1, <2>1, <2>2 DEF ProcessLine
  <2> QED
    BY <2>1, <2>3
<1>5. CASE ~InBlock(v)
  <2>1. /\ Range(x) \subseteq {Pad, Marker, Text, Added} /\ x \in Seq(Token)
        /\ AtLine(u, r) /\ ~InBlock(u) /\ u.commandBuffer = <<>> /\ Cleared(u) = u /\ r \in Script
    BY <1>1, <1>2, <1>5 DEF AtMarker, MarkerAtMost, InBlock, WithPartial, AtLine, Sound, ScofState
  <2> HIDE DEF u, x
  <2> QED
    BY <1>1, <2>1, OutOfBlock
<1> QED
  BY <1>4, <1>5

\* The first tokens of a line.
LEMMA LineStarts ==
  ASSUME NEW w \in Seq(Token), NEW a \in Token, NEW b \in Token, Len(w) >= 2, w[1] = a, w[2] = b
  PROVE  SubSeq(w, 1, 1) = <<a>> /\ SubSeq(w, 1, 2) = <<a, b>>
<1>1. SubSeq(w, 1, 1) = <<a>>
  <2> DEFINE x == SubSeq(w, 1, 1)
  <2> DEFINE y == <<a>>
  <2>1. x \in Seq(Token) /\ Len(x) = 1 /\ x[1] = a
    OBVIOUS
  <2>2. y \in Seq(Token) /\ Len(y) = 1 /\ y[1] = a
    OBVIOUS
  <2> HIDE DEF x, y
  <2>3. \A i \in 1 .. Len(x) : x[i] = y[i]
    BY <2>1, <2>2
  <2>4. x = y
    BY <2>1, <2>2, <2>3, SeqEqual
  <2> QED
    BY <2>4 DEF x, y
<1>2. SubSeq(w, 1, 2) = <<a, b>>
  <2> DEFINE x == SubSeq(w, 1, 2)
  <2> DEFINE y == <<a, b>>
  <2>1. x \in Seq(Token) /\ Len(x) = 2 /\ x[1] = a /\ x[2] = b
    OBVIOUS
  <2>2. y \in Seq(Token) /\ Len(y) = 2 /\ y[1] = a /\ y[2] = b
    OBVIOUS
  <2> HIDE DEF x, y
  <2>3. \A i \in 1 .. Len(x) : x[i] = y[i]
    BY <2>1, <2>2
  <2>4. x = y
    BY <2>1, <2>2, <2>3, SeqEqual
  <2> QED
    BY <2>4 DEF x, y
<1> QED
  BY <1>1, <1>2, Zenon

\* The two lines that end a block.
LEMMA EndingFacts ==
  ASSUME NEW w
  PROVE  /\ w = <<Marker, NewLine>> =>
              w \in Seq(Token) /\ Len(w) = 2 /\ w[1] = Marker /\ w[2] = NewLine /\ SubSeq(w, 1, 1) = <<Marker>>
         /\ w = <<Marker, Pad, NewLine>> =>
              /\ w \in Seq(Token) /\ Len(w) = 3 /\ w[1] = Marker /\ w[2] = Pad /\ w[3] = NewLine
              /\ SubSeq(w, 1, 1) = <<Marker>> /\ SubSeq(w, 1, 2) = <<Marker, Pad>>
<1>0. Marker \in Token /\ Pad \in Token /\ NewLine \in Token
  BY TokenFacts
<1>1. ASSUME w = <<Marker, NewLine>>
      PROVE  w \in Seq(Token) /\ Len(w) = 2 /\ w[1] = Marker /\ w[2] = NewLine /\ SubSeq(w, 1, 1) = <<Marker>>
  <2>1. w \in Seq(Token) /\ Len(w) = 2 /\ w[1] = Marker /\ w[2] = NewLine
    BY <1>0, <1>1
  <2>2. Len(w) >= 2
    BY <2>1
  <2> QED
    BY <1>0, <2>1, <2>2, LineStarts, Zenon
<1>2. ASSUME w = <<Marker, Pad, NewLine>>
      PROVE  /\ w \in Seq(Token) /\ Len(w) = 3 /\ w[1] = Marker /\ w[2] = Pad /\ w[3] = NewLine
             /\ SubSeq(w, 1, 1) = <<Marker>> /\ SubSeq(w, 1, 2) = <<Marker, Pad>>
  <2>1. w \in Seq(Token) /\ Len(w) = 3 /\ w[1] = Marker /\ w[2] = Pad /\ w[3] = NewLine
    BY <1>0, <1>2
  <2>2. Len(w) >= 2
    BY <2>1
  <2> QED
    BY <1>0, <2>1, <2>2, LineStarts, Zenon
<1> QED
  BY <1>1, <1>2

\* The newline adds nothing.
LEMMA ReadAtEnd ==
  ASSUME NEW r, NEW w, NEW n, w[n] = NewLine
  PROVE  ReadUpTo(r, w, n) = r
  BY DEF ReadUpTo, Says

\* The line of text that looks like the marker.
LEMMA LookalikeFacts ==
  ASSUME NEW w \in Lookalikes
  PROVE  /\ w = <<Marker, Text, NewLine>> /\ w \in Seq(Token)
         /\ Len(w) = 3 /\ w[1] = Marker /\ w[2] = Text /\ w[3] = NewLine
         /\ w \notin Endings /\ w \notin Creations \cup Patches /\ \A f \in File : w # TwoLines(f)
<1>1. w = <<Marker, Text, NewLine>>
  BY DEF Lookalikes
<1>2. Marker \in Token /\ Text \in Token /\ NewLine \in Token /\ Text # Pad /\ Text # NewLine /\ Marker # CatHere
  BY TokenFacts
<1>3. w \in Seq(Token) /\ Len(w) = 3 /\ w[1] = Marker /\ w[2] = Text /\ w[3] = NewLine
  BY <1>1, <1>2
<1>4. w \notin Endings
  BY <1>2, <1>3 DEF Endings
<1>5. \A x \in Creations \cup Patches : x[1] # Marker
  BY TokenFacts DEF Creations, Patches
<1>6. \A f \in File : TwoLines(f)[1] # Marker
  BY TokenFacts DEF TwoLines
<1> QED
  BY <1>1, <1>3, <1>4, <1>5, <1>6

\* The kinds of lines.
LEMMA LineKinds ==
  /\ \A f \in File : \A w \in {OneLine(f), TwoLines(f), PatchLine(f)} :
        w \in Creations \cup Patches /\ w \in AnyLine \ Endings
  /\ \A w \in Creations \cup Patches : \E f \in File : w \in {OneLine(f), TwoLines(f), PatchLine(f)}
  /\ \A t \in {InstallCommand, Text, Added, Pad} : <<t, NewLine>> \in AnyLine \ Endings
  /\ Lookalikes \subseteq AnyLine \ Endings
  /\ \A w \in AnyLine : w \in Seq(Token) /\ Len(w) \in 2 .. 4 /\ w[Len(w)] = NewLine
<1>1. /\ AnyLine = Creations \cup Patches \cup Endings \cup Lookalikes
                   \cup {<<t, NewLine>> : t \in {InstallCommand, Text, Added, Pad}}
  <2>1. Lines("idle") = Creations \cup Patches \cup {<<InstallCommand, NewLine>>}
    BY DEF Lines
  <2>2. Lines("file_creation") = Endings \cup Lookalikes \cup {<<Text, NewLine>>, <<Pad, NewLine>>}
    BY DEF Lines
  <2>3. Lines("diff_patch") = Endings \cup {<<Added, NewLine>>}
    BY DEF Lines
  <2>4. AnyLine = Lines("idle") \cup Lines("file_creation") \cup Lines("diff_patch")
    BY DEF AnyLine
  <2> QED
    BY <2>1, <2>2, <2>3, <2>4
<1>2. \A w \in Creations \cup Patches : \E f \in File : w \in {OneLine(f), TwoLines(f), PatchLine(f)}
  BY DEF Creations, Patches, OneLine, TwoLines, PatchLine
<1>3. \A f \in File : \A w \in {OneLine(f), TwoLines(f), PatchLine(f)} : w \in Creations \cup Patches
  BY DEF Creations, Patches, OneLine, TwoLines, PatchLine
<1>4. \A f \in File : \A w \in {OneLine(f), TwoLines(f), PatchLine(f)} : w[1] # Marker
  BY TokenFacts DEF OneLine, TwoLines, PatchLine
<1>5. \A w \in Endings : w[1] = Marker
  BY DEF Endings
<1>6. \A t \in {InstallCommand, Text, Added, Pad} : <<t, NewLine>>[1] # Marker
  BY TokenFacts
<1>7. ASSUME NEW f \in File, NEW w \in {OneLine(f), TwoLines(f), PatchLine(f)}
      PROVE  w \in Seq(Token) /\ Len(w) \in 2 .. 4 /\ w[Len(w)] = NewLine
  <2>1. Cat(f) \in Token /\ Patch(f) \in Token /\ Here \in Token /\ CatHere \in Token /\ NewLine \in Token
    BY TokenFacts
  <2>2. /\ OneLine(f) \in Seq(Token) /\ Len(OneLine(f)) = 3 /\ OneLine(f)[3] = NewLine
        /\ PatchLine(f) \in Seq(Token) /\ Len(PatchLine(f)) = 3 /\ PatchLine(f)[3] = NewLine
        /\ TwoLines(f) \in Seq(Token) /\ Len(TwoLines(f)) = 4 /\ TwoLines(f)[4] = NewLine
    BY <2>1 DEF OneLine, TwoLines, PatchLine
  <2>3. CASE w = OneLine(f)
    <3>1. w \in Seq(Token) /\ Len(w) = 3 /\ w[3] = NewLine
      BY <2>2, <2>3, Zenon
    <3> QED
      BY <3>1
  <2>4. CASE w = PatchLine(f)
    <3>1. w \in Seq(Token) /\ Len(w) = 3 /\ w[3] = NewLine
      BY <2>2, <2>4, Zenon
    <3> QED
      BY <3>1
  <2>5. CASE w = TwoLines(f)
    <3>1. w \in Seq(Token) /\ Len(w) = 4 /\ w[4] = NewLine
      BY <2>2, <2>5, Zenon
    <3> QED
      BY <3>1
  <2> QED
    BY <2>3, <2>4, <2>5
<1>8. ASSUME NEW t \in {InstallCommand, Text, Added, Pad, Marker}, NEW w, w = <<t, NewLine>>
      PROVE  w \in Seq(Token) /\ Len(w) = 2 /\ w[2] = NewLine
  <2>1. t \in Token /\ NewLine \in Token
    BY TokenFacts
  <2> QED
    BY <1>8, <2>1
<1>9. ASSUME NEW w, w = <<Marker, Pad, NewLine>>
      PROVE  w \in Seq(Token) /\ Len(w) = 3 /\ w[3] = NewLine
  BY <1>9, EndingFacts
<1>10. ASSUME NEW w \in AnyLine PROVE w \in Seq(Token) /\ Len(w) \in 2 .. 4 /\ w[Len(w)] = NewLine
  <2>1. CASE w \in Creations \cup Patches
    BY <1>2, <1>7, <2>1
  <2>2. CASE \E t \in {InstallCommand, Text, Added, Pad, Marker} : w = <<t, NewLine>>
    BY <1>8, <2>2
  <2>3. CASE w = <<Marker, Pad, NewLine>>
    BY <1>9, <2>3
  <2>4. CASE w \in Lookalikes
    <3>1. w \in Seq(Token) /\ Len(w) = 3 /\ w[3] = NewLine
      BY <2>4, LookalikeFacts
    <3> QED
      BY <3>1
  <2> QED
    BY <1>1, <2>1, <2>2, <2>3, <2>4 DEF Endings
<1>11. \A f \in File : \A w \in {OneLine(f), TwoLines(f), PatchLine(f)} :
         w \in Creations \cup Patches /\ w \in AnyLine \ Endings
  BY <1>1, <1>3, <1>4, <1>5
<1>12. \A t \in {InstallCommand, Text, Added, Pad} : <<t, NewLine>> \in AnyLine \ Endings
  BY <1>1, <1>5, <1>6
<1>13. Lookalikes \subseteq AnyLine \ Endings
  BY <1>1, LookalikeFacts
<1> QED
  BY <1>2, <1>10, <1>11, <1>12, <1>13

\* The first token of a line.
LEMMA LineBegins ==
  ASSUME NEW v, NEW r, AtLine(v, r), NEW w \in Lines(r.mode),
         NEW q, q = ProcessToken(v, w[1]), NEW s, s = ReadUpTo(r, w, 1)
  PROVE  InLine(q, s, w, 1)
<1>1. /\ v \in ScofState /\ r \in Script /\ Accounted(v, r)
      /\ r.mode \in {"idle", "file_creation", "diff_patch"} /\ (r.mode = "idle" <=> r.file = NoFile)
      /\ r.mode # "idle" => v.partialLineBuffer = <<>>
  BY InStepFacts DEF AtLine, Sound
<1>2. ASSUME NEW f \in File, w \in {OneLine(f), TwoLines(f), PatchLine(f)}, r.mode = "idle"
      PROVE  InLine(q, s, w, 1)
  <2>1. s = r
    BY <1>2, ReadingCommands
  <2>2. w[1] \in Token /\ w[1] # NewLine
    <3>1. w[1] \in {Cat(f), CatHere}
      BY <1>2 DEF OneLine, TwoLines, PatchLine
    <3> QED
      BY <3>1, TokenFacts
  <2>3. AfterFirst(q, r, w[1])
    BY <2>2, FirstToken
  <2>4. w \in Creations \cup Patches
    BY <1>2, LineKinds
  <2> QED
    BY <1>2, <2>1, <2>3, <2>4 DEF InLine
<1>3. ASSUME NEW t \in {InstallCommand, Text, Added, Pad}, w = <<t, NewLine>>,
             Sound(q, s), AtLine(ProcessToken(q, NewLine), s)
      PROVE  InLine(q, s, w, 1)
  <2>1. w \in AnyLine \ Endings
    BY <1>3, LineKinds
  <2>2. 1 = Len(w) - 1
    BY <1>3
  <2> QED
    BY <1>3, <2>1, <2>2 DEF InLine
<1>4. CASE r.mode = "idle" /\ w = <<InstallCommand, NewLine>>
  <2>1. w[1] = InstallCommand
    BY <1>4
  <2>2. AfterInstall(r, s)
    <3>1. s = [r EXCEPT !.installs = IF r.lostSync THEN @ ELSE {InstallCommand}]
      BY <1>4, ReadingWords, ReadFacts
    <3> QED
      BY <1>1, <3>1, ReadInstallFacts
  <2>3. /\ AtLine(ProcessLine(Cleared(v), Append(v.partialLineBuffer, InstallCommand)), s)
        /\ s \in Script /\ s.mode = "idle" /\ Accounted(v, s)
    BY <1>4, <2>2, InstallLine
  <2>4. s.file = NoFile
    BY <1>1, <1>4, <2>2 DEF AfterInstall
  <2>5. InstallCommand \in Token /\ InstallCommand # NewLine /\ InstallCommand # Marker /\ InstallCommand # Pad
    BY TokenFacts
  <2>6. Sound(q, s) /\ AtLine(ProcessToken(q, NewLine), s)
    BY <2>1, <2>3, <2>4, <2>5, OnlyToken
  <2> QED
    BY <1>3, <1>4, <2>6
<1>5. ASSUME NEW t \in {Text, Added}, r.mode = IF t = Text THEN "file_creation" ELSE "diff_patch", w = <<t, NewLine>>
      PROVE  InLine(q, s, w, 1)
  <2>1. w[1] = t /\ r.mode # "idle" /\ t \in Token /\ t # NewLine /\ t # Marker /\ t # Pad
    BY <1>5, TokenFacts
  <2>2. Append(v.partialLineBuffer, t) = <<t>>
    BY <1>1, <2>1, Literals
  <2>3. AfterText(r, s, <<t>>)
    <3>1. s = ReadLine(r, <<t, NewLine>>)
      BY <1>5, ReadingWords
    <3>2. s = [r EXCEPT !.contents = Append(@, <<t>>)]
      BY <3>1, ReadFacts
    <3>3. <<t>> \in Seq(Token)
      BY <2>1
    <3> QED
      BY <1>1, <3>2, <3>3, ReadTextFacts
  <2>4. AtLine(ProcessLine(Cleared(v), <<t>>), s) /\ Accounted(v, s)
    <3>1. \/ <<t>> \in Said /\ r.mode = "file_creation"
          \/ <<t>> = <<Added>> /\ r.mode = "diff_patch"
      BY <1>5 DEF Said
    <3> QED
      BY <2>3, <3>1, TextLine
  <2>5. s \in Script /\ (s.mode = "idle" <=> s.file = NoFile)
    BY <1>1, <2>3 DEF AfterText
  <2>6. Sound(q, s) /\ AtLine(ProcessToken(q, NewLine), s)
    BY <2>1, <2>2, <2>4, <2>5, OnlyToken
  <2> QED
    BY <1>3, <1>5, <2>6
<1>6. CASE r.mode = "file_creation" /\ w = <<Pad, NewLine>>
  <2>1. w[1] = Pad /\ Pad \in Token /\ Pad # NewLine /\ Pad # Marker
    BY <1>6, TokenFacts
  <2>2. Append(v.partialLineBuffer, Pad) = <<Pad>>
    BY <1>1, <1>6, <2>1, Literals
  <2>3. s = r
    BY <1>6, ReadingWords
  <2>4. AtLine(ProcessLine(Cleared(v), <<Pad>>), r)
    BY <1>6, PadLine
  <2>5. Sound(q, s) /\ AtLine(ProcessToken(q, NewLine), s)
    BY <1>1, <1>6, <2>1, <2>2, <2>3, <2>4, OnlyToken
  <2> QED
    BY <1>3, <1>6, <2>5
<1>7. CASE r.mode # "idle" /\ w \in Endings
  <2>0. Len(w) \in 2 .. 3 /\ w[1] = Marker /\ SubSeq(w, 1, 1) = <<Marker>>
    BY <1>7, EndingFacts DEF Endings
  <2>1. w[1] = Marker /\ s = ReadEnding(r)
    BY <1>7, <2>0, ReadingWords
  <2>2. AtMarker(q, s, <<Marker>>)
    BY <1>7, <2>1, MarkerToken
  <2>3. 1 \in 1 .. Len(w) - 1 /\ SubSeq(w, 1, 1) = <<Marker>>
    BY <2>0
  <2> QED
    BY <1>7, <2>2, <2>3 DEF InLine
<1>look. CASE r.mode = "file_creation" /\ w \in Lookalikes
  <2>1. w[1] = Marker /\ s = r
    BY <1>look, LookalikeFacts, ReadingWords
  <2>2. AtLookalike(q, s)
    BY <1>look, <2>1, LookalikeToken
  <2> QED
    BY <1>look, <2>2 DEF InLine
<1>8. CASE r.mode = "idle"
  <2>1. w \in Creations \cup Patches \/ w = <<InstallCommand, NewLine>>
    BY <1>8 DEF Lines
  <2> QED
    BY <1>2, <1>4, <1>8, <2>1, LineKinds
<1>9. CASE r.mode = "file_creation"
  <2>1. w \in Endings \/ w \in Lookalikes \/ w = <<Text, NewLine>> \/ w = <<Pad, NewLine>>
    BY <1>9 DEF Lines
  <2> QED
    BY <1>5, <1>6, <1>7, <1>look, <1>9, <2>1
<1>10. CASE r.mode = "diff_patch"
  <2>1. w \in Endings \/ w = <<Added, NewLine>>
    BY <1>10 DEF Lines
  <2>2. Added # Text
    BY TokenFacts
  <2> QED
    BY <1>5, <1>7, <1>10, <2>1, <2>2
<1> QED
  BY <1>1, <1>8, <1>9, <1>10

\* One more token of a line.
LEMMA LineGoesOn ==
  ASSUME NEW v, NEW r, NEW w, NEW n \in Nat, InLine(v, r, w, n), n < Len(w), Len(w) \in Nat,
         NEW q, q = ProcessToken(v, w[n + 1]), NEW s, s = ReadUpTo(r, w, n + 1)
  PROVE  InLine(q, s, w, n + 1)
<1>1. CASE n = 0 /\ w \in Lines(r.mode) /\ AtLine(v, r)
  BY <1>1, LineBegins
<1>2. CASE n = 1 /\ w \in Creations \cup Patches /\ r.mode = "idle" /\ AfterFirst(v, r, w[1])
  <2>1. PICK f \in File : w \in {OneLine(f), TwoLines(f), PatchLine(f)}
    BY <1>2, LineKinds
  <2>2. n + 1 = 2 /\ w \in AnyLine \ Endings
    BY <1>2, <2>1, LineKinds
  <2>3. CASE w = OneLine(f)
    <3>1. w[1] = Cat(f) /\ w[2] = Here /\ Len(w) = 3
      BY <2>3 DEF OneLine
    <3>2. s = ReadOpening(r, "file_creation", f)
      BY <2>2, <2>3, ReadingCommands
    <3>3. Sound(q, s) /\ AtLine(ProcessToken(q, NewLine), s)
      BY <1>2, <2>2, <3>1, <3>2, SecondToken
    <3> QED
      BY <2>2, <3>1, <3>3 DEF InLine
  <2>4. CASE w = PatchLine(f)
    <3>1. w[1] = CatHere /\ w[2] = Patch(f) /\ Len(w) = 3
      BY <2>4 DEF PatchLine
    <3>2. s = ReadOpening(r, "diff_patch", f)
      BY <2>2, <2>4, ReadingCommands
    <3>3. Sound(q, s) /\ AtLine(ProcessToken(q, NewLine), s)
      BY <1>2, <2>2, <3>1, <3>2, SecondToken
    <3> QED
      BY <2>2, <3>1, <3>3 DEF InLine
  <2>5. CASE w = TwoLines(f)
    <3>1. w[1] = Cat(f) /\ w[2] = NewLine
      BY <2>5 DEF TwoLines
    <3>2. s = r
      BY <2>2, <2>5, ReadingCommands
    <3>3. HalfWay(q, r, f)
      BY <1>2, <2>2, <3>1, EndOfFirstHalf
    <3> QED
      BY <2>2, <2>5, <3>2, <3>3 DEF InLine
  <2> QED
    BY <2>1, <2>3, <2>4, <2>5
<1>3. CASE n = 2 /\ \E f \in File : w = TwoLines(f) /\ HalfWay(v, r, f)
  <2>1. PICK f \in File : w = TwoLines(f) /\ HalfWay(v, r, f)
    BY <1>3
  <2>2. w[3] = Here /\ Len(w) = 4 /\ n + 1 = 3
    BY <1>3, <2>1 DEF TwoLines
  <2>3. s = ReadOpening(r, "file_creation", f)
    BY <2>1, <2>2, ReadingCommands
  <2>4. Sound(q, s) /\ AtLine(ProcessToken(q, NewLine), s)
    BY <2>1, <2>2, <2>3, SecondHalfToken
  <2>5. w \in AnyLine \ Endings
    BY <2>1, LineKinds
  <2> QED
    BY <2>2, <2>4, <2>5 DEF InLine
<1>4. CASE n = Len(w) - 1 /\ w \in AnyLine \ Endings /\ Sound(v, r) /\ AtLine(ProcessToken(v, NewLine), r)
  <2>1. n + 1 = Len(w) /\ w[Len(w)] = NewLine
    BY <1>4, LineKinds
  <2>2. s = r
    BY <2>1, ReadAtEnd
  <2>3. AtLine(q, s)
    BY <1>4, <2>1, <2>2
  <2> QED
    BY <2>1, <2>3 DEF InLine
<1>5. CASE n \in 1 .. Len(w) - 1 /\ w \in Endings /\ AtMarker(v, r, SubSeq(w, 1, n))
  <2>1. CASE w = <<Marker, NewLine>>
    <3>1. Len(w) = 2 /\ w[2] = NewLine /\ n = 1 /\ SubSeq(w, 1, 1) = <<Marker>> /\ n + 1 = Len(w)
      BY <1>5, <2>1, EndingFacts
    <3>2. s = r
      BY <3>1, ReadAtEnd
    <3>3. AtLine(q, r)
      BY <1>5, <3>1, EndOfMarker
    <3> QED
      BY <3>1, <3>2, <3>3 DEF InLine
  <2>2. CASE w = <<Marker, Pad, NewLine>> /\ n = 1
    <3>1. Len(w) = 3 /\ w[2] = Pad /\ SubSeq(w, 1, 1) = <<Marker>> /\ SubSeq(w, 1, 2) = <<Marker, Pad>>
      BY <2>2, EndingFacts
    <3>2. s = r
      BY <2>2, ReadingWords
    <3>3. AtMarker(q, r, <<Marker, Pad>>)
      <4>1. AtMarker(v, r, <<Marker>>) /\ q = ProcessToken(v, Pad)
        <5>1. AtMarker(v, r, SubSeq(w, 1, n)) /\ n = 1 /\ n + 1 = 2
          BY <1>5, <2>2
        <5> QED
          BY <3>1, <5>1
      <4> QED
        BY <4>1, PadAfterMarker
    <3>4. n + 1 = 2 /\ 2 \in 1 .. Len(w) - 1
      BY <2>2, <3>1
    <3> QED
      BY <1>5, <3>1, <3>2, <3>3, <3>4 DEF InLine
  <2>3. CASE w = <<Marker, Pad, NewLine>> /\ n # 1
    <3>1. Len(w) = 3 /\ n = 2 /\ w[3] = NewLine /\ SubSeq(w, 1, 2) = <<Marker, Pad>> /\ n + 1 = Len(w)
      BY <1>5, <2>3, EndingFacts
    <3>2. s = r
      BY <3>1, ReadAtEnd
    <3>3. AtLine(q, r)
      BY <1>5, <3>1, EndOfMarker
    <3> QED
      BY <3>1, <3>2, <3>3 DEF InLine
  <2> QED
    BY <1>5, <2>1, <2>2, <2>3 DEF Endings
<1>6. CASE n = 1 /\ w \in Lookalikes /\ AtLookalike(v, r)
  <2>1. /\ w = <<Marker, Text, NewLine>> /\ w[2] = Text /\ Len(w) = 3 /\ n + 1 = 2 /\ n + 1 = Len(w) - 1
        /\ w \in AnyLine \ Endings
    BY <1>6, LookalikeFacts, LineKinds
  <2>2. s = [r EXCEPT !.contents = Append(@, <<Marker, Text>>)]
    <3>1. s = ReadUpTo(r, w, 2)
      BY <2>1
    <3> QED
      BY <2>1, <3>1, ReadingWords, ReadFacts
  <2>3. r \in Script /\ <<Marker, Text>> \in Seq(Token)
    BY <1>6, TokenFacts DEF AtLookalike, AtLine, Sound
  <2>4. AfterText(r, s, <<Marker, Text>>)
    BY <2>2, <2>3, ReadTextFacts
  <2>5. Sound(q, s) /\ AtLine(ProcessToken(q, NewLine), s)
    BY <1>6, <2>1, <2>4, LookalikeGoesOn
  <2> QED
    BY <2>1, <2>5 DEF InLine
<1> QED
  BY <1>1, <1>2, <1>3, <1>4, <1>5, <1>6 DEF InLine

\* The marker closes the block although its line is not complete.
LEMMA ClosesAtMarker ==
  ASSUME NEW v, NEW r, NEW w, NEW n, InLine(v, r, w, n), NEW q, q = CloseAtMarker(v),
         NEW s, s = ReadCut(r, [text |-> w, sent |-> n])
  PROVE  InLine(q, s, w, n) /\ Sound(q, s) /\ r \in Script
<1>0. r \in Script
  BY DEF InLine, AtLine, Sound, HalfWay, AfterFirst, AtMarker, AtLookalike
<1>1. ASSUME Sound(v, r) PROVE q = v
  BY <1>1 DEF CloseAtMarker, Sound, InBlock
<1>same. w \notin Lookalikes \/ n # 1 => s = r
  BY DEF ReadCut
<1>2. CASE \/ n = Len(w) /\ AtLine(v, r)
           \/ n = 0 /\ w \in Lines(r.mode) /\ AtLine(v, r)
           \/ n = 2 /\ \E f \in File : w = TwoLines(f) /\ HalfWay(v, r, f)
           \/ n = Len(w) - 1 /\ w \in AnyLine \ Endings /\ Sound(v, r) /\ AtLine(ProcessToken(v, NewLine), r)
  <2>1. Sound(v, r)
    BY <1>2 DEF AtLine, HalfWay
  <2>2. w \in Lookalikes => Len(w) = 3
    BY LookalikeFacts
  <2>3. s = r
    BY <1>2, <1>same, <2>2
  <2> QED
    BY <1>0, <1>1, <2>1, <2>3
<1>3. CASE n = 1 /\ w \in Creations \cup Patches /\ r.mode = "idle" /\ AfterFirst(v, r, w[1])
  <2>1. PICK p : /\ AtLine(p, r) /\ v.partialLineBuffer = Append(p.partialLineBuffer, w[1]) /\ w[1] \in Token
                 /\ Cleared(v) = Cleared(p) /\ WithPartial(p, v, v.partialLineBuffer)
    BY <1>3, BeforeFirst
  <2>0. s = r
    BY <1>3, <1>same, LookalikeFacts
  <2>2. w[1] # Marker /\ w[1] # NewLine /\ w[1] # Pad
    <3>1. PICK f \in File : w \in {OneLine(f), TwoLines(f), PatchLine(f)}
      BY <1>3, LineKinds
    <3>2. w[1] \in {Cat(f), CatHere}
      BY <3>1 DEF OneLine, TwoLines, PatchLine
    <3> QED
      BY <3>2, TokenFacts
  <2>3. /\ p \in ScofState /\ r \in Script /\ Sound(p, r) /\ Accounted(p, r) /\ (r.mode = "idle" <=> r.file = NoFile)
        /\ p.partialLineBuffer \in Seq(Token) /\ NewLine \notin Range(p.partialLineBuffer)
    BY <2>1 DEF AtLine, Sound, ScofState
  <2>4. /\ v.partialLineBuffer \in Seq(Token)
        /\ Trimmed(v.partialLineBuffer) # <<Marker>> /\ NewLine \notin Range(v.partialLineBuffer)
    BY <2>1, <2>2, <2>3, AppendRange, TrimmedOther
  <2>5. Sound(v, r)
    BY <2>1, <2>3, <2>4, SoundFragment
  <2> QED
    BY <1>0, <1>1, <2>0, <2>5
<1>4. CASE n \in 1 .. Len(w) - 1 /\ w \in Endings /\ AtMarker(v, r, SubSeq(w, 1, n))
  <2> DEFINE x == v.partialLineBuffer
  <2> DEFINE u == Cleared(v)
  <2> DEFINE c == SubSeq(w, 1, n)
  <2>0. s = r
    BY <1>4, <1>same, LookalikeFacts
  <2>1. v \in ScofState /\ x \in Seq(Token) /\ v.commandBuffer = <<>>
    BY <1>4 DEF AtMarker, ScofState
  <2>2. c \in {<<Marker>>, <<Marker, Pad>>}
    <3>1. CASE w = <<Marker, NewLine>>
      <4>1. Len(w) = 2 /\ SubSeq(w, 1, 1) = <<Marker>>
        BY <3>1, EndingFacts
      <4>2. n = 1
        BY <1>4, <4>1
      <4> QED
        BY <4>1, <4>2
    <3>2. CASE w = <<Marker, Pad, NewLine>>
      <4>1. Len(w) = 3 /\ SubSeq(w, 1, 1) = <<Marker>> /\ SubSeq(w, 1, 2) = <<Marker, Pad>>
        BY <3>2, EndingFacts
      <4>2. n = 1 \/ n = 2
        BY <1>4, <4>1
      <4> QED
        BY <4>1, <4>2
    <3> QED
      BY <1>4, <3>1, <3>2 DEF Endings
  <2>3. WithPartial(v, u, <<>>)
    BY <2>1, ClearedFacts
  <2>4. CASE InBlock(v)
    <3>1. AtMarker(v, r, c) /\ x = c
      BY <1>4, <2>4 DEF AtMarker
    <3>2. Trimmed(x) = <<Marker>>
      BY <2>2, <3>1, TrimmedMarker
    <3>3. q = ProcessToken(v, NewLine)
      BY <2>4, <3>2 DEF CloseAtMarker, ProcessToken, InBlock
    <3>4. AtLine(q, r)
      BY <2>2, <3>1, <3>3, EndOfMarker
    <3>5. u \in ScofState /\ InBlock(u) /\ u.partialLineBuffer = <<>> /\ u.commandBuffer = <<>>
      BY <2>1, <2>3, <2>4 DEF WithPartial, InBlock
    <3>6. q = FinalizeCurrentFile(u)
      <4>1. q = ProcessLine(u, x)
        BY <3>3 DEF ProcessToken, Cleared
      <4> QED
        BY <3>2, <3>5, <4>1 DEF ProcessLine, InBlock
    <3> HIDE DEF u, x, c
    <3>7. q \in ScofState /\ ~InBlock(q) /\ q.partialLineBuffer = <<>> /\ q.commandBuffer = <<>>
      BY <3>5, <3>6, Closes DEF InBlock
    <3>8. Cleared(q) = q
      BY <3>7 DEF Cleared, ScofState
    <3>9. AtMarker(q, r, c)
      BY <3>4, <3>7, <3>8 DEF AtMarker, MarkerAtMost, Range
    <3> QED
      BY <1>0, <1>4, <2>0, <3>4, <3>9 DEF InLine, AtLine, c
  <2>5. CASE ~InBlock(v)
    <3>1. q = v
      BY <2>5 DEF CloseAtMarker, InBlock
    <3>2. MarkerAtMost(x) /\ AtLine(u, r)
      BY <1>4, <2>5 DEF AtMarker
    <3>3. NewLine \notin Range(x)
      BY <3>2, TokenFacts DEF MarkerAtMost
    <3>4. Sound(u, r) /\ r \in Script /\ Accounted(u, r) /\ (r.mode = "idle" <=> r.file = NoFile)
      BY <3>2 DEF AtLine, Sound
    <3>5. ~InBlock(u)
      BY <2>3, <2>5 DEF WithPartial, InBlock
    <3> HIDE DEF u, x
    <3>6. WithPartial(u, v, x)
      BY <2>1, <2>3 DEF WithPartial, x
    <3>7. Sound(v, r)
      BY <2>1, <3>3, <3>4, <3>5, <3>6, SoundFragment
    <3> QED
      BY <1>0, <1>4, <2>0, <3>1, <3>7 DEF InLine
  <2> QED
    BY <2>4, <2>5
<1>5. CASE n = 1 /\ w \in Lookalikes /\ AtLookalike(v, r)
  <2> DEFINE x == v.partialLineBuffer
  <2> DEFINE u == Cleared(v)
  <2>1. /\ v \in ScofState /\ v.commandBuffer = <<>> /\ r.mode = "file_creation" /\ AtLine(u, r)
        /\ x \in {<<>>, <<Marker>>} /\ (InBlock(v) => x = <<Marker>>) /\ x \in Seq(Token)
    BY <1>5 DEF AtLookalike, ScofState
  <2>2. WithPartial(v, u, <<>>)
    BY <2>1, ClearedFacts
  <2> HIDE DEF u, x
  <2>3. /\ u \in ScofState /\ Cleared(u) = u /\ u.partialLineBuffer = <<>> /\ (InBlock(u) <=> InBlock(v))
        /\ WithPartial(u, v, x)
    BY <2>1, <2>2 DEF WithPartial, InBlock, u, x
  <2>4. r.file \in File
    BY <2>1, InStepFacts
  <2>5. AfterCut(r, s)
    <3> DEFINE line == [text |-> w, sent |-> n]
    <3>1. line.text \in Lookalikes /\ line.sent = 1
      BY <1>5
    <3> HIDE DEF line
    <3>2. AfterCut(r, ReadCut(r, line))
      BY <1>0, <2>4, <3>1, ReadCutFacts
    <3> QED
      BY <3>2 DEF line
  <2>6. s \in Script /\ s.mode = "file_creation" /\ s.file = r.file
    BY <2>1, <2>5 DEF AfterCut
  <2>7. AtLookalike(q, s) /\ Sound(q, s)
    <3>1. CASE InBlock(v)
      <4>1. Trimmed(x) = <<Marker>>
        BY <2>1, <3>1, TrimmedMarker
      <4>2. q = ProcessLine(u, x)
        BY <3>1, <4>1 DEF CloseAtMarker, InBlock, Cleared, u, x
      <4>3. q = FinalizeCurrentFile(u)
        BY <2>3, <3>1, <4>1, <4>2 DEF ProcessLine, InBlock
      <4>4. AtLine(q, s) /\ ~InBlock(q) /\ q.partialLineBuffer = <<>> /\ q.commandBuffer = <<>>
        BY <2>1, <2>3, <2>5, <3>1, <4>3, ClosedEarly
      <4>5. q \in ScofState /\ Cleared(q) = q
        BY <4>4 DEF AtLine, Sound, Cleared, ScofState
      <4> QED
        BY <2>6, <4>4, <4>5 DEF AtLookalike, AtLine
    <3>2. CASE ~InBlock(v)
      <4>1. q = v
        BY <3>2 DEF CloseAtMarker, InBlock
      <4>2. AtLine(u, s)
        BY <2>1, <2>3, <2>5, <3>2, CutOutOfBlock
      <4>3. AtLookalike(v, s)
        BY <2>1, <2>6, <3>2, <4>2 DEF AtLookalike, u, x
      <4>4. Sound(u, s) /\ Accounted(u, s) /\ (s.mode = "idle" <=> s.file = NoFile)
        BY <4>2 DEF AtLine, Sound
      <4>5. NewLine \notin Range(x)
        BY <2>1, TokenFacts DEF Range
      <4>6. Sound(v, s)
        BY <2>1, <2>3, <2>6, <3>2, <4>4, <4>5, SoundFragment
      <4> QED
        BY <4>1, <4>3, <4>6
    <3> QED
      BY <3>1, <3>2
  <2> QED
    BY <1>0, <1>5, <2>7 DEF InLine
<1> QED
  BY <1>2, <1>3, <1>4, <1>5 DEF InLine

\* When a line is complete, the next one may begin.
LEMMA LineEnds ==
  ASSUME NEW v, NEW r, NEW w \in AnyLine \cup {<<>>}, InLine(v, r, w, Len(w))
  PROVE  AtLine(v, r)
<1>1. Len(w) \in Nat
  BY LineKinds
<1>2. w \in Creations \cup Patches => Len(w) # 1
  <2>1. ASSUME NEW f \in File, w \in {OneLine(f), TwoLines(f), PatchLine(f)} PROVE Len(w) # 1
    BY <2>1 DEF OneLine, TwoLines, PatchLine
  <2> QED
    BY <2>1, LineKinds
<1>3. \A f \in File : w = TwoLines(f) => Len(w) # 2
  BY DEF TwoLines
<1>4. w \in Lookalikes => Len(w) # 1
  BY LookalikeFacts
<1> QED
  BY <1>1, <1>2, <1>3, <1>4 DEF InLine

\* What is read of an answer that begins again.
Restart(r, lost, sp) ==
    [r EXCEPT !.mode = "idle", !.file = NoFile, !.contents = <<>>, !.installs = {},
              !.lostSync = lost, !.spoilt = sp]

\* It differs from what was read in that.
AfterRestart(r, s, lost, sp) ==
    /\ s \in Script /\ s.mode = "idle" /\ s.file = NoFile /\ s.installs = {} /\ s.lostSync = lost
    /\ s.spoilt = sp /\ s.files = r.files /\ s.written = r.written /\ s.due = r.due
    /\ s.repatched = r.repatched

\* That is what Restart does.
LEMMA RestartFacts ==
  ASSUME NEW r \in Script, NEW sp \in SUBSET (File \cup {Garbled}), NEW lost \in BOOLEAN
  PROVE  AfterRestart(r, Restart(r, lost, sp), lost, sp)
<1> DEFINE s == Restart(r, lost, sp)
<1>1. <<>> \in Seq(Seq(Token))
  OBVIOUS
<1>0. s = [r EXCEPT !.mode = "idle", !.file = NoFile, !.contents = <<>>, !.installs = {},
                    !.lostSync = lost, !.spoilt = sp]
  BY DEF Restart
<1> HIDE DEF s
<1>2. s = [mode |-> "idle", file |-> NoFile, contents |-> <<>>, files |-> r.files, written |-> r.written,
           installs |-> {}, due |-> r.due, lostSync |-> lost, spoilt |-> sp, repatched |-> r.repatched]
  BY <1>0 DEF Script
<1>3. s \in Script
  BY <1>1, <1>2 DEF Script
<1>4. AfterRestart(r, s, lost, sp)
  BY <1>2, <1>3 DEF AfterRestart
<1> QED
  BY <1>4 DEF s

\* An attempt that fails leaves the parser where it is; what begins again is
\* taken for the rest of what it was in.
LEMMA BeginsAgain ==
  ASSUME NEW p, NEW r, Sound(p, r), NEW lost \in BOOLEAN, lost <=> InBlock(p) \/ ~IsBlank(p.partialLineBuffer),
         NEW cut, cut = Names(p.commandBuffer \o p.partialLineBuffer) \cup ({p.currentFile} \ {NoFile}),
         NEW sp, sp = IF lost THEN r.spoilt \cup cut ELSE r.spoilt, NEW s, s = Restart(r, lost, sp)
  PROVE  AtLine(p, s) /\ s \in Script
<1> DEFINE x == p.partialLineBuffer
<1> DEFINE c == p.commandBuffer
<1>1. /\ p \in ScofState /\ r \in Script /\ Accounted(p, r) /\ (InBlock(p) <=> p.currentMode # "idle")
      /\ x \in Seq(Token) /\ c \in Seq(Token) /\ p.currentFile \in File \cup {Garbled, NoFile}
      /\ ~IsCommand(c) /\ NewLine \notin Range(x)
      /\ (InBlock(p) => Trimmed(x) # <<Marker>> /\ c = <<>>)
  BY DEF Sound, ScofState
<1>2. Names(c \o x) = Names(c) \cup Names(x) /\ Names(c) \subseteq File /\ Names(x) \subseteq File
  BY <1>1, NamesFacts
<1>3. cut \in SUBSET (File \cup {Garbled})
  BY <1>1, <1>2
<1>4. sp \in SUBSET (File \cup {Garbled}) /\ r.spoilt \subseteq sp /\ (lost => cut \subseteq sp)
  BY <1>1, <1>3 DEF Script
<1>5. AfterRestart(r, s, lost, sp)
  BY <1>1, <1>4, RestartFacts, Zenon
<1>7. /\ s.mode = "idle" /\ s.file = NoFile /\ s.installs = {} /\ s.lostSync = lost /\ s.spoilt = sp
      /\ s.files = r.files /\ s.written = r.written /\ s.due = r.due /\ s.repatched = r.repatched
      /\ s \in Script
  BY <1>5, Zenon DEF AfterRestart
<1>8. Accounted(p, s)
  <2>1. r.spoilt \subseteq s.spoilt
    BY <1>4, <1>7
  <2> QED
    BY <1>1, <1>7, <2>1, StillAccounted
<1>9. Sound(p, s)
  BY <1>1, <1>7, <1>8 DEF Sound
<1>10. CASE lost
  <2>1. Astray(p, s)
    BY <1>2, <1>4, <1>7, <1>10 DEF Astray
  <2> QED
    BY <1>7, <1>9, <1>10, <2>1 DEF AtLine
<1>11. CASE ~lost
  <2>1. ~InBlock(p) /\ IsBlank(x)
    BY <1>11
  <2>2. InStep(p, s)
    BY <1>1, <1>7, <2>1 DEF InStep, SameContents, InBlock
  <2> QED
    BY <1>7, <1>9, <1>11, <2>2 DEF AtLine
<1> QED
  BY <1>7, <1>10, <1>11

-----------------------------------------------------------------------------
(* The invariant. *)

\* Before anything was received.
LEMMA StreamInitInv == StreamInit => StreamInv
<1> SUFFICES ASSUME StreamInit PROVE StreamInv
  OBVIOUS
<1>1. /\ parser = InitializeSCOFState /\ script = InitialScript /\ ahead = InitialScript
      /\ slice = <<>> /\ writing = NoLine /\ lines = 0 /\ attempt = 0 /\ streaming = TRUE
      /\ generatedFilesMap = [f \in File \cup {Garbled} |-> OriginalContents(f)]
  BY DEF StreamInit
<1>2. <<>> \in Seq(Token) /\ <<>> \in Seq(Seq(Token)) /\ <<>> \in Seq([file : File \cup {Garbled}, contents : Seq(Seq(Token))])
  OBVIOUS
<1>3. \A f \in File \cup {Garbled} : OriginalContents(f) \in Contents /\ AllText(OriginalContents(f))
  BY TokenFacts DEF OriginalContents, Contents, AllText, Said
<1>4. parser \in ScofState
  BY <1>1, <1>2 DEF InitializeSCOFState, ScofState
<1>5. script \in Script
  <2>1. [f \in File |-> OriginalContents(f)] \in [File -> Seq(Seq(Token))]
    BY <1>3 DEF Contents
  <2> QED
    BY <1>1, <1>2, <2>1 DEF InitialScript, Script
<1>6. /\ parser.currentMode = "idle" /\ parser.currentFile = NoFile /\ parser.partialLineBuffer = <<>>
      /\ parser.commandBuffer = <<>> /\ parser.fixedFilePromises = <<>>
      /\ parser.completedFiles = [f \in File \cup {Garbled} |-> NoFile]
  BY <1>1 DEF InitializeSCOFState
<1>7. /\ script.mode = "idle" /\ script.file = NoFile /\ script.installs = {} /\ script.due = {}
      /\ script.lostSync = FALSE /\ script.files = [f \in File |-> OriginalContents(f)]
  BY <1>1 DEF InitialScript
<1>8. Accounted(parser, script)
  <2>1. ASSUME NEW f \in File PROVE NotBlank(Saved(Original, <<>>)[f]) = OriginalContents(f)
    <3>1. Saved(Original, <<>>)[f] = OriginalContents(f)
      BY DEF Saved, Original
    <3> QED
      BY <1>3, <3>1, NotBlankFacts
  <2> QED
    BY <1>6, <1>7, <2>1 DEF Accounted
<1>9. Sound(parser, script)
  BY <1>4, <1>5, <1>6, <1>7, <1>8, StaysSound, ShortLines DEF InBlock
<1>10. AtLine(parser, script)
  <2>1. InStep(parser, script)
    BY <1>6, <1>7, TrimmedMarker DEF InStep, SameContents
  <2> QED
    BY <1>7, <1>9, <2>1 DEF AtLine
<1>11. writing.text = <<>> /\ writing.sent = 0 /\ Len(<<>>) = 0 /\ writing \in [text : Seq(Token), sent : 0 .. 4]
  BY <1>1, <1>2 DEF NoLine
<1>12. InLine(Fed, ahead, writing.text, writing.sent)
  <2>1. Fed = parser
    BY <1>1, NoTokens DEF Fed
  <2> QED
    BY <1>1, <1>10, <1>11, <2>1 DEF InLine
<1>13. generatedFilesMap = Original /\ generatedFilesMap \in [File \cup {Garbled} -> Seq(Seq(Token))]
  BY <1>1, <1>3 DEF Original, Contents
<1>14. StreamTypeOK
  BY <1>1, <1>2, <1>4, <1>5, <1>11, <1>13, StreamAssumption DEF StreamTypeOK
<1>15. AnswerAsWritten /\ attempt < retryLimit
  BY <1>1, StreamAssumption DEF AnswerAsWritten
<1> QED
  BY <1>9, <1>11, <1>12, <1>13, <1>14, <1>15 DEF StreamInv

\* The model begins a line.
LEMMA BeginLineKeeps ==
  ASSUME StreamInv, NEW l \in AnyLine, BeginLine(l)
  PROVE  StreamInv'
<1>1. /\ streaming /\ writing.sent = Len(writing.text) /\ lines < MaxLines /\ l \in Lines(ahead.mode)
      /\ writing' = [text |-> l, sent |-> 0] /\ lines' = lines + 1
      /\ parser' = parser /\ slice' = slice /\ attempt' = attempt /\ streaming' = streaming
      /\ generatedFilesMap' = generatedFilesMap /\ script' = script /\ ahead' = ahead
  BY DEF BeginLine
<1>2. /\ StreamTypeOK /\ writing.text \in AnyLine \cup {<<>>} /\ Sound(parser, script)
      /\ InLine(Fed, ahead, writing.text, writing.sent) /\ generatedFilesMap = Original /\ attempt < retryLimit
  BY <1>1 DEF StreamInv
<1>3. AtLine(Fed, ahead)
  BY <1>1, <1>2, LineEnds
<1>4. writing'.text = l /\ writing'.sent = 0 /\ l \in Seq(Token) /\ Len(l) \in 2 .. 4
  BY <1>1, LineKinds
<1>5. Fed' = Fed
  BY <1>1 DEF Fed
<1>6. InLine(Fed', ahead', writing'.text, writing'.sent)
  BY <1>1, <1>3, <1>4, <1>5 DEF InLine
<1>7. StreamTypeOK'
  BY <1>1, <1>2, <1>4, StreamAssumption DEF StreamTypeOK
<1>8. Sound(parser, script)' /\ (generatedFilesMap = Original)' /\ (attempt < retryLimit)'
  BY <1>1, <1>2 DEF Original
<1>9. AnswerAsWritten'
  BY <1>1 DEF AnswerAsWritten
<1> QED
  BY <1>4, <1>6, <1>7, <1>8, <1>9 DEF StreamInv

\* A token is received, and handed on or kept.
LEMMA StreamEventKeeps ==
  ASSUME StreamInv, NEW handOn \in BOOLEAN, StreamEvent(handOn)
  PROVE  StreamInv'
<1> DEFINE n == writing.sent
<1> DEFINE w == writing.text
<1> DEFINE t == w[n + 1]
<1> DEFINE v == ProcessToken(Fed, t)
<1> DEFINE received == Append(slice, t)
<1> DEFINE read == ReadUpTo(ahead, w, n + 1)
<1>1. /\ streaming /\ n < Len(w) /\ writing' = [writing EXCEPT !.sent = @ + 1]
      /\ lines' = lines /\ attempt' = attempt /\ streaming' = streaming /\ generatedFilesMap' = generatedFilesMap
  BY DEF StreamEvent
<1>2. /\ StreamTypeOK /\ w \in AnyLine \cup {<<>>} /\ Sound(parser, script)
      /\ InLine(Fed, ahead, w, n) /\ generatedFilesMap = Original /\ attempt < retryLimit
  BY <1>1 DEF StreamInv
<1>3. /\ n \in Nat /\ w \in Seq(Token) /\ Len(w) \in 0 .. 4 /\ slice \in Seq(Token) /\ t \in Token
  <2>1. n \in 0 .. 4 /\ w \in Seq(Token) /\ slice \in Seq(Token)
    BY <1>2 DEF StreamTypeOK
  <2>2. Len(w) \in 0 .. 4
    BY <1>2, LineKinds
  <2> QED
    BY <1>1, <2>1, <2>2
<1>4. writing' = [text |-> w, sent |-> n + 1]
  BY <1>1, <1>2 DEF StreamTypeOK
<1>5. \/ HandOn(received) /\ slice' = <<>> /\ ahead' = ReadCut(read, writing') /\ script' = ahead'
      \/ slice' = received /\ ahead' = read /\ parser' = parser /\ script' = script
  <2> DEFINE asRead == IF SaysMore(n + 1) /\ (\A k \in n + 2 .. Len(w) : ~SaysMore(k))
                       THEN ReadLine(ahead, w) ELSE ahead
  <2>1. \/ HandOn(received) /\ slice' = <<>> /\ ahead' = ReadCut(asRead, writing') /\ script' = ahead'
        \/ slice' = received /\ ahead' = asRead /\ parser' = parser /\ script' = script
    BY DEF StreamEvent
  <2>2. \A k : SaysMore(k) <=> Says(w, k)
    BY DEF SaysMore, Says
  <2>3. n + 2 = (n + 1) + 1
    BY <1>3
  <2>4. asRead = read
    BY <2>2, <2>3 DEF ReadUpTo
  <2> QED
    BY <2>1, <2>4
<1> HIDE DEF n, w, t, read
<1>6. InLine(v, read, w, n + 1)
  BY <1>1, <1>2, <1>3, LineGoesOn DEF t, read
<1>7. ProcessTokens(parser, received) = v
  BY <1>3, OneTokenMore DEF Fed
<1>8. received \in Seq(Token)
  BY <1>3
<1> HIDE DEF v, received
<1>9. /\ InLine(CloseAtMarker(v), ReadCut(read, writing'), w, n + 1)
      /\ Sound(CloseAtMarker(v), ReadCut(read, writing')) /\ read \in Script
  BY <1>4, <1>6, ClosesAtMarker
<1>10. /\ InLine(Fed', ahead', w, n + 1) /\ Sound(parser', script') /\ slice' \in Seq(Token) /\ ahead' \in Script
  <2>1. CASE HandOn(received) /\ slice' = <<>> /\ ahead' = ReadCut(read, writing') /\ script' = ahead'
    <3>1. parser' = CloseAtMarker(v)
      BY <1>7, <2>1 DEF HandOn, ParseStreamingChunks
    <3>2. Fed' = parser'
      BY <2>1, NoTokens DEF Fed
    <3> QED
      BY <1>9, <2>1, <3>1, <3>2 DEF Sound
  <2>2. CASE slice' = received /\ ahead' = read /\ parser' = parser /\ script' = script
    <3>1. Fed' = v
      BY <1>7, <2>2 DEF Fed
    <3> QED
      BY <1>2, <1>6, <1>8, <1>9, <2>2, <3>1
  <2> QED
    BY <1>5, <2>1, <2>2
<1>11. StreamTypeOK'
  <2>1. parser' \in ScofState /\ script' \in Script /\ ahead' \in Script
    BY <1>10 DEF Sound
  <2>2. writing' \in [text : Seq(Token), sent : 0 .. 4] /\ writing'.sent <= Len(writing'.text)
    <3>1. n + 1 \in 0 .. 4 /\ n + 1 <= Len(w)
      <4>1. n < Len(w) /\ n \in Nat /\ Len(w) \in 0 .. 4
        BY <1>1, <1>3
      <4>2. \A m \in 0 .. 4 : \A k \in Nat : k < m => k + 1 \in 0 .. 4 /\ k + 1 <= m
        OBVIOUS
      <4> QED
        BY <4>1, <4>2, Zenon
    <3> QED
      BY <1>3, <1>4, <3>1
  <2>3. /\ attempt' \in 0 .. retryLimit /\ lines' \in 0 .. MaxLines
        /\ generatedFilesMap' \in [File \cup {Garbled} -> Seq(Seq(Token))]
    BY <1>1, <1>2 DEF StreamTypeOK
  <2> QED
    BY <1>10, <2>1, <2>2, <2>3 DEF StreamTypeOK
<1>12. /\ InLine(Fed', ahead', writing'.text, writing'.sent)
       /\ writing'.text \in AnyLine \cup {<<>>}
  BY <1>2, <1>4, <1>10
<1>13. (generatedFilesMap = Original)' /\ (attempt < retryLimit)' /\ streaming'
  BY <1>1, <1>2 DEF Original
<1>14. AnswerAsWritten'
  BY <1>13 DEF AnswerAsWritten
<1> QED
  BY <1>10, <1>11, <1>12, <1>13, <1>14 DEF StreamInv

\* What is saved is what is accounted for.
LEMMA SavesAccounted ==
  ASSUME generatedFilesMap = Original, NEW p, p = parser', Sound(p, script'), Save(p)
  PROVE  /\ AnswerAsWritten' /\ ~streaming'
         /\ generatedFilesMap' \in [File \cup {Garbled} -> Seq(Seq(Token))]
<1>1. streaming' = FALSE /\ generatedFilesMap' = Saved(Original, p.fixedFilePromises)
  BY DEF Save
<1>2. p \in ScofState /\ Accounted(p, script')
  BY DEF Sound
<1>3. p.fixedFilePromises \in Seq(Promise)
  BY <1>2 DEF ScofState, Promise, Contents
<1>4. Original \in [File \cup {Garbled} -> Contents]
  BY TokenFacts DEF Original, OriginalContents, Contents
<1>5. generatedFilesMap' \in [File \cup {Garbled} -> Contents]
  BY <1>1, <1>3, <1>4, SavedType
<1>6. AnswerAsWritten'
  BY <1>1, <1>2 DEF AnswerAsWritten, SavedAsWritten, Accounted
<1> QED
  BY <1>1, <1>5, <1>6 DEF Contents

\* The stream ends.
LEMMA StreamFinishedKeeps ==
  ASSUME StreamInv, StreamFinished
  PROVE  StreamInv'
<1>1. /\ streaming /\ HandOn(slice) /\ slice' = <<>> /\ script' = ReadCut(ahead, writing) /\ Save(parser')
      /\ writing' = writing /\ lines' = lines /\ attempt' = attempt /\ ahead' = ahead
  BY DEF StreamFinished
<1>2. /\ StreamTypeOK /\ writing.text \in AnyLine \cup {<<>>}
      /\ InLine(Fed, ahead, writing.text, writing.sent) /\ generatedFilesMap = Original
  BY <1>1 DEF StreamInv
<1>3. parser' = CloseAtMarker(Fed)
  BY <1>1 DEF HandOn, ParseStreamingChunks, Fed
<1>4. Sound(parser', script')
  <2>1. writing = [text |-> writing.text, sent |-> writing.sent]
    BY <1>2 DEF StreamTypeOK
  <2>2. Sound(CloseAtMarker(Fed), ReadCut(ahead, [text |-> writing.text, sent |-> writing.sent]))
    BY <1>2, ClosesAtMarker
  <2> QED
    BY <1>1, <1>3, <2>1, <2>2
<1>5. /\ AnswerAsWritten' /\ ~streaming'
      /\ generatedFilesMap' \in [File \cup {Garbled} -> Seq(Seq(Token))]
  BY <1>1, <1>2, <1>4, SavesAccounted
<1>6. StreamTypeOK'
  <2>1. parser' \in ScofState /\ script' \in Script
    BY <1>4 DEF Sound
  <2> QED
    BY <1>1, <1>2, <1>5, <2>1 DEF StreamTypeOK
<1> QED
  BY <1>1, <1>2, <1>5, <1>6 DEF StreamInv

\* An attempt fails.
LEMMA AttemptFailsKeeps ==
  ASSUME StreamInv, AttemptFails
  PROVE  StreamInv'
<1> DEFINE lost == OutOfStep
<1> DEFINE sp == IF lost THEN script.spoilt \cup Interrupted ELSE script.spoilt
<1>1. /\ streaming /\ slice' = <<>> /\ writing' = NoLine /\ ahead' = script' /\ attempt' = attempt + 1
      /\ parser' = parser /\ lines' = lines
      /\ IF attempt = retryLimit - 1 THEN Save(parser) ELSE streaming' = streaming /\ generatedFilesMap' = generatedFilesMap
  BY DEF AttemptFails
<1>2. script' = Restart(script, lost, sp)
  BY DEF AttemptFails, Restart
<1>3. /\ StreamTypeOK /\ Sound(parser, script) /\ generatedFilesMap = Original /\ attempt < retryLimit
  BY <1>1 DEF StreamInv
<1>4. lost \in BOOLEAN /\ (lost <=> InBlock(parser) \/ ~IsBlank(parser.partialLineBuffer))
  BY DEF OutOfStep, InBlock
<1>5. Interrupted = Names(parser.commandBuffer \o parser.partialLineBuffer) \cup ({parser.currentFile} \ {NoFile})
  BY DEF Interrupted
<1>6. sp = IF lost THEN script.spoilt \cup Interrupted ELSE script.spoilt
  OBVIOUS
<1> HIDE DEF lost, sp
<1>7. AtLine(parser, script') /\ script' \in Script
  BY <1>2, <1>3, <1>4, <1>5, <1>6, BeginsAgain
<1>8. Sound(parser', script')
  BY <1>1, <1>7 DEF AtLine
<1>9. writing'.text = <<>> /\ writing'.sent = 0 /\ Len(<<>>) = 0 /\ writing' \in [text : Seq(Token), sent : 0 .. 4]
  BY <1>1 DEF NoLine
<1>10. InLine(Fed', ahead', writing'.text, writing'.sent)
  <2>1. Fed' = parser'
    BY <1>1, NoTokens DEF Fed
  <2> QED
    BY <1>1, <1>7, <1>9, <2>1 DEF InLine
<1>11. attempt \in Nat /\ attempt' \in 0 .. retryLimit /\ (attempt # retryLimit - 1 => attempt' < retryLimit)
  BY <1>1, <1>3, StreamAssumption DEF StreamTypeOK
<1>12. /\ AnswerAsWritten'
       /\ generatedFilesMap' \in [File \cup {Garbled} -> Seq(Seq(Token))]
       /\ streaming' => generatedFilesMap' = Original' /\ attempt' < retryLimit
  <2>1. CASE attempt = retryLimit - 1
    BY <1>1, <1>3, <1>8, <2>1, SavesAccounted
  <2>2. CASE attempt # retryLimit - 1
    <3>1. streaming' = streaming /\ generatedFilesMap' = generatedFilesMap
      BY <1>1, <2>2
    <3> QED
      BY <1>1, <1>3, <1>11, <2>2, <3>1 DEF AnswerAsWritten, StreamTypeOK, Original
  <2> QED
    BY <2>1, <2>2
<1>13. StreamTypeOK'
  BY <1>1, <1>3, <1>7, <1>9, <1>11, <1>12 DEF StreamTypeOK
<1> QED
  BY <1>8, <1>9, <1>10, <1>12, <1>13 DEF StreamInv

\* The invariant holds in every state: what the parser was fed, with what it is
\* still to be handed, is the answer read line by line, up to the blocks that a
\* retry runs together.
THEOREM StreamInvariant == StreamSpec => []StreamInv
<1>1. StreamInit => StreamInv
  BY StreamInitInv
<1>2. StreamInv /\ [StreamNext]_streamVars => StreamInv'
  <2> SUFFICES ASSUME StreamInv, [StreamNext]_streamVars PROVE StreamInv'
    OBVIOUS
  <2>1. ASSUME NEW l \in AnyLine, BeginLine(l) PROVE StreamInv'
    BY <2>1, BeginLineKeeps
  <2>2. ASSUME NEW handOn \in BOOLEAN, StreamEvent(handOn) PROVE StreamInv'
    BY <2>2, StreamEventKeeps
  <2>3. CASE StreamFinished
    BY <2>3, StreamFinishedKeeps
  <2>4. CASE AttemptFails
    BY <2>4, AttemptFailsKeeps
  <2>5. CASE UNCHANGED streamVars
    BY <2>5 DEF streamVars, StreamInv, StreamTypeOK, Fed, Original, AnswerAsWritten, SavedAsWritten
  <2> QED
    BY <2>1, <2>2, <2>3, <2>4, <2>5, Zenon DEF StreamNext, AnyLine
<1> QED
  BY <1>1, <1>2, PTL DEF StreamSpec

\* The parser, the slice not handed on, the script and the saved files stay
\* within their types, however long the answer and the list of files.
THEOREM StreamTypeCorrect == StreamSpec => []StreamTypeOK
<1>1. StreamInv => StreamTypeOK
  BY DEF StreamInv
<1> QED
  BY <1>1, StreamInvariant, PTL

\* For any files, any chunk size and any number of retries, a phase gets what the
\* model wrote: however the answer is cut into chunks and however often it begins
\* again, a file is saved as the last contents written to it and the patches that
\* followed, and every install command that a closed block follows is extracted.
\* Excepted are the files of blocks that a retry ran together or that were cut
\* right behind a marker that a line of text begins with, and those that the same
\* answer patched after writing them.
THEOREM AnswersSaved == StreamSpec => []AnswerAsWritten
<1>1. StreamInv => AnswerAsWritten
  BY DEF StreamInv
<1> QED
  BY <1>1, StreamInvariant, PTL

=============================================================================
