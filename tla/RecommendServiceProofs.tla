----------------------- MODULE RecommendServiceProofs -----------------------
(***************************************************************************)
(* The recommendation service keeps the framing of its streams and is the    *)
(* HTTP server of HttpSession.tla, and its clients account for what they     *)
(* asked, for every number of client threads, of their requests and of items, *)
(* every capacity of the caches and every set of requests of the other        *)
(* client. The first section is about sequences of sequences, the next ones   *)
(* about a request and its tokens and about the caches and the ranking of a   *)
(* job; then come the invariant of the service with a lemma for each of its   *)
(* steps, the refinement, and the same for the statistics of the clients.     *)
(***************************************************************************)
EXTENDS RecommendService, SequenceTheorems, FiniteSetTheorems,
        WellFoundedInduction, TLAPS

-----------------------------------------------------------------------------
(* Induction, and sequences of sequences                                     *)

\* A set of numbers has a smallest one.
LEMMA SmallestOf ==
    ASSUME NEW T \in SUBSET Nat, T # {}
    PROVE  \E m \in T : \A k \in T : m <= k
<1>. DEFINE R == {p \in Nat \X Nat : p[1] < p[2]}
<1>1. IsWellFoundedOn(R, Nat)
  BY NatLessThanWellFounded DEF OpToRel
<1>2. \A x, y \in Nat : y < x => <<y, x>> \in R
  OBVIOUS
<1>. HIDE DEF R
<1>3. PICK x \in T : \A y \in T : ~ (<<y, x>> \in R)
  BY <1>1, WFMin
<1>4. \A y \in T : ~ (y < x)
  BY <1>2, <1>3
<1>. QED  BY <1>4

\* Induction on a set of numbers.
LEMMA Induction ==
    ASSUME NEW S, 0 \in S, \A n \in Nat : n \in S => n + 1 \in S
    PROVE  Nat \subseteq S
<1>. SUFFICES ASSUME Nat \ S # {} PROVE FALSE
  OBVIOUS
<1>1. PICK m \in Nat \ S : \A k \in Nat \ S : m <= k
  BY SmallestOf
<1>2. m - 1 \in Nat /\ m - 1 \in S
  BY <1>1
<1>. QED  BY <1>1, <1>2

\* What the first elements of a sequence of sequences make together.
Joins(f, s) ==
    \A i \in 1 .. Len(s) : f[i] = IF i = 1 THEN s[i] ELSE f[i - 1] \o s[i]

JoinsUpTo(m, s, X) ==
    {f \in [1 .. m -> Seq(X)] :
        \A i \in 1 .. m : f[i] = IF i = 1 THEN s[i] ELSE f[i - 1] \o s[i]}

LEMMA JoinsExists ==
    ASSUME NEW X, NEW s \in Seq(Seq(X))
    PROVE  \E f \in [1 .. Len(s) -> Seq(X)] : Joins(f, s)
<1>. DEFINE S == {m \in Nat : m <= Len(s) => JoinsUpTo(m, s, X) # {}}
<1>1. 0 \in S
  <2>1. [i \in 1 .. 0 |-> <<>>] \in JoinsUpTo(0, s, X)
    BY DEF JoinsUpTo
  <2>. QED  BY <2>1
<1>2. ASSUME NEW m \in Nat, m \in S, m + 1 <= Len(s)
      PROVE  JoinsUpTo(m + 1, s, X) # {}
  <2>1. PICK f \in [1 .. m -> Seq(X)] :
            \A i \in 1 .. m : f[i] = IF i = 1 THEN s[i] ELSE f[i - 1] \o s[i]
    BY <1>2 DEF JoinsUpTo
  <2>. DEFINE next == IF m = 0 THEN s[1] ELSE f[m] \o s[m + 1]
              g == [i \in 1 .. m + 1 |-> IF i <= m THEN f[i] ELSE next]
  <2>2. s[m + 1] \in Seq(X) /\ (m > 0 => f[m] \in Seq(X))
    BY <1>2
  <2>3. next \in Seq(X)
    BY <2>2
  <2>. HIDE DEF next
  <2>4. g \in [1 .. m + 1 -> Seq(X)]
    BY <2>3
  <2>5. ASSUME NEW i \in 1 .. m + 1
        PROVE  g[i] = IF i = 1 THEN s[i] ELSE g[i - 1] \o s[i]
    <3>1. CASE i <= m
      <4>1. i \in 1 .. m /\ g[i] = f[i]
        BY <3>1
      <4>2. i # 1 => g[i - 1] = f[i - 1]
        BY <3>1
      <4>. QED  BY <2>1, <4>1, <4>2
    <3>2. CASE i = m + 1
      <4>1. m > 0 => g[m] = f[m]
        OBVIOUS
      <4>2. g[m + 1] = next
        OBVIOUS
      <4>. QED  BY <3>2, <4>1, <4>2 DEF next
    <3>. QED  BY <3>1, <3>2
  <2>. QED  BY <2>4, <2>5 DEF JoinsUpTo
<1>3. \A m \in Nat : m \in S => m + 1 \in S
  <2>1. \A m \in Nat : m \in S /\ m + 1 <= Len(s) => JoinsUpTo(m + 1, s, X) # {}
    BY <1>2
  <2>. SUFFICES ASSUME NEW m \in Nat, m \in S PROVE m + 1 \in S
    OBVIOUS
  <2>2. m + 1 <= Len(s) => JoinsUpTo(m + 1, s, X) # {}
    BY <2>1
  <2>. QED  BY <2>2
<1>. HIDE DEF S
<1>4. Nat \subseteq S
  BY <1>1, <1>3, Induction
<1>5. JoinsUpTo(Len(s), s, X) # {}
  <2>1. Len(s) \in Nat
    OBVIOUS
  <2>. QED  BY <1>4, <2>1 DEF S
<1>. QED  BY <1>5 DEF Joins, JoinsUpTo

LEMMA JoinsUnique ==
    ASSUME NEW s, Len(s) \in Nat, NEW f, NEW g, Joins(f, s), Joins(g, s)
    PROVE  \A i \in 1 .. Len(s) : f[i] = g[i]
<1>. DEFINE S == {i \in Nat : i \in 1 .. Len(s) => f[i] = g[i]}
<1>1. 0 \in S
  OBVIOUS
<1>2. \A i \in Nat : i \in S => i + 1 \in S
  <2>. SUFFICES ASSUME NEW i \in Nat, i \in S, i + 1 \in 1 .. Len(s) PROVE f[i + 1] = g[i + 1]
    OBVIOUS
  <2>1. f[i + 1] = IF i + 1 = 1 THEN s[i + 1] ELSE f[i + 1 - 1] \o s[i + 1]
    BY DEF Joins
  <2>2. g[i + 1] = IF i + 1 = 1 THEN s[i + 1] ELSE g[i + 1 - 1] \o s[i + 1]
    BY DEF Joins
  <2>3. i + 1 # 1 => f[i] = g[i]
    OBVIOUS
  <2>4. i + 1 - 1 = i
    OBVIOUS
  <2>. QED  BY <2>1, <2>2, <2>3, <2>4
<1>. HIDE DEF S
<1>3. Nat \subseteq S
  BY <1>1, <1>2, Induction
<1>. QED  BY <1>3 DEF S

\* FlattenSeq is the last of what the elements make together, in whatever way that
\* has been found.
LEMMA FlattenIsLast ==
    ASSUME NEW X, NEW s \in Seq(Seq(X)), Len(s) # 0, NEW f, Joins(f, s)
    PROVE  FlattenSeq(s) = f[Len(s)] /\ f[Len(s)] \in Seq(X)
<1>1. PICK g \in [1 .. Len(s) -> Seq(X)] : Joins(g, s)
  BY JoinsExists
<1>. DEFINE Flatten(h) == h = [i \in 1 .. Len(s) |-> IF i = 1 THEN s[i] ELSE h[i - 1] \o s[i]]
<1>2. Len(s) \in 1 .. Len(s) /\ Len(s) \in Nat
  OBVIOUS
<1>3. Flatten(g)
  BY <1>1 DEF Joins
<1>4. FlattenSeq(s) = (CHOOSE h : Flatten(h))[Len(s)]
  BY DEF FlattenSeq
<1>5. ASSUME NEW h, Flatten(h) PROVE Joins(h, s)
  BY <1>5 DEF Joins
<1>. HIDE DEF Flatten
<1>6. Flatten(CHOOSE h : Flatten(h))
  BY <1>3
<1>7. Joins(CHOOSE h : Flatten(h), s)
  BY <1>5, <1>6
<1>8. FlattenSeq(s) = f[Len(s)]
  BY <1>2, <1>4, <1>7, JoinsUnique
<1>9. f[Len(s)] = g[Len(s)]
  <2>1. \A i \in 1 .. Len(s) : f[i] = g[i]
    BY <1>1, <1>2, JoinsUnique
  <2>. QED  BY <1>2, <2>1
<1>. QED  BY <1>2, <1>8, <1>9

LEMMA FlattenAppend ==
    ASSUME NEW X, NEW s \in Seq(Seq(X)), NEW x \in Seq(X)
    PROVE  FlattenSeq(s) \in Seq(X) /\ FlattenSeq(Append(s, x)) = FlattenSeq(s) \o x
<1>. DEFINE n == Len(s)
            t == Append(s, x)
<1>1. /\ t \in Seq(Seq(X)) /\ Len(t) = n + 1 /\ n \in Nat /\ t[n + 1] = x
      /\ \A i \in 1 .. n : t[i] = s[i]
  OBVIOUS
<1>. HIDE DEF t
<1>2. PICK f \in [1 .. n -> Seq(X)] : Joins(f, s)
  BY JoinsExists
<1>3. CASE n = 0
  <2>1. s = <<>> /\ FlattenSeq(s) = <<>>
    BY <1>3 DEF FlattenSeq
  <2>2. Joins(<<x>>, t)
    BY <1>1, <1>3 DEF Joins
  <2>3. FlattenSeq(t) = <<x>>[1]
    <3>1. Len(t) = 1
      BY <1>1, <1>3
    <3>. QED  BY <1>1, <2>2, <3>1, FlattenIsLast
  <2>4. <<x>>[1] = x /\ <<>> \o x = x /\ <<>> \in Seq(X)
    OBVIOUS
  <2>. QED  BY <2>1, <2>3, <2>4 DEF t
<1>4. CASE n # 0
  <2>. DEFINE g == [i \in 1 .. n + 1 |-> IF i <= n THEN f[i] ELSE f[n] \o x]
  <2>1. Joins(g, t)
    <3>. SUFFICES ASSUME NEW i \in 1 .. n + 1
                  PROVE  g[i] = IF i = 1 THEN t[i] ELSE g[i - 1] \o t[i]
      BY <1>1 DEF Joins
    <3>1. CASE i <= n
      <4>1. i \in 1 .. n
        BY <3>1
      <4>2. f[i] = IF i = 1 THEN s[i] ELSE f[i - 1] \o s[i]
        BY <1>2, <4>1 DEF Joins
      <4>3. t[i] = s[i]
        BY <1>1, <4>1
      <4>4. g[i] = f[i] /\ (i # 1 => g[i - 1] = f[i - 1])
        BY SMTT(60), <1>1, <3>1
      <4>. QED  BY <4>2, <4>3, <4>4
    <3>2. CASE i = n + 1
      BY <1>1, <1>4, <3>2
    <3>. QED  BY <3>1, <3>2
  <2>2. g[n + 1] = f[n] \o x
    BY <1>1
  <2>. HIDE DEF g
  <2>3. FlattenSeq(t) = g[n + 1]
    BY <1>1, <2>1, FlattenIsLast
  <2>4. FlattenSeq(s) = f[n] /\ f[n] \in Seq(X)
    BY <1>2, <1>4, FlattenIsLast
  <2>. QED  BY <2>2, <2>3, <2>4 DEF t
<1>. QED  BY <1>3, <1>4

LEMMA FlattenFirst ==
    ASSUME NEW X, NEW s \in Seq(Seq(X)), NEW t \in Seq(Seq(X)), Len(t) = Len(s) + 1,
           \A i \in 1 .. Len(s) : t[i + 1] = s[i]
    PROVE  FlattenSeq(t) = t[1] \o FlattenSeq(s)
<1>. DEFINE n == Len(s)
<1>1. n \in Nat /\ t[1] \in Seq(X) /\ Len(t) = n + 1 /\ \A i \in 1 .. n : t[i + 1] = s[i]
  OBVIOUS
<1>2. PICK f \in [1 .. n -> Seq(X)] : Joins(f, s)
  BY JoinsExists
<1>3. CASE n = 0
  <2>1. s = <<>> /\ FlattenSeq(s) = <<>>
    BY <1>3 DEF FlattenSeq
  <2>2. Joins(<<t[1]>>, t)
    BY <1>3 DEF Joins
  <2>3. FlattenSeq(t) = <<t[1]>>[1]
    BY <1>1, <1>3, <2>2, FlattenIsLast
  <2>4. <<t[1]>>[1] = t[1] /\ t[1] \o <<>> = t[1]
    BY <1>1
  <2>. QED  BY <2>1, <2>3, <2>4
<1>4. CASE n # 0
  <2>. DEFINE g == [i \in 1 .. n + 1 |-> IF i = 1 THEN t[1] ELSE t[1] \o f[i - 1]]
  <2>1. g[1] = t[1] /\ \A i \in 1 .. n : g[i + 1] = t[1] \o f[i]
    <3>1. \A i \in 1 .. n : i + 1 \in 1 .. n + 1 /\ i + 1 # 1 /\ (i + 1) - 1 = i
      BY <1>1
    <3>2. 1 \in 1 .. n + 1
      BY <1>1
    <3>. QED  BY <3>1, <3>2, Zenon
  <2>. HIDE DEF g
  <2>2. ASSUME NEW i \in 1 .. n PROVE g[i + 1] = g[i] \o t[i + 1]
    <3>1. /\ f[i] = IF i = 1 THEN s[i] ELSE f[i - 1] \o s[i]
          /\ t[i + 1] = s[i] /\ s[i] \in Seq(X)
      <4>1. f[i] = IF i = 1 THEN s[i] ELSE f[i - 1] \o s[i]
        BY <1>2 DEF Joins
      <4>2. t[i + 1] = s[i]
        BY <1>1
      <4>3. s[i] \in Seq(X)
        OBVIOUS
      <4>. QED  BY <4>1, <4>2, <4>3
    <3>2. CASE i = 1
      BY <2>1, <3>1, <3>2
    <3>3. CASE i # 1
      <4>1. i - 1 \in 1 .. n /\ (i - 1) + 1 = i
        BY <1>1, <3>3
      <4>2. f[i - 1] \in Seq(X) /\ g[i] = t[1] \o f[i - 1]
        BY <1>2, <2>1, <4>1
      <4>3. (t[1] \o f[i - 1]) \o s[i] = t[1] \o (f[i - 1] \o s[i])
        <5>1. t[1] \in Seq(X) /\ f[i - 1] \in Seq(X) /\ s[i] \in Seq(X)
          BY <1>1, <3>1, <4>2
        <5>2. PICK a, b, c \in Seq(X) : a = t[1] /\ b = f[i - 1] /\ c = s[i]
          BY Zenon, <5>1
        <5>3. (a \o b) \o c = a \o (b \o c)
          BY ONLY SMTT(60), a \in Seq(X), b \in Seq(X), c \in Seq(X)
        <5>. QED  BY <5>2, <5>3
      <4>. QED  BY <2>1, <3>1, <3>3, <4>2, <4>3
    <3>. QED  BY <3>2, <3>3
  <2>3. Joins(g, t)
    <3>. SUFFICES ASSUME NEW i \in 1 .. n + 1
                  PROVE  g[i] = IF i = 1 THEN t[i] ELSE g[i - 1] \o t[i]
      BY <1>1 DEF Joins
    <3>1. CASE i = 1
      BY <2>1, <3>1
    <3>2. CASE i # 1
      <4>1. i - 1 \in 1 .. n /\ (i - 1) + 1 = i
        BY <1>1, <3>2
      <4>2. g[(i - 1) + 1] = g[i - 1] \o t[(i - 1) + 1]
        BY <2>2, <4>1
      <4>. QED  BY <3>2, <4>1, <4>2
    <3>. QED  BY <3>1, <3>2
  <2>4. FlattenSeq(t) = g[n + 1]
    BY <1>1, <2>3, FlattenIsLast
  <2>5. FlattenSeq(s) = f[n]
    BY <1>2, <1>4, FlattenIsLast
  <2>6. n \in 1 .. n
    BY <1>1, <1>4
  <2>. QED  BY <2>1, <2>4, <2>5, <2>6
<1>. QED  BY <1>3, <1>4

\* The elements of two parts one behind the other.
LEMMA TwoParts ==
    ASSUME NEW X, NEW s \in Seq(X), NEW t \in Seq(X), NEW u, u = s \o t
    PROVE  /\ u \in Seq(X) /\ Len(u) = Len(s) + Len(t)
           /\ \A i \in 1 .. Len(s) : u[i] = s[i]
           /\ \A i \in 1 .. Len(t) : u[Len(s) + i] = t[i]
<1>1. s \o t \in Seq(X) /\ Len(s \o t) = Len(s) + Len(t)
  BY ConcatProperties
<1>2. \A i \in 1 .. Len(s) : (s \o t)[i] = s[i]
  BY ConcatProperties
<1>3. \A i \in 1 .. Len(t) : (s \o t)[Len(s) + i] = t[i]
  <2>. SUFFICES ASSUME NEW i \in 1 .. Len(t) PROVE (s \o t)[Len(s) + i] = t[i]
    OBVIOUS
  <2>1. Len(s) + i \in 1 .. Len(s) + Len(t) /\ (Len(s) + i) - Len(s) = i /\ ~ (Len(s) + i <= Len(s))
    OBVIOUS
  <2>2. (s \o t)[Len(s) + i] = IF Len(s) + i <= Len(s) THEN s[Len(s) + i] ELSE t[(Len(s) + i) - Len(s)]
    BY ConcatProperties, <2>1
  <2>. QED  BY <2>1, <2>2
<1>. QED  BY <1>1, <1>2, <1>3

-----------------------------------------------------------------------------
(* Requests and their tokens (Tokens, and HttpRequest::parse)                *)

\* A method or a path. To the provers a literal is in no set it is not listed in.
Words == STRING \union {"GET", "POST", "/health", "/recommend"}

Lines == {<<"garbage">>} \union ({"line"} \X Words \X Words)
Field == {"user", "count"} \X Nat

RequestSet == [line : Lines, body : Seq(Field), close : BOOLEAN]

Spellings == {"Upper", "lower"}

TokenSet(sp) ==
    Lines \union {<<"end">>} \union Field
        \union ({"length"} \X Nat \X {sp}) \union ({"connection"} \X {"close"} \X {sp})

\* The headers of a request, and the place of the empty line behind them.
LengthHeader(r, sp) == IF r.body = <<>> THEN <<>> ELSE <<Header("length", Len(r.body), sp)>>
CloseHeader(r, sp)  == IF r.close THEN <<Header("connection", "close", sp)>> ELSE <<>>

HeaderEnd(r) == 2 + (IF r.body = <<>> THEN 0 ELSE 1) + (IF r.close THEN 1 ELSE 0)

LEMMA HeadersAre ==
    ASSUME NEW r \in RequestSet, NEW sp \in Spellings
    PROVE  /\ LengthHeader(r, sp) \in Seq(TokenSet(sp))
           /\ Len(LengthHeader(r, sp)) = IF r.body = <<>> THEN 0 ELSE 1
           /\ r.body # <<>> => LengthHeader(r, sp)[1] = <<"length", Len(r.body), sp>>
           /\ CloseHeader(r, sp) \in Seq(TokenSet(sp))
           /\ Len(CloseHeader(r, sp)) = IF r.close THEN 1 ELSE 0
           /\ r.close => CloseHeader(r, sp)[1] = <<"connection", "close", sp>>
           /\ <<r.line>> \in Seq(TokenSet(sp)) /\ Len(<<r.line>>) = 1 /\ <<r.line>>[1] = r.line
           /\ <<<<"end">>>> \in Seq(TokenSet(sp)) /\ Len(<<<<"end">>>>) = 1
           /\ r.body \in Seq(TokenSet(sp)) /\ Len(r.body) \in Nat
<1>1. r.line \in Lines /\ r.body \in Seq(Field) /\ r.close \in BOOLEAN /\ Len(r.body) \in Nat
  BY DEF RequestSet
<1>2. /\ r.line \in TokenSet(sp) /\ <<"end">> \in TokenSet(sp)
      /\ <<"length", Len(r.body), sp>> \in TokenSet(sp)
      /\ <<"connection", "close", sp>> \in TokenSet(sp)
  BY <1>1 DEF TokenSet
<1>3. Field \subseteq TokenSet(sp)
  BY DEF TokenSet
<1>. DEFINE T == TokenSet(sp)
<1>. HIDE DEF T
<1>4. /\ r.line \in T /\ <<"end">> \in T /\ <<"length", Len(r.body), sp>> \in T
      /\ <<"connection", "close", sp>> \in T
  BY <1>2 DEF T
<1>5. r.body \in Seq(T)
  BY <1>1, <1>3 DEF T
<1>6. /\ LengthHeader(r, sp) \in Seq(T)
      /\ Len(LengthHeader(r, sp)) = IF r.body = <<>> THEN 0 ELSE 1
      /\ r.body # <<>> => LengthHeader(r, sp)[1] = <<"length", Len(r.body), sp>>
  <2>1. CASE r.body = <<>>
    BY <2>1 DEF LengthHeader
  <2>2. CASE r.body # <<>>
    BY <1>4, <2>2 DEF LengthHeader, Header
  <2>. QED  BY <2>1, <2>2
<1>7. /\ CloseHeader(r, sp) \in Seq(T)
      /\ Len(CloseHeader(r, sp)) = IF r.close THEN 1 ELSE 0
      /\ r.close => CloseHeader(r, sp)[1] = <<"connection", "close", sp>>
  BY <1>1, <1>4 DEF CloseHeader, Header
<1>. QED  BY <1>1, <1>4, <1>5, <1>6, <1>7 DEF T

LEMMA TokensAre ==
    ASSUME NEW r \in RequestSet, NEW sp \in Spellings
    PROVE  /\ Tokens(r, sp) \in Seq(TokenSet(sp))
           /\ Len(Tokens(r, sp)) = HeaderEnd(r) + Len(r.body)
           /\ HeaderEnd(r) \in Nat /\ HeaderEnd(r) >= 2 /\ Len(r.body) \in Nat
           /\ Tokens(r, sp)[1] = r.line
           /\ r.body # <<>> => HeaderEnd(r) > 2 /\ Tokens(r, sp)[2] = <<"length", Len(r.body), sp>>
           /\ r.body = <<>> /\ HeaderEnd(r) > 2 => Tokens(r, sp)[2] = <<"connection", "close", sp>>
           /\ HeaderEnd(r) > 3 => Tokens(r, sp)[3] = <<"connection", "close", sp>>
           /\ r.close => HeaderEnd(r) > 2
                         /\ Tokens(r, sp)[HeaderEnd(r) - 1] = <<"connection", "close", sp>>
           /\ r.body # <<>> /\ r.close <=> HeaderEnd(r) > 3
           /\ r.body # <<>> \/ r.close <=> HeaderEnd(r) > 2
           /\ HeaderEnd(r) <= 4
           /\ Tokens(r, sp)[HeaderEnd(r)] = <<"end">>
           /\ \A i \in 1 .. Len(r.body) : Tokens(r, sp)[HeaderEnd(r) + i] = r.body[i]
<1>. DEFINE X == TokenSet(sp)
<1>1. PICK one \in Seq(X), two \in Seq(X), three \in Seq(X), four \in Seq(X), five \in Seq(X) :
          /\ one = <<r.line>> /\ two = LengthHeader(r, sp) /\ three = CloseHeader(r, sp)
          /\ four = <<<<"end">>>> /\ five = r.body
  BY HeadersAre, Zenon
<1>2. /\ Len(one) = 1 /\ one[1] = r.line
      /\ Len(two) = (IF r.body = <<>> THEN 0 ELSE 1)
      /\ r.body # <<>> => two[1] = <<"length", Len(r.body), sp>>
      /\ Len(three) = (IF r.close THEN 1 ELSE 0)
      /\ r.close => three[1] = <<"connection", "close", sp>>
      /\ Len(four) = 1 /\ four[1] = <<"end">>
      /\ Len(five) \in Nat /\ five = r.body
      /\ r.body = <<>> => Len(five) = 0
  BY <1>1, HeadersAre
<1>3. PICK u : u = one \o two
  OBVIOUS
<1>. HIDE DEF X
<1>4. /\ u \in Seq(X) /\ Len(u) = Len(one) + Len(two)
      /\ \A i \in 1 .. Len(one) : u[i] = one[i]
      /\ \A i \in 1 .. Len(two) : u[Len(one) + i] = two[i]
  BY ONLY one \in Seq(X), two \in Seq(X), <1>3, TwoParts
<1>5. u \in Seq(X)
  BY <1>4
<1>6. PICK v : v = u \o three
  OBVIOUS
<1>7. /\ v \in Seq(X) /\ Len(v) = Len(u) + Len(three)
      /\ \A i \in 1 .. Len(u) : v[i] = u[i]
      /\ \A i \in 1 .. Len(three) : v[Len(u) + i] = three[i]
  BY ONLY <1>5, three \in Seq(X), <1>6, TwoParts
<1>8. v \in Seq(X)
  BY <1>7
<1>9. PICK w : w = v \o four
  OBVIOUS
<1>10. /\ w \in Seq(X) /\ Len(w) = Len(v) + Len(four)
       /\ \A i \in 1 .. Len(v) : w[i] = v[i]
       /\ \A i \in 1 .. Len(four) : w[Len(v) + i] = four[i]
  BY ONLY <1>8, four \in Seq(X), <1>9, TwoParts
<1>11. w \in Seq(X)
  BY <1>10
<1>12. PICK t : t = w \o five
  OBVIOUS
<1>13. /\ t \in Seq(X) /\ Len(t) = Len(w) + Len(five)
       /\ \A i \in 1 .. Len(w) : t[i] = w[i]
       /\ \A i \in 1 .. Len(five) : t[Len(w) + i] = five[i]
  BY ONLY <1>11, five \in Seq(X), <1>12, TwoParts
<1>14. Tokens(r, sp) = t
  BY <1>1, <1>3, <1>6, <1>9, <1>12, Zenon DEF Tokens, LengthHeader, CloseHeader
<1>. DEFINE h == HeaderEnd(r)
<1>15. r.close \in BOOLEAN /\ h = 2 + Len(two) + Len(three)
  BY <1>2 DEF HeaderEnd, RequestSet
<1>16. Len(two) \in 0 .. 1 /\ Len(three) \in 0 .. 1
  BY <1>2, <1>15
<1>17. /\ Len(u) = 1 + Len(two) /\ Len(v) = h - 1 /\ Len(w) = h /\ Len(t) = h + Len(five)
       /\ h \in Nat /\ h >= 2 /\ h <= 4
  <2>1. /\ Len(one) = 1 /\ Len(four) = 1 /\ Len(five) \in Nat
        /\ Len(u) = Len(one) + Len(two) /\ Len(v) = Len(u) + Len(three)
        /\ Len(w) = Len(v) + Len(four) /\ Len(t) = Len(w) + Len(five)
    BY <1>2, <1>4, <1>7, <1>10, <1>13
  <2>2. PICK a \in 0 .. 1, d \in 0 .. 1, k \in Nat : a = Len(two) /\ d = Len(three) /\ k = Len(five)
    BY <1>16, <2>1
  <2>3. h = 2 + a + d
    BY <1>15, <2>2
  <2>. HIDE DEF h
  <2>4. Len(u) = 1 + a /\ Len(v) = 1 + a + d /\ Len(w) = 2 + a + d /\ Len(t) = 2 + a + d + k
    BY ONLY <2>1, <2>2
  <2>5. h \in Nat /\ h >= 2 /\ h <= 4 /\ h - 1 = 1 + a + d /\ h + k = 2 + a + d + k
    BY ONLY a \in 0 .. 1, d \in 0 .. 1, k \in Nat, <2>3
  <2>. QED  BY ONLY Zenon, <2>2, <2>3, <2>4, <2>5
<1>. HIDE DEF h
<1>18. t[1] = r.line
  <2>1. 1 \in 1 .. Len(one) /\ 1 \in 1 .. Len(u) /\ 1 \in 1 .. Len(v) /\ 1 \in 1 .. Len(w)
    BY <1>2, <1>16, <1>17
  <2>2. t[1] = w[1] /\ w[1] = v[1]
    BY <1>10, <1>13, <2>1
  <2>3. v[1] = u[1] /\ u[1] = one[1]
    BY <1>4, <1>7, <2>1
  <2>. QED  BY <1>2, <2>2, <2>3
<1>19. ASSUME r.body # <<>> PROVE t[2] = <<"length", Len(r.body), sp>> /\ h > 2
  <2>1. Len(two) = 1 /\ 1 \in 1 .. Len(two) /\ Len(one) + 1 = 2
    BY <1>2, <1>19
  <2>2. 2 \in 1 .. Len(u) /\ 2 \in 1 .. Len(v) /\ 2 \in 1 .. Len(w) /\ h > 2
    BY <1>15, <1>16, <1>17, <2>1
  <2>3. u[2] = two[1]
    BY <1>4, <2>1
  <2>. QED  BY <1>2, <1>7, <1>10, <1>13, <1>19, <2>2, <2>3
<1>20. ASSUME r.close PROVE t[h - 1] = <<"connection", "close", sp>> /\ h > 2
  <2>1. Len(three) = 1 /\ 1 \in 1 .. Len(three) /\ Len(u) + 1 = h - 1
    BY <1>2, <1>15, <1>17, <1>20
  <2>2. h - 1 \in 1 .. Len(v) /\ h - 1 \in 1 .. Len(w) /\ h > 2
    BY <1>15, <1>16, <1>17, <2>1
  <2>3. v[h - 1] = three[1]
    BY <1>7, <2>1
  <2>. QED  BY <1>2, <1>10, <1>13, <1>20, <2>2, <2>3
<1>21. t[h] = <<"end">>
  <2>1. 1 \in 1 .. Len(four) /\ Len(v) + 1 = h /\ h \in 1 .. Len(w)
    BY <1>2, <1>17
  <2>2. w[h] = four[1]
    BY <1>10, <2>1
  <2>. QED  BY <1>2, <1>13, <2>1, <2>2
<1>22. \A i \in 1 .. Len(r.body) : t[h + i] = r.body[i]
  BY <1>2, <1>13, <1>17
<1>23. /\ r.body # <<>> /\ r.close <=> h > 3
       /\ r.body # <<>> \/ r.close <=> h > 2
       /\ h > 3 => h = 4
       /\ r.body = <<>> /\ h > 2 => h = 3 /\ r.close
  BY <1>2, <1>15, <1>16
<1>. QED
  <2>1. r.body = <<>> /\ h > 2 => t[2] = <<"connection", "close", sp>>
    BY <1>20, <1>23
  <2>2. h > 3 => t[3] = <<"connection", "close", sp>>
    BY <1>20, <1>23
  <2>. QED  BY <1>2, <1>13, <1>14, <1>17, <1>18, <1>19, <1>20, <1>21, <1>22, <1>23, <2>1, <2>2 DEF h, X

\* The first of a set of positions.
LEMMA FirstIs ==
    ASSUME NEW P \in SUBSET Nat, NEW h \in P, \A i \in P : h <= i
    PROVE  First(P) = h
<1>1. P # {}
  OBVIOUS
<1>2. \A m \in P : (\A i \in P : m <= i) => m = h
  OBVIOUS
<1>3. (CHOOSE m \in P : \A i \in P : m <= i) = h
  BY <1>2
<1>. QED  BY <1>1, <1>3 DEF First, Min

LEMMA FirstIsOne ==
    ASSUME NEW P \in SUBSET Nat
    PROVE  First(P) = 0 \/ First(P) \in P
<1>1. CASE P = {}
  BY <1>1 DEF First
<1>2. CASE P # {}
  <2>1. PICK m \in P : \A i \in P : m <= i
    BY <1>2, SmallestOf
  <2>2. First(P) = m
    BY <2>1, FirstIs
  <2>. QED  BY <2>2
<1>. QED  BY <1>1, <1>2

\* Only one spelling is in the tokens of a connection, and only it is found.
LEMMA FindIs ==
    ASSUME NEW sp \in Spellings, NEW b \in Seq(TokenSet(sp)), NEW name \in {"length", "connection"}
    PROVE  Find(b, name) = First({i \in 1 .. Len(b) : b[i][1] = name})
<1>. DEFINE at(spelling) == {i \in DOMAIN b : b[i][1] = name /\ b[i][3] = spelling}
            P == {i \in 1 .. Len(b) : b[i][1] = name}
<1>1. DOMAIN b = 1 .. Len(b)
  OBVIOUS
<1>2. Find(b, name) = IF at("Upper") # {} THEN First(at("Upper")) ELSE First(at("lower"))
  BY DEF Find
<1>3. ASSUME NEW x \in TokenSet(sp), x[1] = name PROVE x[3] = sp
  BY <1>3 DEF TokenSet, Lines, Field
<1>4. \A i \in 1 .. Len(b) : b[i][1] = name => b[i][3] = sp
  BY <1>3
<1>5. at(sp) = P
  BY <1>1, <1>4
<1>6. \A spelling \in Spellings : spelling # sp => at(spelling) = {}
  BY <1>1, <1>4
<1>7. sp = "Upper" \/ sp = "lower"
  BY DEF Spellings
<1>8. CASE sp = "Upper"
  <2>1. at("Upper") = P /\ at("lower") = {}
    BY <1>5, <1>6, <1>8 DEF Spellings
  <2>. HIDE DEF at, P
  <2>2. P = {} => First({}) = First(P)
    OBVIOUS
  <2>3. Find(b, name) = First(P)
    BY <1>2, <2>1, <2>2
  <2>. QED  BY <2>3 DEF P
<1>9. CASE sp = "lower"
  <2>1. at("lower") = P /\ at("Upper") = {}
    BY <1>5, <1>6, <1>9 DEF Spellings
  <2>. HIDE DEF at, P
  <2>2. Find(b, name) = First(P)
    BY <1>2, <2>1
  <2>. QED  BY <2>2 DEF P
<1>. QED  BY <1>7, <1>8, <1>9

\* What a token begins with, at the places of the header of a request.
LEMMA HeaderTokens ==
    ASSUME NEW r \in RequestSet, NEW sp \in Spellings, NEW i \in 1 .. HeaderEnd(r) - 1
    PROVE  /\ Tokens(r, sp)[i] # <<"end">>
           /\ Tokens(r, sp)[i][1] = "length" <=> r.body # <<>> /\ i = 2
           /\ Tokens(r, sp)[i][1] = "connection" <=> r.close /\ i = HeaderEnd(r) - 1
<1>. DEFINE h == HeaderEnd(r)
            T == Tokens(r, sp)
<1>1. /\ h \in Nat /\ h >= 2 /\ h <= 4 /\ T[1] = r.line
      /\ r.body # <<>> => h > 2 /\ T[2] = <<"length", Len(r.body), sp>>
      /\ r.body = <<>> /\ h > 2 => T[2] = <<"connection", "close", sp>>
      /\ h > 3 => T[3] = <<"connection", "close", sp>>
      /\ r.body # <<>> /\ r.close <=> h > 3
      /\ r.body # <<>> \/ r.close <=> h > 2
  BY TokensAre
<1>. HIDE DEF h, T
<1>2. i \in Nat /\ i >= 1 /\ i < h
  BY <1>1 DEF h
<1>3. r.line # <<"end">> /\ r.line[1] # "length" /\ r.line[1] # "connection"
  BY DEF RequestSet, Lines
<1>4. CASE i = 1
  <2>1. i # 2 /\ (r.close => i # h - 1)
    BY <1>1, <1>4
  <2>. QED  BY <1>1, <1>3, <1>4, <2>1 DEF T, h
<1>5. CASE i = 2
  <2>1. /\ h > 2 /\ (r.body = <<>> => r.close) /\ (~ (h > 3) => h = 3)
        /\ (r.body # <<>> => (r.close <=> h = 4)) /\ (r.body = <<>> => h = 3)
    BY <1>1, <1>2, <1>5
  <2>2. CASE r.body = <<>>
    <3>1. T[i] = <<"connection", "close", sp>> /\ i = h - 1 /\ r.close
      BY <1>1, <1>5, <2>1, <2>2
    <3>. QED  BY <2>2, <3>1 DEF T, h
  <2>3. CASE r.body # <<>>
    <3>1. T[i] = <<"length", Len(r.body), sp>> /\ ~ (r.close /\ i = h - 1)
      BY <1>1, <1>5, <2>1, <2>3
    <3>. QED  BY <1>5, <2>3, <3>1 DEF T, h
  <2>. QED  BY <2>2, <2>3
<1>6. CASE i > 2
  <2>1. i = 3 /\ h = 4 /\ h > 3
    BY <1>1, <1>2, <1>6
  <2>2. T[i] = <<"connection", "close", sp>> /\ i = h - 1 /\ r.close /\ i # 2
    BY <1>1, <2>1
  <2>. QED  BY <2>2 DEF T, h
<1>. QED  BY <1>2, <1>4, <1>5, <1>6

\* What parse returns for a buffer that begins with a request, or with a piece of one.
LEMMA ParseIs ==
    ASSUME NEW r \in RequestSet, NEW sp \in Spellings, NEW b \in Seq(TokenSet(sp)),
           \A i \in 1 .. Len(b) : i <= Len(Tokens(r, sp)) => b[i] = Tokens(r, sp)[i]
    PROVE  /\ Malformed(r) \/ Len(b) < Len(Tokens(r, sp)) => Parse(b) = Incomplete
           /\ ~ Malformed(r) /\ Len(b) >= Len(Tokens(r, sp)) =>
                Parse(b) = [consumed |-> Len(Tokens(r, sp)), method |-> r.line[2],
                            path |-> r.line[3], body |-> r.body, keepAlive |-> ~ r.close]
<1>. DEFINE T == Tokens(r, sp)
            h == HeaderEnd(r)
            m == Len(r.body)
            n == Len(b)
            Ends == {i \in DOMAIN b : b[i] = <<"end">>}
            Lengths == {i \in 1 .. Len(b) : b[i][1] = "length"}
            Connections == {i \in 1 .. Len(b) : b[i][1] = "connection"}
<1>1. /\ Len(T) = h + m /\ h \in Nat /\ h >= 2 /\ h <= 4 /\ m \in Nat /\ n \in Nat
      /\ T[1] = r.line /\ T[h] = <<"end">>
      /\ r.body # <<>> => h > 2 /\ T[2] = <<"length", m, sp>>
      /\ r.close => h > 2 /\ T[h - 1] = <<"connection", "close", sp>>
      /\ \A i \in 1 .. m : T[h + i] = r.body[i]
      /\ DOMAIN b = 1 .. n
  <2>1. n \in Nat /\ DOMAIN b = 1 .. n
    OBVIOUS
  <2>2. /\ Len(T) = h + m /\ h \in Nat /\ h >= 2 /\ h <= 4 /\ m \in Nat
        /\ T[1] = r.line /\ T[h] = <<"end">>
        /\ \A i \in 1 .. m : T[h + i] = r.body[i]
    BY TokensAre, Zenon
  <2>3. /\ r.body # <<>> => h > 2 /\ T[2] = <<"length", m, sp>>
        /\ r.close => h > 2 /\ T[h - 1] = <<"connection", "close", sp>>
    BY TokensAre, Zenon
  <2>. QED  BY <2>1, <2>2, <2>3
<1>2. \A i \in 1 .. h - 1 : /\ T[i] # <<"end">>
                            /\ T[i][1] = "length" <=> r.body # <<>> /\ i = 2
                            /\ T[i][1] = "connection" <=> r.close /\ i = h - 1
  BY HeaderTokens
<1>3. \A i \in 1 .. n : i <= Len(T) => b[i] = T[i]
  OBVIOUS
<1>4. Parse(b) =
        LET length == First(Lengths)
            contentLength == IF length \in 1 .. First(Ends) THEN b[length][2] ELSE 0
            connection == First(Connections)
            whole == First(Ends) + contentLength
        IN  IF First(Ends) = 0 \/ b[1][1] # "line" \/ Len(b) < whole THEN Incomplete
            ELSE [consumed  |-> whole,
                  method    |-> b[1][2],
                  path      |-> b[1][3],
                  body      |-> SubSeq(b, First(Ends) + 1, whole),
                  keepAlive |-> ~(connection \in 1 .. First(Ends) /\ b[connection][2] = "close")]
  <2>1. Find(b, "length") = First(Lengths) /\ Find(b, "connection") = First(Connections)
    BY FindIs
  <2>. HIDE DEF Lengths, Connections
  <2>. QED  BY <2>1, Zenon DEF Parse
<1>5. r.close \in BOOLEAN /\ r.body \in Seq(Field) /\ r.line \in Lines
  BY DEF RequestSet
<1>. HIDE DEF T, h, m, n
<1>6. ASSUME n < h PROVE First(Ends) = 0
  <2>1. \A i \in 1 .. n : i \in 1 .. h - 1 /\ i <= Len(T)
    BY <1>1, <1>6
  <2>2. \A i \in 1 .. n : b[i] # <<"end">>
    BY <1>2, <1>3, <2>1
  <2>3. Ends = {}
    BY <1>1, <2>2
  <2>. QED  BY <2>3 DEF First
<1>7. ASSUME n >= h PROVE First(Ends) = h
  <2>1. h \in 1 .. n /\ h <= Len(T)
    BY <1>1, <1>7
  <2>2. h \in Ends
    BY <1>1, <1>3, <2>1
  <2>3. ASSUME NEW i \in Ends PROVE h <= i
    <3>. SUFFICES ASSUME i < h PROVE FALSE
      BY <1>1
    <3>1. i \in 1 .. h - 1 /\ i \in 1 .. n /\ i <= Len(T)
      BY <1>1
    <3>. QED  BY <1>2, <1>3, <3>1
  <2>4. Ends \in SUBSET Nat
    BY <1>1
  <2>. HIDE DEF Ends
  <2>. QED  BY <2>2, <2>3, <2>4, FirstIs
<1>8. ASSUME Malformed(r) PROVE Parse(b) = Incomplete
  <2>1. CASE n < h
    <3>. HIDE DEF Ends, Lengths, Connections
    <3>. QED  BY <1>4, <1>6, <2>1
  <2>2. CASE n >= h
    <3>1. 1 \in 1 .. n /\ 1 <= Len(T)
      BY <1>1, <2>2
    <3>2. b[1] = <<"garbage">>
      BY <1>1, <1>3, <1>8, <3>1 DEF Malformed
    <3>3. b[1][1] # "line"
      BY <3>2
    <3>. HIDE DEF Ends, Lengths, Connections
    <3>. QED  BY <1>4, <3>3
  <2>. QED  BY <1>1, <2>1, <2>2
<1>9. ASSUME n >= h
      PROVE  (IF First(Lengths) \in 1 .. First(Ends) THEN b[First(Lengths)][2] ELSE 0) = m
  <2>1. Lengths \in SUBSET Nat
    OBVIOUS
  <2>2. CASE r.body = <<>>
    <3>1. First(Lengths) \notin 1 .. h
      <4>1. \A i \in Lengths : i \notin 1 .. h
        <5>. SUFFICES ASSUME NEW i \in Lengths, i \in 1 .. h PROVE FALSE
          OBVIOUS
        <5>1. i \in 1 .. n /\ i <= Len(T) /\ (i # h => i \in 1 .. h - 1)
          BY <1>1, <1>9
        <5>2. b[i] = T[i] /\ b[i][1] = "length"
          BY <1>3, <5>1
        <5>. QED  BY <1>1, <1>2, <2>2, <5>1, <5>2
      <4>. HIDE DEF Lengths
      <4>. QED  BY <2>1, <4>1, FirstIsOne
    <3>2. m = 0
      BY <2>2 DEF m
    <3>. HIDE DEF Lengths, Ends
    <3>. QED  BY <1>7, <1>9, <3>1, <3>2
  <2>3. CASE r.body # <<>>
    <3>1. 2 \in 1 .. n /\ 2 <= Len(T) /\ h > 2 /\ 2 \in 1 .. h /\ 1 \in 1 .. n /\ 1 <= Len(T)
          /\ 1 \in 1 .. h - 1
      BY <1>1, <1>9, <2>3
    <3>2. b[2] = <<"length", m, sp>>
      BY <1>1, <1>3, <2>3, <3>1
    <3>3. 2 \in Lengths
      BY <3>1, <3>2 DEF n
    <3>4. 1 \notin Lengths
      BY <1>2, <1>3, <3>1
    <3>5. \A i \in Lengths : 2 <= i
      <4>1. \A i \in Lengths : i \in Nat /\ i >= 1
        OBVIOUS
      <4>. HIDE DEF Lengths
      <4>. QED  BY <3>4, <4>1
    <3>. HIDE DEF Lengths, Ends
    <3>6. First(Lengths) = 2
      BY <2>1, <3>3, <3>5, FirstIs
    <3>. QED  BY <1>7, <1>9, <3>1, <3>2, <3>6
  <2>. QED  BY <2>2, <2>3
<1>10. ASSUME n >= h
       PROVE  (First(Connections) \in 1 .. First(Ends) /\ b[First(Connections)][2] = "close") <=> r.close
  <2>1. Connections \in SUBSET Nat
    OBVIOUS
  <2>0. \A i \in Connections : i \in 1 .. h => i = h - 1 /\ r.close
    <3>. SUFFICES ASSUME NEW i \in Connections, i \in 1 .. h PROVE i = h - 1 /\ r.close
      OBVIOUS
    <3>1. i \in 1 .. n /\ i <= Len(T) /\ (i # h => i \in 1 .. h - 1)
      BY <1>1, <1>10
    <3>2. b[i] = T[i] /\ b[i][1] = "connection"
      BY <1>3, <3>1
    <3>. QED  BY <1>1, <1>2, <3>1, <3>2
  <2>2. CASE ~ r.close
    <3>. HIDE DEF Connections, Ends
    <3>1. First(Connections) \notin 1 .. h
      BY <2>0, <2>1, <2>2, FirstIsOne
    <3>. QED  BY <1>7, <1>10, <2>2, <3>1
  <2>3. CASE r.close
    <3>1. h - 1 \in 1 .. n /\ h - 1 <= Len(T) /\ h > 2 /\ h - 1 \in 1 .. h
      BY <1>1, <1>10, <2>3
    <3>2. b[h - 1] = <<"connection", "close", sp>>
      BY <1>1, <1>3, <2>3, <3>1
    <3>3. h - 1 \in Connections
      BY <3>1, <3>2 DEF n
    <3>4. \A i \in Connections : h - 1 <= i
      <4>1. \A i \in Connections : i \in Nat /\ i >= 1
        OBVIOUS
      <4>. HIDE DEF Connections
      <4>2. \A i \in Connections : i <= h => i = h - 1
        BY <1>1, <2>0, <4>1
      <4>. QED  BY <1>1, <4>1, <4>2
    <3>. HIDE DEF Connections, Ends
    <3>5. First(Connections) = h - 1
      BY <2>1, <3>3, <3>4, FirstIs
    <3>. QED  BY <1>7, <1>10, <2>3, <3>1, <3>2, <3>5
  <2>. QED  BY <1>5, <2>2, <2>3
<1>11. ASSUME n < Len(T) PROVE Parse(b) = Incomplete
  <2>. HIDE DEF Ends, Lengths, Connections
  <2>1. CASE n < h
    BY <1>4, <1>6, <2>1
  <2>2. CASE n >= h
    <3>1. First(Ends) = h /\ Len(b) < h + m
      BY <1>1, <1>7, <1>11, <2>2 DEF n
    <3>. QED  BY <1>4, <1>9, <2>2, <3>1
  <2>. QED  BY <1>1, <2>1, <2>2
<1>12. ASSUME ~ Malformed(r), n >= Len(T)
       PROVE  Parse(b) = [consumed |-> Len(T), method |-> r.line[2], path |-> r.line[3],
                          body |-> r.body, keepAlive |-> ~ r.close]
  <2>1. n >= h /\ 1 \in 1 .. n /\ 1 <= Len(T) /\ ~ (n < h + m) /\ h # 0
    BY <1>1, <1>12
  <2>2. b[1] = r.line /\ r.line[1] = "line"
    <3>1. b[1] = r.line
      BY <1>1, <1>3, <2>1
    <3>2. r.line \in {"line"} \X Words \X Words
      BY <1>5, <1>12 DEF Malformed, Lines
    <3>. QED  BY <3>1, <3>2
  <2>3. SubSeq(b, h + 1, h + m) = r.body
    <3>1. \A i \in 1 .. m : h + i \in 1 .. n /\ h + i <= Len(T)
      BY <1>1, <2>1
    <3>2. \A i \in 1 .. m : b[h + i] = r.body[i]
      BY <1>1, <1>3, <3>1
    <3>3. PICK s : s = SubSeq(b, h + 1, h + m)
      OBVIOUS
    <3>4. Len(s) = m /\ s \in Seq(TokenSet(sp)) /\ \A i \in 1 .. m : s[i] = b[h + i]
      <4>1. PICK k \in Nat, g \in Nat : k = m /\ g = h
        BY <1>1
      <4>2. g + k <= Len(b)
        BY <1>1, <2>1, <4>1 DEF n
      <4>3. PICK X : X = TokenSet(sp)
        OBVIOUS
      <4>4. b \in Seq(X) /\ s = SubSeq(b, g + 1, g + k)
        BY <3>3, <4>1, <4>3
      <4>5. s \in Seq(X) /\ Len(s) = k /\ \A i \in 1 .. k : s[i] = b[g + i]
        BY ONLY k \in Nat, g \in Nat, <4>2, <4>4
      <4>. QED  BY <4>1, <4>3, <4>5
    <3>5. r.body \in Seq(TokenSet(sp)) /\ Len(r.body) = m
      BY <1>5 DEF TokenSet, m
    <3>6. \A i \in 1 .. Len(s) : s[i] = r.body[i]
      BY <3>2, <3>4
    <3>7. Len(s) = Len(r.body)
      BY <3>4, <3>5
    <3>8. s = r.body
      BY ONLY <3>4, <3>5, <3>6, <3>7, SeqEqual
    <3>. QED  BY <3>3, <3>8
  <2>. HIDE DEF Ends, Lengths, Connections
  <2>4. First(Ends) = h
    BY <1>7, <2>1
  <2>5. ~ (Len(b) < h + m)
    BY <2>1 DEF n
  <2>6. Parse(b) = [consumed  |-> h + m, method |-> b[1][2], path |-> b[1][3],
                    body      |-> SubSeq(b, h + 1, h + m),
                    keepAlive |-> ~ r.close]
    BY <1>4, <1>9, <1>10, <2>1, <2>2, <2>4, <2>5
  <2>. QED  BY <1>1, <2>2, <2>3, <2>6
<1>. QED  BY <1>8, <1>11, <1>12 DEF T, n

\* The tokens of the requests behind the first n.
TokensFrom(s, n, sp) == [i \in 1 .. Len(s) - n |-> Tokens(s[n + i], sp)]

LEMMA TokensFromIs ==
    ASSUME NEW sp \in Spellings, NEW s \in Seq(RequestSet), NEW n \in Nat, n <= Len(s)
    PROVE  /\ TokensFrom(s, n, sp) \in Seq(Seq(TokenSet(sp))) /\ Len(TokensFrom(s, n, sp)) = Len(s) - n
           /\ \A i \in 1 .. Len(s) - n : TokensFrom(s, n, sp)[i] = Tokens(s[n + i], sp)
<1>1. Len(s) - n \in Nat
  OBVIOUS
<1>2. \A i \in 1 .. Len(s) - n : Tokens(s[n + i], sp) \in Seq(TokenSet(sp))
  <2>1. \A i \in 1 .. Len(s) - n : n + i \in 1 .. Len(s)
    BY <1>1
  <2>. QED  BY <2>1, TokensAre
<1>3. TokensFrom(s, n, sp) \in [1 .. Len(s) - n -> Seq(TokenSet(sp))]
  BY <1>2 DEF TokensFrom
<1>4. PICK k \in Nat : k = Len(s) - n
  BY <1>1
<1>5. TokensFrom(s, n, sp) \in [1 .. k -> Seq(TokenSet(sp))]
  BY <1>3, <1>4
<1>6. TokensFrom(s, n, sp) \in Seq(Seq(TokenSet(sp))) /\ Len(TokensFrom(s, n, sp)) = k
  BY ONLY k \in Nat, <1>5
<1>7. \A i \in 1 .. Len(s) - n : TokensFrom(s, n, sp)[i] = Tokens(s[n + i], sp)
  BY DEF TokensFrom
<1>. QED  BY <1>4, <1>6, <1>7

LEMMA TokensFromAppend ==
    ASSUME NEW sp \in Spellings, NEW s \in Seq(RequestSet), NEW n \in Nat, n <= Len(s), NEW m \in RequestSet
    PROVE  TokensFrom(Append(s, m), n, sp) = Append(TokensFrom(s, n, sp), Tokens(m, sp))
<1>. DEFINE t == Append(s, m)
<1>1. /\ t \in Seq(RequestSet) /\ Len(t) = Len(s) + 1 /\ Len(s) \in Nat /\ t[Len(s) + 1] = m
      /\ \A i \in 1 .. Len(s) : t[i] = s[i]
  OBVIOUS
<1>. HIDE DEF t
<1>2. /\ TokensFrom(t, n, sp) \in Seq(Seq(TokenSet(sp))) /\ Len(TokensFrom(t, n, sp)) = Len(s) + 1 - n
      /\ \A i \in 1 .. Len(s) + 1 - n : TokensFrom(t, n, sp)[i] = Tokens(t[n + i], sp)
  <2>1. n <= Len(t) /\ Len(t) - n = Len(s) + 1 - n
    BY <1>1
  <2>2. /\ TokensFrom(t, n, sp) \in Seq(Seq(TokenSet(sp))) /\ Len(TokensFrom(t, n, sp)) = Len(t) - n
        /\ \A i \in 1 .. Len(t) - n : TokensFrom(t, n, sp)[i] = Tokens(t[n + i], sp)
    BY <1>1, <2>1, TokensFromIs
  <2>. QED  BY <2>1, <2>2
<1>3. /\ TokensFrom(s, n, sp) \in Seq(Seq(TokenSet(sp))) /\ Len(TokensFrom(s, n, sp)) = Len(s) - n
      /\ \A i \in 1 .. Len(s) - n : TokensFrom(s, n, sp)[i] = Tokens(s[n + i], sp)
  BY TokensFromIs
<1>4. PICK u \in Seq(Seq(TokenSet(sp))), v \in Seq(Seq(TokenSet(sp))), x \in Seq(TokenSet(sp)) :
          u = TokensFrom(t, n, sp) /\ v = TokensFrom(s, n, sp) /\ x = Tokens(m, sp)
  BY <1>2, <1>3, TokensAre
<1>5. Len(u) = Len(v) + 1 /\ \A i \in 1 .. Len(v) : u[i] = v[i]
  <2>1. ASSUME NEW i \in 1 .. Len(s) - n PROVE TokensFrom(t, n, sp)[i] = TokensFrom(s, n, sp)[i]
    <3>1. n + i \in 1 .. Len(s) /\ i \in 1 .. Len(s) + 1 - n
      BY <1>1
    <3>. QED  BY <1>1, <1>2, <1>3, <3>1
  <2>. QED  BY <1>1, <1>2, <1>3, <1>4, <2>1
<1>6. u[Len(v) + 1] = x
  <2>1. Len(s) + 1 - n \in 1 .. Len(s) + 1 - n /\ n + (Len(s) + 1 - n) = Len(s) + 1
    BY <1>1
  <2>2. Len(v) = Len(s) - n
    BY <1>3, <1>4
  <2>3. Len(v) + 1 = Len(s) + 1 - n
    BY ONLY <1>1, <2>2, n \in Nat
  <2>. QED  BY <1>1, <1>2, <1>4, <2>1, <2>3
<1>7. u = Append(v, x)
  BY ONLY SMTT(60), u \in Seq(Seq(TokenSet(sp))), v \in Seq(Seq(TokenSet(sp))), x \in Seq(TokenSet(sp)), <1>5, <1>6
<1>. QED  BY <1>4, <1>7 DEF t

LEMMA TokensFromFirst ==
    ASSUME NEW sp \in Spellings, NEW s \in Seq(RequestSet), NEW n \in Nat, n < Len(s)
    PROVE  FlattenSeq(TokensFrom(s, n, sp)) = Tokens(s[n + 1], sp) \o FlattenSeq(TokensFrom(s, n + 1, sp))
<1>1. /\ TokensFrom(s, n, sp) \in Seq(Seq(TokenSet(sp))) /\ Len(TokensFrom(s, n, sp)) = Len(s) - n
      /\ \A i \in 1 .. Len(s) - n : TokensFrom(s, n, sp)[i] = Tokens(s[n + i], sp)
  BY TokensFromIs
<1>2. /\ TokensFrom(s, n + 1, sp) \in Seq(Seq(TokenSet(sp))) /\ Len(TokensFrom(s, n + 1, sp)) = Len(s) - (n + 1)
      /\ \A i \in 1 .. Len(s) - (n + 1) : TokensFrom(s, n + 1, sp)[i] = Tokens(s[(n + 1) + i], sp)
  <2>1. n + 1 \in Nat /\ n + 1 <= Len(s)
    OBVIOUS
  <2>. QED  BY <2>1, TokensFromIs
<1>3. \A i \in 1 .. Len(s) - (n + 1) : TokensFrom(s, n, sp)[i + 1] = TokensFrom(s, n + 1, sp)[i]
  <2>. SUFFICES ASSUME NEW i \in 1 .. Len(s) - (n + 1)
                PROVE  TokensFrom(s, n, sp)[i + 1] = TokensFrom(s, n + 1, sp)[i]
    OBVIOUS
  <2>1. i + 1 \in 1 .. Len(s) - n /\ n + (i + 1) = (n + 1) + i
    OBVIOUS
  <2>. QED  BY <1>1, <1>2, <2>1
<1>4. Len(TokensFrom(s, n, sp)) = Len(TokensFrom(s, n + 1, sp)) + 1
  <2>1. Len(s) - n = (Len(s) - (n + 1)) + 1
    OBVIOUS
  <2>. QED  BY <1>1, <1>2, <2>1
<1>5. FlattenSeq(TokensFrom(s, n, sp)) = TokensFrom(s, n, sp)[1] \o FlattenSeq(TokensFrom(s, n + 1, sp))
  BY <1>1, <1>2, <1>3, <1>4, FlattenFirst
<1>6. TokensFrom(s, n, sp)[1] = Tokens(s[n + 1], sp)
  <2>1. 1 \in 1 .. Len(s) - n
    OBVIOUS
  <2>. QED  BY <1>1, <2>1
<1>. QED  BY <1>5, <1>6

\* What the requests make together is a sequence of tokens.
LEMMA TokensFromSeq ==
    ASSUME NEW sp \in Spellings, NEW s \in Seq(RequestSet), NEW n \in Nat, n <= Len(s)
    PROVE  FlattenSeq(TokensFrom(s, n, sp)) \in Seq(TokenSet(sp))
<1>1. TokensFrom(s, n, sp) \in Seq(Seq(TokenSet(sp))) /\ <<>> \in Seq(TokenSet(sp))
  BY TokensFromIs
<1>. QED  BY <1>1, FlattenAppend
-----------------------------------------------------------------------------
(* A recommendation (Recommendation.tla)                                     *)

\* A cache whose values are those of the database.
Coherent(c) ==
    /\ c = [next |-> c.next, prev |-> c.prev, value |-> c.value]
    /\ \A k \in Cached(c) : c.value[k] = GenerateRandom(k)

LEMMA RemoveKeepsValues ==
    ASSUME NEW c, NEW k, c = [next |-> c.next, prev |-> c.prev, value |-> c.value]
    PROVE  \E n, p : RemoveNode(c, k) = [next |-> n, prev |-> p, value |-> c.value]
<1>1. PICK n0, p0, v0 : c = [next |-> n0, prev |-> p0, value |-> v0]
  OBVIOUS
<1>2. c.next = n0 /\ c.prev = p0 /\ c.value = v0
  BY <1>1
<1>. DEFINE n == [n0 EXCEPT ![p0[k]] = n0[k]]
            p == [p0 EXCEPT ![n0[k]] = p0[k]]
<1>3. RemoveNode(c, k) = [c EXCEPT !.next = n, !.prev = p]
  BY <1>1, <1>2 DEF RemoveNode
<1>. HIDE DEF n, p
<1>4. RemoveNode(c, k) = [next |-> n, prev |-> p, value |-> v0]
  BY <1>1, <1>3
<1>. QED  BY <1>2, <1>4

LEMMA InsertKeepsValues ==
    ASSUME NEW c, NEW k, c = [next |-> c.next, prev |-> c.prev, value |-> c.value]
    PROVE  \E n, p : InsertToHead(c, k) = [next |-> n, prev |-> p, value |-> c.value]
<1>1. PICK n0, p0, v0 : c = [next |-> n0, prev |-> p0, value |-> v0]
  OBVIOUS
<1>2. c.next = n0 /\ c.prev = p0 /\ c.value = v0
  BY <1>1
<1>. DEFINE n == Binding(Binding(n0, k, n0[Head0]), Head0, k)
            p == Binding(Binding(p0, k, Head0), n0[Head0], k)
<1>3. InsertToHead(c, k) = [c EXCEPT !.next = n, !.prev = p]
  BY <1>1, <1>2 DEF InsertToHead
<1>. HIDE DEF n, p
<1>4. InsertToHead(c, k) = [next |-> n, prev |-> p, value |-> v0]
  BY <1>1, <1>3
<1>. QED  BY <1>2, <1>4

LEMMA MoveKeepsValues ==
    ASSUME NEW c, NEW k, c = [next |-> c.next, prev |-> c.prev, value |-> c.value]
    PROVE  \E n, p : MoveToHead(c, k) = [next |-> n, prev |-> p, value |-> c.value]
<1>1. PICK n0, p0 : RemoveNode(c, k) = [next |-> n0, prev |-> p0, value |-> c.value]
  BY RemoveKeepsValues
<1>2. PICK d : d = RemoveNode(c, k)
  OBVIOUS
<1>3. d = [next |-> d.next, prev |-> d.prev, value |-> d.value] /\ d.value = c.value
  BY <1>1, <1>2
<1>4. PICK n1, p1 : InsertToHead(d, k) = [next |-> n1, prev |-> p1, value |-> d.value]
  BY <1>3, InsertKeepsValues
<1>. QED  BY <1>2, <1>3, <1>4 DEF MoveToHead

\* What the store reads is what the database holds, and remains so.
LEMMA FetchIsCoherent ==
    ASSUME NEW c, Coherent(c), NEW k, NEW limit
    PROVE  Feature(c, k) = GenerateRandom(k) /\ Coherent(Fetch(c, k, limit))
<1>1. c = [next |-> c.next, prev |-> c.prev, value |-> c.value]
  BY DEF Coherent
<1>2. CASE k \in Cached(c)
  <2>1. Feature(c, k) = GenerateRandom(k)
    BY <1>2 DEF Feature, Coherent
  <2>2. Fetch(c, k, limit) = MoveToHead(c, k)
    BY <1>2 DEF Fetch, Get
  <2>3. PICK n, p : MoveToHead(c, k) = [next |-> n, prev |-> p, value |-> c.value]
    BY <1>1, MoveKeepsValues
  <2>4. PICK d : d = MoveToHead(c, k)
    OBVIOUS
  <2>5. d.value = c.value /\ d = [next |-> d.next, prev |-> d.prev, value |-> d.value]
    BY <2>3, <2>4
  <2>6. Coherent(d)
    BY <2>5 DEF Coherent, Cached
  <2>. QED  BY <2>1, <2>2, <2>4, <2>6
<1>3. CASE k \notin Cached(c)
  <2>1. Feature(c, k) = GenerateRandom(k)
    BY <1>3 DEF Feature
  <2>. DEFINE e == [c EXCEPT !.value = Binding(@, k, GenerateRandom(k))]
              more == InsertToHead(e, k)
              old == more.prev[Tail0]
  <2>2. e = [next |-> c.next, prev |-> c.prev, value |-> Binding(c.value, k, GenerateRandom(k))]
    BY <1>1
  <2>3. /\ e = [next |-> e.next, prev |-> e.prev, value |-> e.value]
        /\ e.value = Binding(c.value, k, GenerateRandom(k))
    BY <2>2
  <2>. HIDE DEF e
  <2>4. PICK n, p : InsertToHead(e, k) = [next |-> n, prev |-> p, value |-> e.value]
    BY <2>3, InsertKeepsValues
  <2>5. /\ more = [next |-> more.next, prev |-> more.prev, value |-> more.value]
        /\ more.value = Binding(c.value, k, GenerateRandom(k))
    BY <2>3, <2>4
  <2>6. Fetch(c, k, limit) = IF Size(more) <= limit THEN more ELSE Erase(RemoveTail(more), old)
    BY <1>3 DEF Fetch, Put, e
  <2>. HIDE DEF more
  <2>7. /\ DOMAIN more.value = Cached(c) \union {k}
        /\ \A z \in Cached(c) \union {k} : more.value[z] = GenerateRandom(z)
    BY <1>3, <2>5 DEF Coherent, Binding, Cached
  <2>8. Coherent(more)
    BY <2>5, <2>7 DEF Coherent, Cached
  <2>9. Coherent(Erase(RemoveTail(more), old))
    <3>. HIDE DEF old
    <3>1. PICK n1, p1 : RemoveNode(more, more.prev[Tail0]) = [next |-> n1, prev |-> p1, value |-> more.value]
      BY ZenonT(60), <2>5, RemoveKeepsValues
    <3>2. PICK d : d = RemoveTail(more)
      OBVIOUS
    <3>3. d.value = more.value
      BY <3>1, <3>2 DEF RemoveTail
    <3>4. PICK f, g : Erase(d, old) = [next |-> f, prev |-> g,
                                       value |-> Restrict(more.value, DOMAIN more.value \ {old})]
      BY <3>3 DEF Erase, Cached
    <3>5. PICK x : x = Erase(d, old)
      OBVIOUS
    <3>6. /\ x = [next |-> x.next, prev |-> x.prev, value |-> x.value]
          /\ x.value = Restrict(more.value, DOMAIN more.value \ {old})
      BY <3>4, <3>5
    <3>7. DOMAIN x.value = DOMAIN more.value \ {old}
          /\ \A z \in DOMAIN x.value : x.value[z] = more.value[z]
      BY <3>6 DEF Restrict
    <3>8. Coherent(x)
      BY <2>7, <3>6, <3>7 DEF Coherent, Cached
    <3>. QED  BY <3>2, <3>5, <3>8
  <2>. QED  BY <2>1, <2>6, <2>8, <2>9
<1>. QED  BY <1>2, <1>3

LEMMA NewIsCoherent == Coherent(NewCache)
<1>1. NewCache.value = <<>> /\ NewCache = [next |-> NewCache.next, prev |-> NewCache.prev, value |-> NewCache.value]
  BY DEF NewCache
<1>2. Cached(NewCache) = {}
  BY <1>1 DEF Cached
<1>. QED  BY <1>1, <1>2 DEF Coherent
\* A prefix of a permutation sorted by the scores holds the best candidates.
LEMMA SortedIsBest ==
    ASSUME NEW user \in Nat, NEW count \in Nat, NEW scores, NEW order,
           Valid(user, count), DOMAIN scores = Items,
           \A i \in Items : scores[i] = Score(GenerateRandom(user), GenerateRandom(i), i),
           order \in Sorted(scores),
           NEW result, result = SubSeq(order, 1, IF count < ItemCount THEN count ELSE ItemCount)
    PROVE  result \in Seq(Items) /\ BestFor(user, count, result)
<1>. DEFINE m == IF count < ItemCount THEN count ELSE ItemCount
            best(i) == Score(GenerateRandom(user), GenerateRandom(i), i)
<1>1. ItemCount \in Nat /\ m \in Nat /\ m <= ItemCount
  BY CapacityAssumption
<1>2. IsFiniteSet(Items) /\ Cardinality(Items) = ItemCount
  <2>1. PICK N \in Nat : N = ItemCount
    BY <1>1
  <2>2. IsFiniteSet(1 .. N) /\ Cardinality(1 .. N) = N
    BY FS_Interval
  <2>. QED  BY <2>1, <2>2 DEF Items
<1>3. /\ order \in [Items -> Items]
      /\ \A i, j \in Items : i # j => order[i] # order[j]
      /\ \A i, j \in Items : i < j => scores[order[i]] >= scores[order[j]]
  BY <1>2 DEF Sorted, SetToSeqs, Items
<1>4. \A j \in Items : \E i \in Items : order[i] = j
  <2>1. order \in Injection(Items, Items)
    BY <1>3 DEF Injection, IsInjective
  <2>2. order \in Surjection(Items, Items)
    BY <1>2, <2>1, FS_Injection
  <2>. QED  BY <2>2 DEF Surjection
<1>5. \A i, j \in Items : i < j => best(order[i]) >= best(order[j])
  BY <1>3
<1>. HIDE DEF best
<1>6. /\ result \in Seq(Items) /\ Len(result) = m /\ DOMAIN result = 1 .. m
      /\ \A i \in 1 .. m : result[i] = order[i]
  <2>1. PICK N \in Nat, k \in Nat : N = ItemCount /\ k = m /\ k <= N
    BY <1>1
  <2>2. order \in Seq(Items) /\ Len(order) = N
    BY <1>3, <2>1 DEF Items
  <2>3. result = SubSeq(order, 1, k)
    BY <2>1
  <2>4. result \in Seq(Items) /\ Len(result) = k /\ \A i \in 1 .. k : result[i] = order[i]
    <3>1. k \in Nat /\ N \in Nat /\ k <= N
      BY <2>1
    <3>. QED  BY ONLY <2>2, <2>3, <3>1
  <2>5. DOMAIN result = 1 .. k
    BY <2>4
  <2>. QED  BY <2>1, <2>4, <2>5
<1>7. 1 .. m \subseteq Items
  BY <1>1 DEF Items
<1>. HIDE DEF m
<1>8. Cardinality(Range(result)) = m /\ Range(result) \subseteq Items
  <2>1. PICK R : R = Range(result)
    OBVIOUS
  <2>2. R = {result[i] : i \in 1 .. m}
    BY <1>6, <2>1 DEF Range
  <2>3. R \subseteq Items
    BY <1>3, <1>6, <1>7, <2>2
  <2>4. \A i, j \in 1 .. m : result[i] = result[j] => i = j
    BY <1>3, <1>6, <1>7
  <2>5. result = [i \in 1 .. m |-> result[i]]
    BY <1>6
  <2>6. result \in [1 .. m -> R]
    BY <2>2, <2>5
  <2>7. result \in Surjection(1 .. m, R) /\ result \in Injection(1 .. m, R)
    <3>1. \A t \in R : \E i \in 1 .. m : result[i] = t
      BY <2>2
    <3>2. DOMAIN result = 1 .. m
      BY <1>6
    <3>. QED  BY <2>4, <2>6, <3>1, <3>2 DEF Surjection, Injection, IsInjective
  <2>8. IsFiniteSet(1 .. m) /\ Cardinality(1 .. m) = m
    BY <1>1, FS_Interval
  <2>9. Cardinality(R) = Cardinality(1 .. m)
    BY <2>7, <2>8, FS_Surjection
  <2>. QED  BY <2>1, <2>3, <2>8, <2>9
<1>9. \A i, j \in DOMAIN result : i < j => best(result[i]) >= best(result[j])
  BY <1>5, <1>6, <1>7
<1>10. ASSUME NEW i \in Range(result), NEW j \in Items \ Range(result) PROVE best(i) >= best(j)
  <2>1. PICK p \in 1 .. m : i = order[p]
    BY <1>6 DEF Range
  <2>2. PICK q \in Items : j = order[q]
    BY <1>4
  <2>3. q \notin 1 .. m
    BY <1>6, <2>2 DEF Range
  <2>4. p \in Items /\ p < q
    BY <1>1, <1>7, <2>3 DEF Items
  <2>. QED  BY <1>5, <2>1, <2>2, <2>4
<1>. QED  BY <1>6, <1>8, <1>9, <1>10 DEF BestFor, best, m

\* The locals of the handler: every step works on the vectors of the database.
JobInv ==
    /\ Coherent(users) /\ Coherent(items)
    /\ job = [at |-> job.at, user |-> job.user, count |-> job.count,
              vector |-> job.vector, scores |-> job.scores, result |-> job.result]
    /\ job.at \in {"none", "user", "items", "done"}
    /\ job.user \in Nat /\ job.count \in Nat /\ job.result \in Seq(Items)
    /\ job.at = "none" => job = NoJob
    /\ job.at \in {"user", "items"} => Valid(job.user, job.count)
    /\ job.at = "user" => job.scores = <<>>
    /\ job.at = "items" =>
          /\ job.vector = GenerateRandom(job.user)
          /\ \E n \in 0 .. ItemCount :
                job.scores = [i \in 1 .. n |-> Score(GenerateRandom(job.user), GenerateRandom(i), i)]
    /\ job.at = "done" => BestFor(job.user, job.count, job.result)

LEMMA JobStart == RecommendationInit => JobInv
<1>. SUFFICES ASSUME RecommendationInit PROVE JobInv
  OBVIOUS
<1>1. Coherent(users) /\ Coherent(items) /\ job = NoJob
  BY NewIsCoherent DEF RecommendationInit
<1>. QED  BY <1>1 DEF JobInv, NoJob

\* The handler begins.
LEMMA JobBegins ==
    ASSUME NEW user \in Nat, NEW count \in Nat, Coherent(users), Coherent(items), UNCHANGED storeVars,
           HandleRecommendation(user, count)
    PROVE  JobInv' /\ job' # NoJob /\ job'.user = user /\ job'.count = count
<1>1. job' = [at |-> IF Valid(user, count) THEN "user" ELSE "done", user |-> user, count |-> count,
              vector |-> 0, scores |-> <<>>, result |-> <<>>]
  BY DEF HandleRecommendation, NoJob
<1>2. (Coherent(users) /\ Coherent(items))'
  BY DEF storeVars
<1>3. Valid(user, count) \in BOOLEAN
  BY DEF Valid
<1>4. ~ Valid(user, count) => BestFor(user, count, <<>>)
  BY DEF BestFor
<1>5. CASE Valid(user, count)
  <2>1. job' = [at |-> "user", user |-> user, count |-> count,
                vector |-> 0, scores |-> <<>>, result |-> <<>>]
    BY <1>1, <1>5
  <2>. QED  BY <1>2, <1>5, <2>1 DEF JobInv, NoJob
<1>6. CASE ~ Valid(user, count)
  <2>1. job' = [at |-> "done", user |-> user, count |-> count,
                vector |-> 0, scores |-> <<>>, result |-> <<>>]
    BY <1>1, <1>6
  <2>. QED  BY <1>2, <1>4, <1>6, <2>1 DEF JobInv, NoJob
<1>. QED  BY <1>5, <1>6

\* The handler goes on, for the same user and count.
LEMMA JobGoesOn ==
    ASSUME JobInv, Recommending
    PROVE  JobInv' /\ job # NoJob /\ job' # NoJob /\ job'.user = job.user /\ job'.count = job.count
<1>. DEFINE Scores(n) == [i \in 1 .. n |-> Score(GenerateRandom(job.user), GenerateRandom(i), i)]
<1>1. PICK a, u, k, v, s, r : job = [at |-> a, user |-> u, count |-> k, vector |-> v,
                                     scores |-> s, result |-> r]
  BY DEF JobInv
<1>2. job.at = a /\ job.user = u /\ job.count = k /\ job.vector = v /\ job.scores = s /\ job.result = r
  BY <1>1
<1>3. CASE GetUserFeature
  <2>1. /\ a = "user" /\ Valid(u, k) /\ s = <<>> /\ u \in Nat /\ k \in Nat /\ r \in Seq(Items)
        /\ Feature(users, u) = GenerateRandom(u) /\ Coherent(users') /\ Coherent(items')
    <3>1. Coherent(users) /\ Coherent(items) /\ a = "user"
      BY <1>2, <1>3 DEF JobInv, GetUserFeature
    <3>2. users' = Fetch(users, u, UserCapacity) /\ items' = items
      BY <1>2, <1>3 DEF GetUserFeature
    <3>. QED  BY <1>2, <3>1, <3>2, FetchIsCoherent DEF JobInv
  <2>2. job' = [at |-> "items", user |-> u, count |-> k, vector |-> GenerateRandom(u),
                scores |-> s, result |-> r]
    BY <1>1, <1>3, <2>1 DEF GetUserFeature
  <2>3. 0 \in 0 .. ItemCount
    BY CapacityAssumption
  <2>4. <<>> = [i \in 1 .. 0 |-> Score(GenerateRandom(u), GenerateRandom(i), i)]
    OBVIOUS
  <2>5. /\ job'.at = "items" /\ job'.user = u /\ job'.count = k /\ job'.vector = GenerateRandom(u)
        /\ job'.scores = s /\ job'.result = r
    BY <2>2
  <2>6. \E n \in 0 .. ItemCount :
            s = [i \in 1 .. n |-> Score(GenerateRandom(u), GenerateRandom(i), i)]
    BY <2>1, <2>3, <2>4
  <2>. QED  BY <1>2, <2>1, <2>2, <2>5, <2>6 DEF JobInv, NoJob
<1>4. CASE GetItemFeature
  <2>1. /\ a = "items" /\ Valid(u, k) /\ u \in Nat /\ k \in Nat /\ r \in Seq(Items)
        /\ v = GenerateRandom(u) /\ Coherent(users) /\ Coherent(items)
    BY <1>2, <1>4 DEF JobInv, GetItemFeature
  <2>2. PICK n \in 0 .. ItemCount :
            s = [i \in 1 .. n |-> Score(GenerateRandom(u), GenerateRandom(i), i)]
    BY <1>2, <2>1 DEF JobInv
  <2>3. n \in Nat /\ Len(s) = n
    BY <2>2, CapacityAssumption
  <2>4. /\ n + 1 <= ItemCount
        /\ job' = [job EXCEPT !.scores = Append(s, Score(v, Feature(items, n + 1), n + 1))]
        /\ items' = Fetch(items, n + 1, ItemCapacity) /\ users' = users
    BY <1>2, <1>4, <2>3 DEF GetItemFeature
  <2>5. Feature(items, n + 1) = GenerateRandom(n + 1) /\ Coherent(items') /\ Coherent(users')
    BY <2>1, <2>4, FetchIsCoherent
  <2>6. Append(s, Score(v, Feature(items, n + 1), n + 1))
          = [i \in 1 .. n + 1 |-> Score(GenerateRandom(u), GenerateRandom(i), i)]
    <3>. DEFINE best(i) == Score(GenerateRandom(u), GenerateRandom(i), i)
    <3>1. s = [i \in 1 .. n |-> best(i)] /\ Score(v, Feature(items, n + 1), n + 1) = best(n + 1)
      BY <2>1, <2>2, <2>5
    <3>. HIDE DEF best
    <3>2. PICK x : x = best(n + 1)
      OBVIOUS
    <3>3. PICK X : X = {best(i) : i \in 1 .. n + 1}
      OBVIOUS
    <3>4. s \in Seq(X) /\ x \in X
      <4>1. \A i \in 1 .. n : best(i) \in X
        BY <2>3, <3>3
      <4>. QED  BY <2>3, <3>1, <3>2, <3>3, <4>1
    <3>5. PICK t : t = Append(s, x)
      OBVIOUS
    <3>6. t \in Seq(X) /\ Len(t) = n + 1 /\ t[n + 1] = x /\ \A i \in 1 .. n : t[i] = s[i]
      BY ONLY <2>3, <3>4, <3>5
    <3>7. t = [i \in 1 .. n + 1 |-> t[i]]
      BY <3>6
    <3>8. \A i \in 1 .. n + 1 : t[i] = best(i)
      BY <2>3, <3>1, <3>2, <3>6
    <3>9. t = [i \in 1 .. n + 1 |-> best(i)]
      BY <3>7, <3>8
    <3>. QED  BY <3>1, <3>2, <3>5, <3>9 DEF best
  <2>7. PICK t : t = Append(s, Score(v, Feature(items, n + 1), n + 1))
    OBVIOUS
  <2>8. job' = [at |-> a, user |-> u, count |-> k, vector |-> v, scores |-> t, result |-> r]
    BY <1>1, <2>4, <2>7
  <2>9. /\ job'.at = a /\ job'.user = u /\ job'.count = k /\ job'.vector = v
        /\ job'.scores = t /\ job'.result = r
    BY <2>8
  <2>10. n + 1 \in 0 .. ItemCount
    BY <2>3, <2>4, CapacityAssumption
  <2>11. \E p \in 0 .. ItemCount :
            t = [i \in 1 .. p |-> Score(GenerateRandom(u), GenerateRandom(i), i)]
    BY <2>6, <2>7, <2>10
  <2>. QED  BY <1>2, <2>1, <2>5, <2>8, <2>9, <2>11 DEF JobInv, NoJob
<1>5. CASE Rank
  <2>1. /\ a = "items" /\ Valid(u, k) /\ u \in Nat /\ k \in Nat /\ v = GenerateRandom(u)
        /\ Coherent(users') /\ Coherent(items')
    BY <1>2, <1>5 DEF JobInv, Rank, storeVars
  <2>2. PICK n \in 0 .. ItemCount :
            s = [i \in 1 .. n |-> Score(GenerateRandom(u), GenerateRandom(i), i)]
    BY <1>2, <2>1 DEF JobInv
  <2>3. n \in Nat /\ Len(s) = n /\ Len(s) = ItemCount
    BY <1>2, <1>5, <2>2, CapacityAssumption DEF Rank
  <2>4. DOMAIN s = Items /\ \A i \in Items : s[i] = Score(GenerateRandom(u), GenerateRandom(i), i)
    BY <2>2, <2>3 DEF Items
  <2>5. PICK order \in Sorted(s) :
            job' = [job EXCEPT !.at = "done",
                      !.result = SubSeq(order, 1, IF k < ItemCount THEN k ELSE ItemCount)]
    BY <1>2, <1>5 DEF Rank
  <2>6. PICK x : x = SubSeq(order, 1, IF k < ItemCount THEN k ELSE ItemCount)
    OBVIOUS
  <2>7. x \in Seq(Items) /\ BestFor(u, k, x)
    BY <2>1, <2>4, <2>5, <2>6, SortedIsBest
  <2>8. job' = [at |-> "done", user |-> u, count |-> k, vector |-> v, scores |-> s, result |-> x]
    BY <1>1, <2>5, <2>6
  <2>9. /\ job'.at = "done" /\ job'.user = u /\ job'.count = k /\ job'.vector = v
        /\ job'.scores = s /\ job'.result = x
    BY <2>8
  <2>. QED  BY <1>2, <2>1, <2>7, <2>8, <2>9 DEF JobInv, NoJob
<1>. QED  BY <1>3, <1>4, <1>5 DEF Recommending
-----------------------------------------------------------------------------
(* The stream of a connection                                                *)

\* u and then v make w.
IsJoin(X, w, u, v) == u \in Seq(X) /\ v \in Seq(X) /\ w = u \o v

LEMMA JoinIs ==
    ASSUME NEW X, NEW u \in Seq(X), NEW v \in Seq(X)
    PROVE  \E w \in Seq(X) : IsJoin(X, w, u, v)
<1>1. PICK w : w = u \o v
  OBVIOUS
<1>2. w \in Seq(X)
  BY <1>1
<1>3. IsJoin(X, w, u, v)
  BY <1>1 DEF IsJoin
<1>. QED  BY <1>2, <1>3

LEMMA ThreeParts ==
    ASSUME NEW X, NEW b, NEW u, NEW v, NEW p, IsJoin(X, p, b, u),
           NEW q, IsJoin(X, q, u, v), NEW t, IsJoin(X, t, p, v)
    PROVE  IsJoin(X, t, b, q)
<1>1. b \in Seq(X) /\ u \in Seq(X) /\ v \in Seq(X) /\ p = b \o u /\ q = u \o v /\ t = p \o v
  BY DEF IsJoin
<1>2. (b \o u) \o v = b \o (u \o v)
  <2>. HIDE DEF IsJoin
  <2>. QED  BY <1>1, ConcatAssociative
<1>3. q \in Seq(X)
  BY <1>1
<1>. QED  BY <1>1, <1>2, <1>3 DEF IsJoin

\* u and then v, and s behind the first k elements.
IsCut(X, w, u, v) ==
    /\ w \in Seq(X) /\ u \in Seq(X) /\ v \in Seq(X) /\ Len(w) = Len(u) + Len(v)
    /\ \A i \in 1 .. Len(u) : u[i] = w[i]
    /\ \A i \in 1 .. Len(v) : v[i] = w[Len(u) + i]

IsRest(X, b, k, s) ==
    /\ s \in Seq(X) /\ Len(b) = k + Len(s)
    /\ \A i \in 1 .. Len(s) : s[i] = b[k + i]

LEMMA CutIs ==
    ASSUME NEW X, NEW w \in Seq(X), NEW m \in 1 .. Len(w),
           NEW u, u = SubSeq(w, 1, m), NEW v, v = SubSeq(w, m + 1, Len(w))
    PROVE  u \in Seq(X) /\ v \in Seq(X) /\ IsCut(X, w, u, v)
<1>1. PICK n \in Nat, l \in Nat : n = Len(w) /\ l = n - m
  <2>1. Len(w) \in Nat /\ Len(w) - m \in Nat
    OBVIOUS
  <2>. QED  BY <2>1, Zenon
<1>2. m \in Nat /\ n = m + l
  BY <1>1
<1>3. u \in Seq(X) /\ Len(u) = m /\ \A i \in 1 .. m : u[i] = w[i]
  <2>1. u = SubSeq(w, 1, m)
    OBVIOUS
  <2>. QED  BY ONLY w \in Seq(X), <1>1, <1>2, <2>1
<1>4. v \in Seq(X) /\ Len(v) = l /\ \A i \in 1 .. l : v[i] = w[m + i]
  <2>1. v = SubSeq(w, m + 1, m + l)
    BY <1>1, <1>2
  <2>. QED  BY ONLY w \in Seq(X), <1>1, <1>2, <2>1
<1>. QED  BY <1>1, <1>2, <1>3, <1>4 DEF IsCut

LEMMA CutSeq ==
    ASSUME NEW X, NEW b \in Seq(X), NEW w, NEW u, NEW v, IsCut(X, w, u, v), NEW f, IsJoin(X, f, b, u),
           NEW g, IsJoin(X, g, f, v)
    PROVE  IsJoin(X, g, b, w)
<1>0. /\ w \in Seq(X) /\ u \in Seq(X) /\ v \in Seq(X) /\ Len(w) = Len(u) + Len(v)
      /\ \A i \in 1 .. Len(u) : u[i] = w[i]
      /\ \A i \in 1 .. Len(v) : v[i] = w[Len(u) + i]
  BY DEF IsCut
<1>1. PICK k \in Nat, l \in Nat : k = Len(u) /\ l = Len(v)
  BY <1>0
<1>3. Len(w) = k + l
  BY <1>0, <1>1
<1>4. /\ u \in Seq(X) /\ Len(u) = k /\ \A i \in 1 .. k : u[i] = w[i]
      /\ v \in Seq(X) /\ Len(v) = l /\ \A i \in 1 .. l : v[i] = w[k + i]
  BY <1>0, <1>1
<1>5. PICK t : t = u \o v
  OBVIOUS
<1>6. u \in Seq(X) /\ v \in Seq(X)
  BY <1>4
<1>7. /\ t \in Seq(X) /\ Len(t) = Len(u) + Len(v)
      /\ \A i \in 1 .. Len(u) : t[i] = u[i]
      /\ \A i \in 1 .. Len(v) : t[Len(u) + i] = v[i]
  BY ONLY <1>5, <1>6, TwoParts
<1>8. Len(t) = Len(w)
  BY <1>3, <1>4, <1>7
<1>9. ASSUME NEW i \in 1 .. Len(w) PROVE t[i] = w[i]
  <2>1. CASE i \in 1 .. k
    BY <1>4, <1>7, <2>1
  <2>2. CASE i \notin 1 .. k
    <3>1. PICK j \in 1 .. l : i = k + j
      <4>1. i - k \in 1 .. l /\ i = k + (i - k)
        BY <1>3, <2>2
      <4>. QED  BY <4>1
    <3>. QED  BY <1>4, <1>7, <3>1
  <2>. QED  BY <2>1, <2>2
<1>10. t = w
  <2>1. t \in Seq(X)
    BY <1>7
  <2>. QED  BY ONLY <2>1, <1>0, <1>8, <1>9, SeqEqual
<1>11. IsJoin(X, w, u, v)
  BY <1>5, <1>6, <1>10 DEF IsJoin
<1>. QED  BY <1>11, ThreeParts

\* Two ways to cut a sequence in two.
LEMMA TwoCuts ==
    ASSUME NEW X, NEW t, NEW b, NEW w, IsJoin(X, t, b, w), NEW x, NEW y, IsJoin(X, t, x, y)
    PROVE  /\ \A i \in 1 .. Len(b) : i <= Len(x) => b[i] = x[i]
           /\ Len(b) + Len(w) = Len(x) + Len(y)
           /\ \A s : IsRest(X, b, Len(x), s) => IsJoin(X, y, s, w)
<1>1. /\ b \in Seq(X) /\ w \in Seq(X) /\ x \in Seq(X) /\ y \in Seq(X)
      /\ t = b \o w /\ t = x \o y
  BY DEF IsJoin
<1>2. /\ t \in Seq(X) /\ Len(t) = Len(b) + Len(w)
      /\ \A i \in 1 .. Len(b) : t[i] = b[i]
      /\ \A i \in 1 .. Len(w) : t[Len(b) + i] = w[i]
  <2>1. t = b \o w
    BY <1>1
  <2>. QED  BY ONLY <1>1, <2>1, TwoParts
<1>3. /\ Len(t) = Len(x) + Len(y)
      /\ \A i \in 1 .. Len(x) : t[i] = x[i]
      /\ \A i \in 1 .. Len(y) : t[Len(x) + i] = y[i]
  <2>1. t = x \o y
    BY <1>1
  <2>. QED  BY ONLY <1>1, <2>1, TwoParts
<1>4. \A i \in 1 .. Len(b) : i <= Len(x) => b[i] = x[i]
  BY <1>2, <1>3
<1>5. ASSUME NEW s, IsRest(X, b, Len(x), s)
      PROVE  IsJoin(X, y, s, w)
  <2>0. s \in Seq(X) /\ Len(b) = Len(x) + Len(s) /\ \A i \in 1 .. Len(s) : s[i] = b[Len(x) + i]
    BY <1>5 DEF IsRest
  <2>1. PICK k \in Nat, l \in Nat : k = Len(x) /\ l = Len(s)
    <3>1. Len(x) \in Nat /\ Len(s) \in Nat
      BY <1>1, <2>0
    <3>. QED  BY <3>1, Zenon
  <2>2. Len(b) = k + l /\ Len(y) = l + Len(w)
    BY <1>2, <1>3, <2>0, <2>1
  <2>4. Len(s) = l /\ \A i \in 1 .. l : s[i] = b[k + i]
    BY <2>0, <2>1
  <2>5. PICK z : z = s \o w
    OBVIOUS
  <2>7. /\ z \in Seq(X) /\ Len(z) = Len(s) + Len(w)
        /\ \A i \in 1 .. Len(s) : z[i] = s[i]
        /\ \A i \in 1 .. Len(w) : z[Len(s) + i] = w[i]
    BY ONLY <1>1, <2>0, <2>5, TwoParts
  <2>8. Len(z) = Len(y)
    BY <2>2, <2>4, <2>7
  <2>9. ASSUME NEW i \in 1 .. Len(y) PROVE z[i] = y[i]
    <3>1. y[i] = t[k + i]
      BY <1>3, <2>1
    <3>2. CASE i \in 1 .. l
      <4>1. k + i \in 1 .. Len(b)
        BY <2>2, <3>2
      <4>. QED  BY <1>2, <2>4, <2>7, <3>1, <3>2, <4>1
    <3>3. CASE i \notin 1 .. l
      <4>1. PICK j \in 1 .. Len(w) : i = l + j
        <5>1. i - l \in 1 .. Len(w) /\ i = l + (i - l)
          BY <2>2, <3>3
        <5>. QED  BY <5>1
      <4>2. k + i = Len(b) + j
        BY <2>2, <4>1
      <4>. QED  BY <1>2, <2>4, <2>7, <3>1, <4>1, <4>2
    <3>. QED  BY <3>2, <3>3
  <2>10. z = y
    <3>1. z \in Seq(X)
      BY <2>7
    <3>. QED  BY ONLY <1>1, <3>1, <2>8, <2>9, SeqEqual
  <2>. QED  BY <1>1, <2>0, <2>5, <2>10 DEF IsJoin
<1>. QED  BY <1>2, <1>3, <1>4, <1>5
-----------------------------------------------------------------------------
(* The invariant                                                             *)

AnswerSet == [kind : {"items", "error", "status", "stats"}, result : Seq(Items)]

Spelled(c) == IF owner[c] = Other THEN "lower" ELSE "Upper"
Pending(c) == Len(answered[c]) < Len(asked[c])
Oldest(c)  == asked[c][Len(answered[c]) + 1]
Whole(c)   == Len(buffer[c]) >= Len(Tokens(Oldest(c), Spelled(c)))

StreamTypes(c) ==
    /\ asked[c] \in Seq(RequestSet) /\ answered[c] \in Seq(AnswerSet)
    /\ Len(answered[c]) <= Len(asked[c])
    /\ buffer[c] \in Seq(TokenSet(Spelled(c))) /\ wire[c] \in Seq(TokenSet(Spelled(c)))

Serving == {"none", "read", "canceled", "parse", "handle", "send"}

\* What is in the buffer and on the way are the requests that are not answered.
Framed(c) ==
    pc[c] \in Serving =>
        buffer[c] \o wire[c] = FlattenSeq(TokensFrom(asked[c], Len(answered[c]), Spelled(c)))

Fresh(c) ==
    pc[c] = "none" => owner[c] = None /\ asked[c] = <<>> /\ buffer[c] = <<>> /\ wire[c] = <<>>

Idle(c) == pc[c] \in {"read", "canceled"} /\ Pending(c) => Malformed(Oldest(c)) \/ ~ Whole(c)

Busy(c) == pc[c] \in {"handle", "send"} => Pending(c) /\ ~ Malformed(Oldest(c)) /\ Whole(c)

Handling(c) ==
    pc[c] = "handle" =>
        /\ Oldest(c).line = <<"line", "POST", "/recommend">>
        /\ ParseFromJson(Oldest(c).body).ok
        /\ job.user = ParseFromJson(Oldest(c).body).user
        /\ job.count = ParseFromJson(Oldest(c).body).count

Sending(c) ==
    pc[c] = "send" =>
        /\ request[c].consumed = Len(Tokens(Oldest(c), Spelled(c)))
        /\ request[c].keepAlive \in BOOLEAN /\ (request[c].keepAlive <=> ~ Oldest(c).close)
        /\ request[c].answer \in AnswerSet /\ Fits(Oldest(c), request[c].answer)

Ended(c) == why[c] = "eof" => pc[c] = "closed" /\ (Pending(c) => Malformed(Oldest(c)))

Past(c) ==
    /\ \A i \in 1 .. Len(answered[c]) : ~ Malformed(asked[c][i])
    /\ pc[c] \in Serving => \A i \in 1 .. Len(answered[c]) : ~ Closes(asked[c][i])

StreamInv(c) ==
    /\ StreamTypes(c) /\ Framed(c) /\ Fresh(c) /\ Idle(c) /\ Busy(c) /\ Handling(c)
    /\ Sending(c) /\ Ended(c) /\ Past(c)

\* A client thread that waits for its connection has one.
ClientInv ==
    \A t \in Callers : caller[t] \in {"send", "recv"} =>
        using[t] \in Conns /\ owner[using[t]] = t /\ pc[using[t]] # "none"

PerConn(f) == f = [c \in Conns |-> f[c]]

Functions ==
    /\ PerConn(buffer) /\ PerConn(request) /\ PerConn(wire) /\ PerConn(back)
    /\ PerConn(asked) /\ PerConn(answered)

FramingInv ==
    /\ TypeOK /\ JobInv /\ Functions /\ ClientInv
    /\ \A c \in Conns : StreamInv(c)

LEMMA ConnsAre == 0 \notin Conns /\ Conns \subseteq Int
BY DEF Conns

LEMMA SpelledIs == \A c \in Conns : Spelled(c) \in Spellings
BY DEF Spelled, Spellings

LEMMA RequestsAre == Requests \subseteq RequestSet
<1>1. {"line"} \X STRING \X STRING \subseteq {"line"} \X Words \X Words
  BY DEF Words
<1>2. {<<"garbage">>} \union ({"line"} \X STRING \X STRING) \subseteq Lines
  BY <1>1 DEF Lines
<1>. QED  BY <1>2, RequestsAssumption DEF RequestSet, Field

\* A connection that a step leaves alone.
Left(d) ==
    /\ pc'[d] = pc[d] /\ buffer'[d] = buffer[d] /\ request'[d] = request[d] /\ why'[d] = why[d]
    /\ wire'[d] = wire[d] /\ owner'[d] = owner[d] /\ asked'[d] = asked[d]
    /\ answered'[d] = answered[d]

LEMMA StreamStays ==
    ASSUME NEW d \in Conns, StreamInv(d), Left(d),
           pc[d] = "handle" => job'.user = job.user /\ job'.count = job.count
    PROVE  StreamInv(d)'
<1>1. Spelled(d)' = Spelled(d) /\ (Pending(d)' <=> Pending(d)) /\ Oldest(d)' = Oldest(d)
  BY DEF Left, Spelled, Pending, Oldest
<1>2. Whole(d)' <=> Whole(d)
  BY <1>1 DEF Left, Whole
<1>3. StreamTypes(d)'
  BY <1>1 DEF Left, StreamInv, StreamTypes
<1>4. Framed(d)'
  BY <1>1 DEF Left, StreamInv, Framed
<1>5. Fresh(d)' /\ Idle(d)' /\ Busy(d)' /\ Ended(d)'
  BY <1>1, <1>2 DEF Left, StreamInv, Fresh, Idle, Busy, Ended
<1>6. Handling(d)'
  BY <1>1 DEF Left, StreamInv, Handling
<1>7. Sending(d)'
  BY <1>1 DEF Left, StreamInv, Sending
<1>8. Past(d)'
  BY DEF Left, StreamInv, Past
<1>. QED  BY <1>3, <1>4, <1>5, <1>6, <1>7, <1>8 DEF StreamInv

\* What a coroutine finds in its buffer.
LEMMA ParsedIs ==
    ASSUME NEW c \in Conns, StreamInv(c), pc[c] \in Serving
    PROVE  /\ Parse(buffer[c]).consumed = 0 => (Pending(c) => Malformed(Oldest(c)) \/ ~ Whole(c))
           /\ Parse(buffer[c]).consumed > 0 => Pending(c) /\ ~ Malformed(Oldest(c)) /\ Whole(c)
           /\ Pending(c) => Oldest(c) \in RequestSet
           /\ Pending(c) /\ ~ Malformed(Oldest(c)) /\ Whole(c) =>
                Parse(buffer[c]) =
                    [consumed |-> Len(Tokens(Oldest(c), Spelled(c))), method |-> Oldest(c).line[2],
                     path |-> Oldest(c).line[3], body |-> Oldest(c).body,
                     keepAlive |-> ~ Oldest(c).close]
<1>. DEFINE n == Len(answered[c])
            sp == Spelled(c)
            first == Tokens(Oldest(c), sp)
            open == TokensFrom(asked[c], n, sp)
<1>1. /\ asked[c] \in Seq(RequestSet) /\ n \in Nat /\ n <= Len(asked[c]) /\ sp \in Spellings
      /\ buffer[c] \in Seq(TokenSet(sp)) /\ wire[c] \in Seq(TokenSet(sp))
      /\ buffer[c] \o wire[c] = FlattenSeq(open)
  <2>1. StreamTypes(c) /\ buffer[c] \o wire[c] = FlattenSeq(open)
    BY DEF StreamInv, Framed
  <2>. HIDE DEF open
  <2>2. sp \in Spellings
    BY SpelledIs
  <2>. QED  BY <2>1, <2>2 DEF StreamTypes
<1>. HIDE DEF sp
<1>2. CASE ~ Pending(c)
  <2>1. n = Len(asked[c]) /\ Len(asked[c]) - n = 0
    BY <1>1, <1>2 DEF Pending
  <2>2. open = <<>>
    BY <2>1 DEF TokensFrom
  <2>3. FlattenSeq(open) = <<>>
    BY <2>2 DEF FlattenSeq
  <2>4. buffer[c] = <<>>
    BY <1>1, <2>3
  <2>5. {i \in DOMAIN buffer[c] : buffer[c][i] = <<"end">>} = {}
    BY <2>4
  <2>6. Parse(buffer[c]) = Incomplete
    BY <2>5 DEF Parse, First
  <2>7. Parse(buffer[c]).consumed = 0
    BY <2>6 DEF Incomplete
  <2>. QED  BY <1>2, <2>7
<1>3. CASE Pending(c)
  <2>1. n < Len(asked[c])
    BY <1>3 DEF Pending
  <2>2. Oldest(c) \in RequestSet
    <3>1. n + 1 \in 1 .. Len(asked[c])
      BY <1>1, <2>1
    <3>. QED  BY <1>1, <3>1 DEF Oldest
  <2>3. /\ first \in Seq(TokenSet(sp))
        /\ Len(first) >= 2 /\ Len(first) \in Nat
    <3>1. /\ first \in Seq(TokenSet(sp)) /\ Len(first) = HeaderEnd(Oldest(c)) + Len(Oldest(c).body)
          /\ HeaderEnd(Oldest(c)) \in Nat /\ HeaderEnd(Oldest(c)) >= 2 /\ Len(Oldest(c).body) \in Nat
      BY <1>1, <2>2, TokensAre
    <3>. QED  BY <3>1
  <2>4. PICK rest : rest = FlattenSeq(TokensFrom(asked[c], n + 1, sp))
    OBVIOUS
  <2>5. FlattenSeq(open) = first \o rest
    BY <1>1, <2>1, <2>4, TokensFromFirst DEF Oldest
  <2>6. rest \in Seq(TokenSet(sp))
    <3>1. n + 1 \in Nat /\ n + 1 <= Len(asked[c])
      BY <1>1, <2>1
    <3>. QED  BY <1>1, <2>4, <3>1, TokensFromSeq
  <2>. HIDE DEF first, open
  <2>7. \A i \in 1 .. Len(buffer[c]) : i <= Len(first) => buffer[c][i] = first[i]
    <3>1. buffer[c] \o wire[c] = first \o rest
      BY <1>1, <2>5
    <3>0. PICK X : X = TokenSet(sp)
      OBVIOUS
    <3>2. PICK b \in Seq(X), w \in Seq(X), x \in Seq(X), y \in Seq(X) :
              b = buffer[c] /\ w = wire[c] /\ x = first /\ y = rest
      BY <1>1, <2>3, <2>6, <3>0, Zenon
    <3>3. PICK t : t = b \o w /\ IsJoin(X, t, b, w) /\ IsJoin(X, t, x, y)
      BY <3>1, <3>2 DEF IsJoin
    <3>4. \A i \in 1 .. Len(b) : i <= Len(x) => b[i] = x[i]
      BY ONLY <3>3, TwoCuts
    <3>. QED  BY <3>2, <3>4
  <2>8. Len(buffer[c]) \in Nat /\ (Whole(c) <=> Len(buffer[c]) >= Len(first))
    BY <1>1 DEF Whole, first, sp
  <2>9. /\ Malformed(Oldest(c)) \/ Len(buffer[c]) < Len(first) => Parse(buffer[c]) = Incomplete
        /\ ~ Malformed(Oldest(c)) /\ Len(buffer[c]) >= Len(first) =>
             Parse(buffer[c]) = [consumed |-> Len(first), method |-> Oldest(c).line[2],
                                 path |-> Oldest(c).line[3], body |-> Oldest(c).body,
                                 keepAlive |-> ~ Oldest(c).close]
    BY <1>1, <2>2, <2>7, ParseIs DEF first
  <2>10. Incomplete.consumed = 0
    BY DEF Incomplete
  <2>11. Malformed(Oldest(c)) \/ ~ Whole(c) => Parse(buffer[c]).consumed = 0
    BY <2>3, <2>8, <2>9, <2>10
  <2>12. ~ Malformed(Oldest(c)) /\ Whole(c) => Parse(buffer[c]).consumed = Len(first)
    BY <2>3, <2>8, <2>9
  <2>. QED  BY <1>3, <2>2, <2>3, <2>8, <2>9, <2>11, <2>12 DEF first, sp
<1>. QED  BY <1>2, <1>3
-----------------------------------------------------------------------------
(* The steps of a coroutine                                                  *)

LEMMA JobStays ==
    ASSUME JobInv, UNCHANGED serviceVars
    PROVE  JobInv'
<1>1. users' = users /\ items' = items /\ job' = job
  BY DEF serviceVars, storeVars
<1>. QED  BY <1>1 DEF JobInv

LEMMA TypeStep ==
    ASSUME TypeOK, NEW c \in Conns, running \in {0, c},
           NEW x \in {"read", "canceled", "parse", "handle", "send", "closed", "left"},
           pc' = [pc EXCEPT ![c] = x], running' = IF x \in {"parse", "handle"} THEN c ELSE 0,
           (job' = NoJob) <=> x # "handle",
           NEW y \in {None, "eof", "timeout", "asked", "write"},
           why' = [why EXCEPT ![c] = y] \/ why' = why,
           UNCHANGED <<owner, gone, clientVars>>
    PROVE  TypeOK'
<1>1. /\ pc' \in [Conns -> {"none", "read", "canceled", "parse", "handle", "send", "closed", "left"}]
      /\ why' \in [Conns -> {None, "eof", "timeout", "asked", "write"}]
      /\ running' \in {0} \union Conns
  BY DEF TypeOK
<1>2. \A d \in Conns : d # c => pc'[d] = pc[d] /\ pc[d] \notin {"parse", "handle"}
  BY ConnsAre DEF TypeOK
<1>3. pc'[c] = x
  BY DEF TypeOK
<1>4. \A d \in Conns : (running' = d) <=> (pc'[d] \in {"parse", "handle"})
  BY <1>2, <1>3, ConnsAre
<1>5. (job' = NoJob) <=> \A d \in Conns : pc'[d] # "handle"
  BY <1>2, <1>3
<1>6. UNCHANGED <<owner, gone, caller, using, local, total>>
  BY DEF clientVars
<1>. QED  BY <1>1, <1>4, <1>5, <1>6 DEF TypeOK

LEMMA ClientStep ==
    ASSUME TypeOK, ClientInv, NEW c \in Conns,
           NEW x \in {"read", "canceled", "parse", "handle", "send", "closed", "left"},
           pc' = [pc EXCEPT ![c] = x], UNCHANGED <<owner, caller, using>>
    PROVE  ClientInv'
<1>1. \A d \in Conns : pc[d] # "none" => pc'[d] # "none"
  BY DEF TypeOK
<1>. QED  BY <1>1 DEF ClientInv

\* The connections a coroutine is not of, and what is left to show of its own.
LEMMA OnlyItsOwn ==
    ASSUME FramingInv, NEW c \in Conns, StreamInv(c)', TypeOK', JobInv', Functions', ClientInv',
           \A d \in Conns : d # c => Left(d),
           running = c \/ UNCHANGED job
    PROVE  FramingInv'
<1>1. ASSUME NEW d \in Conns, d # c PROVE StreamInv(d)'
  <2>1. pc[d] = "handle" => running # c
    BY <1>1, ConnsAre DEF FramingInv, TypeOK
  <2>. QED  BY <1>1, <2>1, StreamStays DEF FramingInv
<1>. QED  BY <1>1 DEF FramingInv

LEMMA ReadKeeps ==
    ASSUME FramingInv, NEW c \in Conns, Read(c)
    PROVE  FramingInv'
<1>1. PICK n \in 1 .. Len(wire[c]) :
          /\ buffer' = [buffer EXCEPT ![c] = buffer[c] \o SubSeq(wire[c], 1, n)]
          /\ wire' = [wire EXCEPT ![c] = SubSeq(wire[c], n + 1, Len(wire[c]))]
  BY DEF Read
<1>2. /\ pc[c] = "read" /\ running = 0 /\ pc' = [pc EXCEPT ![c] = "parse"] /\ running' = c
      /\ UNCHANGED <<request, why, back, owner, gone, asked, answered, clientVars, serviceVars, job,
                     caller, using>>
  BY DEF Read, clientVars, serviceVars
<1>3. TypeOK /\ JobInv /\ Functions /\ ClientInv /\ StreamInv(c)
  BY DEF FramingInv
<1>4. /\ PerConn(buffer') /\ buffer'[c] = buffer[c] \o SubSeq(wire[c], 1, n)
      /\ PerConn(wire') /\ wire'[c] = SubSeq(wire[c], n + 1, Len(wire[c]))
      /\ pc'[c] = "parse"
      /\ \A d \in Conns : d # c => buffer'[d] = buffer[d] /\ wire'[d] = wire[d] /\ pc'[d] = pc[d]
  <2>1. PerConn(buffer) /\ PerConn(wire)
    BY <1>3 DEF Functions
  <2>2. PerConn(pc)
    BY <1>3 DEF TypeOK, PerConn
  <2>3. /\ PerConn(buffer') /\ buffer'[c] = buffer[c] \o SubSeq(wire[c], 1, n)
        /\ \A d \in Conns : d # c => buffer'[d] = buffer[d]
    BY <1>1, <2>1 DEF PerConn
  <2>4. /\ PerConn(wire') /\ wire'[c] = SubSeq(wire[c], n + 1, Len(wire[c]))
        /\ \A d \in Conns : d # c => wire'[d] = wire[d]
    BY <1>1, <2>1 DEF PerConn
  <2>5. pc'[c] = "parse" /\ \A d \in Conns : d # c => pc'[d] = pc[d]
    BY <1>2, <2>2 DEF PerConn
  <2>. QED  BY <2>3, <2>4, <2>5
<1>5. \A d \in Conns : d # c => Left(d)
  BY <1>2, <1>4 DEF Left
<1>6. Functions'
  BY <1>2, <1>3, <1>4 DEF Functions, PerConn
<1>7. TypeOK'
  <2>1. (job = NoJob) /\ None \in {None, "eof", "timeout", "asked", "write"}
    BY <1>2, <1>3, ConnsAre DEF TypeOK
  <2>. QED  BY <1>2, <1>3, <2>1, TypeStep
<1>8. JobInv' /\ ClientInv'
  BY <1>2, <1>3, JobStays, ClientStep
<1>9. StreamInv(c)'
  <2>1. /\ Spelled(c)' = Spelled(c) /\ asked'[c] = asked[c] /\ answered'[c] = answered[c]
        /\ why'[c] = why[c]
    BY <1>2 DEF Spelled
  <2>2. PICK X : X = TokenSet(Spelled(c))
    OBVIOUS
  <2>3. PICK b \in Seq(X), w \in Seq(X) : b = buffer[c] /\ w = wire[c]
    BY <1>3, <2>2 DEF StreamInv, StreamTypes
  <2>4. PICK m \in 1 .. Len(w) :
            buffer'[c] = b \o SubSeq(w, 1, m) /\ wire'[c] = SubSeq(w, m + 1, Len(w))
    BY <1>4, <2>3
  <2>5. /\ buffer'[c] \in Seq(X) /\ wire'[c] \in Seq(X)
        /\ buffer'[c] \o wire'[c] = b \o w
    <3>1. PICK u, v, f : u = SubSeq(w, 1, m) /\ v = SubSeq(w, m + 1, Len(w)) /\ f = b \o u
      OBVIOUS
    <3>2. u \in Seq(X) /\ v \in Seq(X) /\ IsCut(X, w, u, v)
      BY ONLY w \in Seq(X), m \in 1 .. Len(w), <3>1, CutIs
    <3>3. IsCut(X, w, u, v)
      BY <3>2
    <3>4. f \in Seq(X) /\ IsJoin(X, f, b, u)
      BY <3>1, <3>2 DEF IsJoin
    <3>5. PICK g : IsJoin(X, g, f, v)
      BY <3>2, <3>4, JoinIs
    <3>7. IsJoin(X, g, b, w)
      BY ONLY b \in Seq(X), <3>3, <3>4, <3>5, CutSeq
    <3>8. f \o v = b \o w
      BY <3>5, <3>7 DEF IsJoin
    <3>6. buffer'[c] = f /\ wire'[c] = v
      BY ONLY <2>4, <3>1, Zenon
    <3>. QED  BY <3>2, <3>4, <3>6, <3>8
  <2>6. StreamTypes(c)'
    BY <1>3, <2>1, <2>2, <2>5 DEF StreamInv, StreamTypes
  <2>7. Framed(c)'
    <3>1. b \o w = FlattenSeq(TokensFrom(asked[c], Len(answered[c]), Spelled(c)))
      BY <1>2, <1>3, <2>3 DEF StreamInv, Framed, Serving
    <3>. QED  BY <2>1, <2>5, <3>1 DEF Framed
  <2>8. Fresh(c)' /\ Idle(c)' /\ Busy(c)' /\ Handling(c)' /\ Sending(c)'
    BY <1>4 DEF Fresh, Idle, Busy, Handling, Sending
  <2>9. Ended(c)' /\ Past(c)'
    BY <1>2, <1>3, <2>1 DEF StreamInv, Ended, Past, Serving
  <2>. QED  BY <2>6, <2>7, <2>8, <2>9 DEF StreamInv
<1>. QED  BY <1>2, <1>5, <1>6, <1>7, <1>8, <1>9, OnlyItsOwn
\* A step that takes nothing from the stream and answers nothing.
LEMMA QuietStep ==
    ASSUME FramingInv, NEW c \in Conns, running \in {0, c}, pc[c] \in Serving, pc[c] # "none",
           NEW x \in {"read", "canceled", "parse", "handle", "send", "closed", "left"},
           pc' = [pc EXCEPT ![c] = x], running' = IF x \in {"parse", "handle"} THEN c ELSE 0,
           NEW y \in {None, "eof", "timeout", "asked", "write"},
           why' = [why EXCEPT ![c] = y] \/ why' = why,
           NEW z, request' = [request EXCEPT ![c] = z] \/ request' = request,
           UNCHANGED <<buffer, netVars, answered, clientVars>>,
           JobInv', (job' = NoJob) <=> x # "handle", running = c \/ UNCHANGED job,
           Idle(c)', Busy(c)', Handling(c)', Sending(c)', Ended(c)'
    PROVE  FramingInv'
<1>1. TypeOK /\ JobInv /\ Functions /\ ClientInv /\ StreamInv(c)
  BY DEF FramingInv
<1>2. UNCHANGED <<buffer, wire, back, owner, gone, asked, answered, caller, using, clientVars>>
  BY DEF netVars, clientVars
<1>3. pc'[c] = x /\ \A d \in Conns : d # c => pc'[d] = pc[d] /\ why'[d] = why[d]
  BY <1>1 DEF TypeOK
<1>4. PerConn(request') /\ \A d \in Conns : d # c => request'[d] = request[d]
  BY <1>1 DEF Functions, PerConn
<1>5. \A d \in Conns : d # c => Left(d)
  BY <1>2, <1>3, <1>4 DEF Left
<1>6. Functions'
  BY <1>1, <1>2, <1>4 DEF Functions, PerConn
<1>7. TypeOK' /\ ClientInv'
  BY <1>1, <1>2, TypeStep, ClientStep
<1>8. Spelled(c)' = Spelled(c)
  BY <1>2 DEF Spelled
<1>9. StreamTypes(c)' /\ Framed(c)' /\ Fresh(c)' /\ Past(c)'
  <2>1. StreamTypes(c)'
    BY <1>1, <1>2, <1>8 DEF StreamInv, StreamTypes
  <2>2. Framed(c)'
    BY <1>1, <1>2, <1>8 DEF StreamInv, Framed
  <2>3. Fresh(c)'
    BY <1>3 DEF Fresh
  <2>4. Past(c)'
    BY <1>1, <1>2 DEF StreamInv, Past
  <2>. QED  BY <2>1, <2>2, <2>3, <2>4
<1>10. StreamInv(c)'
  BY <1>9 DEF StreamInv
<1>. QED  BY <1>5, <1>6, <1>7, <1>10, OnlyItsOwn

LEMMA SameRequest ==
    ASSUME NEW c \in Conns, UNCHANGED <<buffer, owner, asked, answered>>
    PROVE  /\ Spelled(c)' = Spelled(c) /\ (Pending(c)' <=> Pending(c)) /\ Oldest(c)' = Oldest(c)
           /\ (Whole(c)' <=> Whole(c))
BY DEF Spelled, Pending, Oldest, Whole

LEMMA ReadEndKeeps ==
    ASSUME FramingInv, NEW c \in Conns, ReadEnd(c)
    PROVE  FramingInv'
<1>1. /\ pc[c] \in {"read", "canceled"} /\ running = 0 /\ pc' = [pc EXCEPT ![c] = "closed"]
      /\ running' = 0
      /\ UNCHANGED <<buffer, request, netVars, answered, clientVars, serviceVars, job, owner, asked>>
  BY DEF ReadEnd, serviceVars, netVars
<1>2. PICK y \in {"eof", "timeout"} :
          why' = [why EXCEPT ![c] = y] /\ (y = "eof" => wire[c] = <<>>)
  BY DEF ReadEnd
<1>3. TypeOK /\ JobInv /\ StreamInv(c)
  BY DEF FramingInv
<1>4. pc'[c] = "closed"
  BY <1>1, <1>3 DEF TypeOK
<1>5. JobInv' /\ job' = NoJob
  BY <1>1, <1>3, JobStays, ConnsAre DEF TypeOK
<1>6. Idle(c)' /\ Busy(c)' /\ Handling(c)' /\ Sending(c)'
  BY <1>4 DEF Idle, Busy, Handling, Sending
<1>7. y = "eof" /\ Pending(c) => Malformed(Oldest(c))
  <2>. SUFFICES ASSUME y = "eof", Pending(c), ~ Malformed(Oldest(c)) PROVE FALSE
    OBVIOUS
  <2>1. ~ Whole(c)
    BY <1>1, <1>3 DEF StreamInv, Idle
  <2>. DEFINE n == Len(answered[c])
              sp == Spelled(c)
              X == TokenSet(sp)
              first == Tokens(Oldest(c), sp)
  <2>2. /\ sp \in Spellings /\ asked[c] \in Seq(RequestSet) /\ n \in Nat /\ n < Len(asked[c])
        /\ buffer[c] \in Seq(X) /\ Oldest(c) \in RequestSet
    <3>1. sp \in Spellings
      BY SpelledIs
    <3>2. Oldest(c) \in RequestSet
      BY <1>1, <1>3, ParsedIs DEF Serving
    <3>. QED  BY <1>3, <3>1, <3>2 DEF StreamInv, StreamTypes, Pending
  <2>3. buffer[c] = FlattenSeq(TokensFrom(asked[c], n, sp))
    <3>1. buffer[c] \o wire[c] = FlattenSeq(TokensFrom(asked[c], n, sp))
      BY <1>1, <1>3 DEF StreamInv, Framed, Serving
    <3>2. buffer[c] \o <<>> = buffer[c]
      BY <2>2
    <3>. QED  BY <1>2, <3>1, <3>2
  <2>. HIDE DEF sp
  <2>4. PICK rest : rest = FlattenSeq(TokensFrom(asked[c], n + 1, sp))
    OBVIOUS
  <2>5. rest \in Seq(X)
    <3>1. n + 1 \in Nat /\ n + 1 <= Len(asked[c])
      BY <2>2
    <3>. QED  BY <2>2, <2>4, <3>1, TokensFromSeq
  <2>6. first \in Seq(X)
    BY <2>2, TokensAre
  <2>7. buffer[c] = first \o rest
    BY <2>2, <2>3, <2>4, TokensFromFirst DEF Oldest
  <2>. HIDE DEF first, X
  <2>8. Len(buffer[c]) = Len(first) + Len(rest) /\ Len(first) \in Nat /\ Len(rest) \in Nat
    BY <2>5, <2>6, <2>7
  <2>9. ~ (Len(buffer[c]) >= Len(first))
    BY <2>1 DEF Whole, first, sp
  <2>. QED  BY <2>8, <2>9
<1>8. Ended(c)'
  <2>1. (Pending(c)' <=> Pending(c)) /\ Oldest(c)' = Oldest(c)
    BY <1>1, SameRequest
  <2>2. why'[c] = y
    BY <1>2, <1>3 DEF TypeOK
  <2>3. (Malformed(Oldest(c))' <=> Malformed(Oldest(c)))
    BY <2>1 DEF Malformed
  <2>. QED  BY <1>4, <1>7, <2>1, <2>2, <2>3 DEF Ended
<1>. QED  BY <1>1, <1>2, <1>5, <1>6, <1>8, QuietStep DEF Serving

\* The kernel cancels a read.
LEMMA ReadTimesOutKeeps ==
    ASSUME FramingInv, NEW c \in Conns, ReadTimesOut(c)
    PROVE  FramingInv'
<1>1. /\ pc[c] = "read" /\ running = 0 /\ pc' = [pc EXCEPT ![c] = "canceled"]
      /\ running' = 0
      /\ UNCHANGED <<buffer, request, why, netVars, answered, clientVars, serviceVars, job, owner,
                     asked>>
  BY DEF ReadTimesOut, serviceVars, netVars
<1>2. TypeOK /\ JobInv /\ StreamInv(c)
  BY DEF FramingInv
<1>3. pc'[c] = "canceled"
  BY <1>1, <1>2 DEF TypeOK
<1>4. JobInv' /\ job' = NoJob
  BY <1>1, <1>2, JobStays, ConnsAre DEF TypeOK
<1>5. Busy(c)' /\ Handling(c)' /\ Sending(c)'
  BY <1>3 DEF Busy, Handling, Sending
<1>6. Idle(c)' /\ Ended(c)'
  <2>1. /\ (Pending(c)' <=> Pending(c)) /\ Oldest(c)' = Oldest(c) /\ (Whole(c)' <=> Whole(c))
    BY <1>1, SameRequest
  <2>2. (Malformed(Oldest(c))' <=> Malformed(Oldest(c)))
    BY <2>1 DEF Malformed
  <2>. QED  BY <1>1, <1>2, <2>1, <2>2 DEF StreamInv, Idle, Ended
<1>7. None \in {None, "eof", "timeout", "asked", "write"} /\ pc[c] \in Serving /\ pc[c] # "none"
  BY <1>1 DEF Serving
<1>8. request' = request /\ why' = why
  BY <1>1
<1>. QED  BY <1>1, <1>4, <1>5, <1>6, <1>7, <1>8, QuietStep

LEMMA SendFailsKeeps ==
    ASSUME FramingInv, NEW c \in Conns, SendFails(c)
    PROVE  FramingInv'
<1>1. /\ pc[c] = "send" /\ running = 0 /\ pc' = [pc EXCEPT ![c] = "left"] /\ running' = 0
      /\ why' = [why EXCEPT ![c] = "write"] /\ request' = [request EXCEPT ![c] = NoRequest]
      /\ UNCHANGED <<buffer, netVars, answered, clientVars, serviceVars, job>>
  BY DEF SendFails, serviceVars
<1>2. TypeOK /\ JobInv
  BY DEF FramingInv
<1>3. pc'[c] = "left" /\ why'[c] = "write"
  BY <1>1, <1>2 DEF TypeOK
<1>4. JobInv' /\ job' = NoJob
  BY <1>1, <1>2, JobStays, ConnsAre DEF TypeOK
<1>5. Idle(c)' /\ Busy(c)' /\ Handling(c)' /\ Sending(c)' /\ Ended(c)'
  BY <1>3 DEF Idle, Busy, Handling, Sending, Ended
<1>. QED  BY <1>1, <1>4, <1>5, QuietStep DEF Serving

LEMMA HandleKeeps ==
    ASSUME FramingInv, NEW c \in Conns, Handle(c)
    PROVE  FramingInv'
<1>1. /\ pc[c] = "handle" /\ running = c /\ Recommending
      /\ UNCHANGED <<coroutineVars, pc, running, why, request, buffer, netVars, owner, asked,
                     answered, clientVars>>
  BY DEF Handle, coroutineVars, netVars
<1>2. TypeOK /\ JobInv /\ StreamInv(c)
  BY DEF FramingInv
<1>3. JobInv' /\ job' # NoJob /\ job'.user = job.user /\ job'.count = job.count
  BY <1>1, <1>2, JobGoesOn
<1>4. /\ Spelled(c)' = Spelled(c) /\ (Pending(c)' <=> Pending(c)) /\ Oldest(c)' = Oldest(c)
      /\ (Whole(c)' <=> Whole(c))
  BY <1>1, SameRequest
<1>5. Idle(c)' /\ Busy(c)' /\ Handling(c)' /\ Sending(c)' /\ Ended(c)'
  BY <1>1, <1>2, <1>3, <1>4 DEF StreamInv, Idle, Busy, Handling, Sending, Ended
<1>6. pc' = [pc EXCEPT ![c] = "handle"]
  BY <1>1, <1>2 DEF TypeOK
<1>7. None \in {None, "eof", "timeout", "asked", "write"} /\ "handle" \in Serving
  BY DEF Serving
<1>. QED  BY <1>1, <1>3, <1>5, <1>6, <1>7, QuietStep
LEMMA JsonIs ==
    ASSUME NEW body \in Seq(Field)
    PROVE  /\ ParseFromJson(body).ok \in BOOLEAN
           /\ ParseFromJson(body).user \in Nat /\ ParseFromJson(body).count \in Nat
<1>. DEFINE At(name) == {i \in DOMAIN body : body[i][1] = name}
<1>1. \A i \in DOMAIN body : body[i][2] \in Nat
  BY DEF Field
<1>2. ASSUME NEW name PROVE First(At(name)) = 0 \/ First(At(name)) \in DOMAIN body
  <2>1. At(name) \in SUBSET Nat /\ At(name) \subseteq DOMAIN body
    OBVIOUS
  <2>. HIDE DEF At
  <2>. QED  BY <2>1, FirstIsOne
<1>3. ParseFromJson(body) =
        [ok    |-> First(At("user")) # 0 /\ body[First(At("user"))][2] > 0,
         user  |-> IF First(At("user")) = 0 THEN 0 ELSE body[First(At("user"))][2],
         count |-> IF First(At("count")) = 0 THEN 10 ELSE body[First(At("count"))][2]]
  BY DEF ParseFromJson
<1>. HIDE DEF At
<1>. QED  BY <1>1, <1>2, <1>3

\* The answers that fit, by the route of the request.
LEMMA FitsIs ==
    ASSUME NEW r \in RequestSet, ~ Malformed(r), NEW a
    PROVE  /\ r.line = <<"line", r.line[2], r.line[3]>>
           /\ r.line = <<"line", "POST", "/recommend">> <=> r.line[2] = "POST" /\ r.line[3] = "/recommend"
           /\ (r.line[2] = "POST" /\ r.line[3] = "/recommend") /\ ParseFromJson(r.body).ok =>
                (Fits(r, a) <=>
                    /\ a.kind = "items"
                    /\ BestFor(ParseFromJson(r.body).user, ParseFromJson(r.body).count, a.result))
           /\ (r.line[2] = "POST" /\ r.line[3] = "/recommend") /\ ~ ParseFromJson(r.body).ok =>
                (Fits(r, a) <=> a.kind = "error")
           /\ ~ (r.line[2] = "POST" /\ r.line[3] = "/recommend") =>
                (Fits(r, a) <=> a.kind = IF r.line[3] = "/health" THEN "status"
                                         ELSE IF r.line[3] = "/stats" THEN "stats" ELSE "error")
<1>1. r.line \in {"line"} \X Words \X Words
  BY DEF RequestSet, Lines, Malformed
<1>2. PICK m, p : r.line = <<"line", m, p>>
  BY <1>1
<1>3. r.line[2] = m /\ r.line[3] = p
  BY <1>2
<1>4. r.line = <<"line", "POST", "/recommend">> <=> m = "POST" /\ p = "/recommend"
  BY <1>2
<1>. DEFINE recommend == r.line = <<"line", "POST", "/recommend">>
            json == ParseFromJson(r.body)
            best == BestFor(json.user, json.count, a.result)
<1>5. json.ok \in BOOLEAN
  BY JsonIs DEF RequestSet
<1>6. Fits(r, a) <=>
        CASE recommend /\ json.ok -> a.kind = "items" /\ best
          [] recommend /\ ~ json.ok -> a.kind = "error"
          [] ~ recommend /\ p = "/health" -> a.kind = "status"
          [] ~ recommend /\ p = "/stats" -> a.kind = "stats"
          [] OTHER -> a.kind = "error"
  BY <1>3 DEF Fits
<1>. HIDE DEF recommend, json, best
<1>7. /\ recommend /\ json.ok => (Fits(r, a) <=> a.kind = "items" /\ best)
      /\ recommend /\ ~ json.ok => (Fits(r, a) <=> a.kind = "error")
      /\ ~ recommend => (Fits(r, a) <=> a.kind = IF p = "/health" THEN "status"
                                                 ELSE IF p = "/stats" THEN "stats" ELSE "error")
  BY <1>5, <1>6
<1>. QED  BY <1>2, <1>3, <1>4, <1>7 DEF recommend, json, best

\* What the coroutine finds when it handles a request or parses a whole one.
LEMMA RequestFound ==
    ASSUME NEW c \in Conns, StreamInv(c), pc[c] \in Serving, Pending(c), ~ Malformed(Oldest(c)), Whole(c),
           NEW p, p = Parse(buffer[c])
    PROVE  /\ Oldest(c) \in RequestSet
           /\ p.consumed = Len(Tokens(Oldest(c), Spelled(c)))
           /\ p.method = Oldest(c).line[2] /\ p.path = Oldest(c).line[3] /\ p.body = Oldest(c).body
           /\ p.keepAlive \in BOOLEAN /\ (p.keepAlive <=> ~ Oldest(c).close)
<1>1. /\ Oldest(c) \in RequestSet
      /\ p = [consumed |-> Len(Tokens(Oldest(c), Spelled(c))), method |-> Oldest(c).line[2],
              path |-> Oldest(c).line[3], body |-> Oldest(c).body, keepAlive |-> ~ Oldest(c).close]
  BY ParsedIs
<1>2. PICK l, m, q, d : /\ l = Len(Tokens(Oldest(c), Spelled(c))) /\ m = Oldest(c).line[2]
                         /\ q = Oldest(c).line[3] /\ d = Oldest(c).body
  OBVIOUS
<1>3. PICK k \in BOOLEAN : k <=> Oldest(c).close
  OBVIOUS
<1>4. Oldest(c).close \in BOOLEAN
  BY <1>1 DEF RequestSet
<1>5. Oldest(c).close = k
  BY <1>3, <1>4
<1>6. p = [consumed |-> l, method |-> m, path |-> q, body |-> d, keepAlive |-> ~ k]
  BY <1>1, <1>2, <1>5
<1>7. p.consumed = l /\ p.method = m /\ p.path = q /\ p.body = d /\ p.keepAlive = ~ k
  BY <1>6
<1>. QED  BY <1>1, <1>2, <1>3, <1>7

\* An answer goes into asyncSend.
LEMMA SendKeeps ==
    ASSUME FramingInv, NEW c \in Conns, pc[c] \in {"parse", "handle"}, running = c,
           Pending(c), ~ Malformed(Oldest(c)), Whole(c),
           NEW p, p = Parse(buffer[c]), NEW a \in AnswerSet, Fits(Oldest(c), a), Send(c, p, a),
           JobInv', job' = NoJob
    PROVE  FramingInv'
<1>1. /\ request' = [request EXCEPT ![c] = [consumed |-> p.consumed, keepAlive |-> p.keepAlive,
                                            answer |-> a]]
      /\ pc' = [pc EXCEPT ![c] = "send"] /\ running' = 0
      /\ UNCHANGED <<buffer, why, netVars, answered, clientVars, owner, asked>>
  BY DEF Send, netVars
<1>2. TypeOK /\ StreamInv(c) /\ Functions
  BY DEF FramingInv
<1>3. /\ pc'[c] = "send"
      /\ request'[c] = [consumed |-> p.consumed, keepAlive |-> p.keepAlive, answer |-> a]
  BY <1>1, <1>2 DEF TypeOK, Functions, PerConn
<1>4. /\ Spelled(c)' = Spelled(c) /\ (Pending(c)' <=> Pending(c)) /\ Oldest(c)' = Oldest(c)
      /\ (Whole(c)' <=> Whole(c))
  BY <1>1, SameRequest
<1>5. /\ p.consumed = Len(Tokens(Oldest(c), Spelled(c)))
      /\ p.keepAlive \in BOOLEAN /\ (p.keepAlive <=> ~ Oldest(c).close)
  BY <1>2, RequestFound DEF Serving
<1>6. Idle(c)' /\ Handling(c)' /\ Busy(c)'
  BY <1>3, <1>4 DEF Idle, Handling, Busy
<1>7. Ended(c)'
  <2>1. why[c] # "eof"
    BY <1>2 DEF StreamInv, Ended
  <2>. QED  BY <1>1, <2>1 DEF Ended
<1>8. Sending(c)'
  <2>1. /\ request'[c].consumed = p.consumed /\ request'[c].keepAlive = p.keepAlive
        /\ request'[c].answer = a
    BY <1>3
  <2>2. request'[c].consumed = Len(Tokens(Oldest(c), Spelled(c)))
        /\ request'[c].keepAlive \in BOOLEAN /\ (request'[c].keepAlive <=> ~ Oldest(c).close)
    BY <1>5, <2>1
  <2>3. Fits(Oldest(c), a)'
    <3>1. UNCHANGED a
      OBVIOUS
    <3>. QED  BY <1>4, <3>1 DEF Fits, BestFor
  <2>. QED  BY <1>4, <2>1, <2>2, <2>3 DEF Sending
<1>9. None \in {None, "eof", "timeout", "asked", "write"} /\ pc[c] \in Serving
  BY DEF Serving
<1>. QED  BY <1>1, <1>6, <1>7, <1>8, <1>9, QuietStep
LEMMA ServeKeeps ==
    ASSUME FramingInv, NEW c \in Conns, Serve(c)
    PROVE  FramingInv'
<1>1. pc[c] = "parse" /\ running = c /\ pc[c] \in Serving
  BY DEF Serve, Serving
<1>2. TypeOK /\ JobInv /\ StreamInv(c)
  BY DEF FramingInv
<1>3. PICK p : p = Parse(buffer[c])
  OBVIOUS
<1>4. job = NoJob
  BY <1>1, <1>2, ConnsAre DEF TypeOK
<1>5. CASE /\ p.consumed = 0 /\ pc' = [pc EXCEPT ![c] = "read"] /\ running' = 0
           /\ UNCHANGED <<buffer, request, why, netVars, answered, clientVars, serviceVars>>
  <2>1. UNCHANGED <<buffer, owner, asked, answered, job>> /\ pc'[c] = "read"
    BY <1>2, <1>5 DEF netVars, serviceVars, TypeOK
  <2>2. /\ (Pending(c)' <=> Pending(c)) /\ Oldest(c)' = Oldest(c)
        /\ (Whole(c)' <=> Whole(c))
    BY <2>1, SameRequest
  <2>3. Pending(c) => Malformed(Oldest(c)) \/ ~ Whole(c)
    BY <1>1, <1>2, <1>3, <1>5, ParsedIs
  <2>4. Malformed(Oldest(c))' <=> Malformed(Oldest(c))
    BY <2>2 DEF Malformed
  <2>5. Idle(c)' /\ Busy(c)' /\ Handling(c)' /\ Sending(c)'
    BY <2>1, <2>2, <2>3, <2>4 DEF Idle, Busy, Handling, Sending
  <2>6. Ended(c)'
    <3>1. why[c] # "eof"
      BY <1>1, <1>2 DEF StreamInv, Ended
    <3>. QED  BY <1>5, <3>1 DEF Ended
  <2>7. JobInv' /\ job' = NoJob
    BY <1>2, <1>4, <1>5, <2>1, JobStays
  <2>8. None \in {None, "eof", "timeout", "asked", "write"}
    OBVIOUS
  <2>. QED  BY <1>1, <1>5, <2>5, <2>6, <2>7, <2>8, QuietStep
<1>6. CASE p.consumed > 0 /\ Route(c, p)
  <2>1. Pending(c) /\ ~ Malformed(Oldest(c)) /\ Whole(c)
    BY <1>1, <1>2, <1>3, <1>6, ParsedIs
  <2>2. /\ Oldest(c) \in RequestSet
        /\ p.method = Oldest(c).line[2] /\ p.path = Oldest(c).line[3] /\ p.body = Oldest(c).body
    BY <1>1, <1>2, <1>3, <2>1, RequestFound
  <2>3. PICK r : r = Oldest(c)
    OBVIOUS
  <2>. DEFINE recommend == p.path = "/recommend" /\ p.method = "POST"
              json == ParseFromJson(p.body)
  <2>4. json.ok \in BOOLEAN /\ json.user \in Nat /\ json.count \in Nat
    BY <2>2, JsonIs DEF RequestSet
  <2>5. ASSUME NEW k \in {"error", "status", "stats"}, AnswerAtOnce(c, p, k),
               Fits(r, [kind |-> k, result |-> <<>>])
        PROVE  FramingInv'
    <3>1. PICK a : a = [kind |-> k, result |-> <<>>]
      OBVIOUS
    <3>2. a \in AnswerSet
      <4>1. <<>> \in Seq(Items)
        OBVIOUS
      <4>. QED  BY <3>1, <4>1 DEF AnswerSet
    <3>3. Send(c, p, a) /\ UNCHANGED serviceVars
      BY <2>5, <3>1 DEF AnswerAtOnce
    <3>4. JobInv' /\ job' = NoJob
      BY <1>2, <1>4, <3>3, JobStays DEF serviceVars
    <3>5. Fits(Oldest(c), a)
      BY <2>3, <2>5, <3>1
    <3>. QED  BY <1>1, <1>3, <2>1, <3>2, <3>3, <3>4, <3>5, SendKeeps
  <2>6. ASSUME NEW k PROVE [kind |-> k, result |-> <<>>].kind = k
    OBVIOUS
  <2>7. /\ r.line = <<"line", "POST", "/recommend">> <=> recommend
        /\ recommend /\ ~ json.ok => Fits(r, [kind |-> "error", result |-> <<>>])
        /\ ~ recommend /\ p.path = "/health" => Fits(r, [kind |-> "status", result |-> <<>>])
        /\ ~ recommend /\ p.path = "/stats" => Fits(r, [kind |-> "stats", result |-> <<>>])
        /\ ~ recommend /\ p.path \notin {"/health", "/stats"} =>
               Fits(r, [kind |-> "error", result |-> <<>>])
    BY <2>1, <2>2, <2>3, <2>6, FitsIs
  <2>. HIDE DEF recommend, json
  <2>8. \/ recommend /\ ~ json.ok /\ AnswerAtOnce(c, p, "error")
        \/ /\ recommend /\ json.ok /\ HandleRecommendation(json.user, json.count)
           /\ pc' = [pc EXCEPT ![c] = "handle"]
           /\ UNCHANGED <<buffer, request, running, why, netVars, answered, clientVars, storeVars>>
        \/ ~ recommend /\ p.path = "/health" /\ AnswerAtOnce(c, p, "status")
        \/ ~ recommend /\ p.path = "/stats" /\ AnswerAtOnce(c, p, "stats")
        \/ ~ recommend /\ p.path \notin {"/health", "/stats"} /\ AnswerAtOnce(c, p, "error")
    BY <1>6 DEF Route, recommend, json
  <2>9. CASE /\ recommend /\ json.ok /\ HandleRecommendation(json.user, json.count)
             /\ pc' = [pc EXCEPT ![c] = "handle"]
             /\ UNCHANGED <<buffer, request, running, why, netVars, answered, clientVars, storeVars>>
    <3>1. UNCHANGED <<buffer, owner, asked, answered>> /\ pc'[c] = "handle"
      BY <1>2, <2>9 DEF netVars, TypeOK
    <3>2. /\ (Pending(c)' <=> Pending(c)) /\ Oldest(c)' = Oldest(c)
          /\ (Whole(c)' <=> Whole(c))
      BY <3>1, SameRequest
    <3>3. JobInv' /\ job' # NoJob /\ job'.user = json.user /\ job'.count = json.count
      BY <1>2, <2>4, <2>9, JobBegins DEF JobInv
    <3>4. Idle(c)' /\ Busy(c)' /\ Sending(c)'
      BY <2>1, <3>1, <3>2 DEF Idle, Busy, Sending, Malformed
    <3>5. Handling(c)'
      BY <2>2, <2>3, <2>7, <2>9, <3>2, <3>3 DEF Handling, json
    <3>6. Ended(c)'
      <4>1. why[c] # "eof"
        BY <1>1, <1>2 DEF StreamInv, Ended
      <4>. QED  BY <2>9, <4>1 DEF Ended
    <3>7. None \in {None, "eof", "timeout", "asked", "write"} /\ running' = c
      BY <1>1, <2>9
    <3>. QED  BY <1>1, <2>9, <3>3, <3>4, <3>5, <3>6, <3>7, QuietStep
  <2>. QED  BY <2>5, <2>7, <2>8, <2>9
<1>. QED
  <2>1. \E q \in {Parse(buffer[c])} :
          \/ /\ q.consumed = 0 /\ pc' = [pc EXCEPT ![c] = "read"] /\ running' = 0
             /\ UNCHANGED <<buffer, request, why, netVars, answered, clientVars, serviceVars>>
          \/ q.consumed > 0 /\ Route(c, q)
    BY DEF Serve
  <2>. QED  BY <1>3, <1>5, <1>6, <2>1

LEMMA HandleDoneKeeps ==
    ASSUME FramingInv, NEW c \in Conns, HandleDone(c)
    PROVE  FramingInv'
<1>1. /\ pc[c] = "handle" /\ running = c /\ job.at = "done" /\ job' = NoJob /\ UNCHANGED storeVars
      /\ pc[c] \in Serving
  BY DEF HandleDone, Serving
<1>2. TypeOK /\ JobInv /\ StreamInv(c)
  BY DEF FramingInv
<1>3. PICK p : p = Parse(buffer[c])
  OBVIOUS
<1>4. PICK a : a = [kind |-> "items", result |-> job.result]
  OBVIOUS
<1>5. Send(c, p, a)
  BY <1>3, <1>4 DEF HandleDone
<1>6. Pending(c) /\ ~ Malformed(Oldest(c)) /\ Whole(c)
  BY <1>1, <1>2 DEF StreamInv, Busy
<1>7. a.kind = "items" /\ a.result = job.result /\ a \in AnswerSet
  BY <1>2, <1>4 DEF JobInv, AnswerSet
<1>8. Fits(Oldest(c), a)
  <2>1. BestFor(job.user, job.count, job.result)
    BY <1>1, <1>2 DEF JobInv
  <2>2. /\ Oldest(c).line = <<"line", "POST", "/recommend">>
        /\ ParseFromJson(Oldest(c).body).ok
        /\ job.user = ParseFromJson(Oldest(c).body).user
        /\ job.count = ParseFromJson(Oldest(c).body).count
    BY <1>1, <1>2 DEF StreamInv, Handling
  <2>3. Oldest(c) \in RequestSet
    BY <1>1, <1>2, <1>6, ParsedIs
  <2>4. BestFor(ParseFromJson(Oldest(c).body).user, ParseFromJson(Oldest(c).body).count, a.result)
    BY <1>7, <2>1, <2>2
  <2>. QED  BY <1>6, <1>7, <2>2, <2>3, <2>4, FitsIs
<1>9. JobInv'
  <2>1. Coherent(users)' /\ Coherent(items)'
    BY <1>1, <1>2 DEF JobInv, storeVars
  <2>. QED  BY <1>1, <2>1 DEF JobInv, NoJob
<1>. QED  BY <1>1, <1>3, <1>5, <1>6, <1>7, <1>8, <1>9, SendKeeps
LEMMA SentKeeps ==
    ASSUME FramingInv, NEW c \in Conns, Sent(c)
    PROVE  FramingInv' /\ Pending(c) /\ ~ Malformed(Oldest(c)) /\ Fits(Oldest(c), request[c].answer)
<1>. DEFINE keep == request[c].keepAlive
            n == Len(answered[c])
            sp == Spelled(c)
            X == TokenSet(sp)
            first == Tokens(Oldest(c), sp)
            x == IF keep THEN "parse" ELSE "closed"
            y == IF keep THEN why[c] ELSE "asked"
<1>1. /\ pc[c] = "send" /\ running = 0 /\ pc[c] \in Serving
      /\ buffer' = [buffer EXCEPT ![c] = SubSeq(buffer[c], request[c].consumed + 1, Len(buffer[c]))]
      /\ answered' = [answered EXCEPT ![c] = Append(answered[c], request[c].answer)]
      /\ request' = [request EXCEPT ![c] = NoRequest]
      /\ pc' = [pc EXCEPT ![c] = x] /\ running' = IF keep THEN c ELSE 0
      /\ why' = [why EXCEPT ![c] = y]
      /\ UNCHANGED <<wire, owner, gone, asked, clientVars, serviceVars, job, caller, using>>
  BY DEF Sent, Serving, serviceVars, clientVars
<1>2. back' = [back EXCEPT ![c] = IF c \in gone THEN <<>> ELSE
                                  back[c] \o <<"header", request[c].answer.kind>>]
  BY DEF Sent
<1>3. TypeOK /\ JobInv /\ Functions /\ ClientInv /\ StreamInv(c)
  BY DEF FramingInv
<1>4. Pending(c) /\ ~ Malformed(Oldest(c)) /\ Whole(c)
  BY <1>1, <1>3 DEF StreamInv, Busy
<1>5. /\ request[c].consumed = Len(first) /\ keep \in BOOLEAN /\ (keep <=> ~ Oldest(c).close)
      /\ request[c].answer \in AnswerSet /\ Fits(Oldest(c), request[c].answer)
  BY <1>1, <1>3 DEF StreamInv, Sending
<1>6. /\ sp \in Spellings /\ asked[c] \in Seq(RequestSet) /\ n \in Nat /\ n < Len(asked[c])
      /\ buffer[c] \in Seq(X) /\ wire[c] \in Seq(X) /\ Oldest(c) \in RequestSet
      /\ answered[c] \in Seq(AnswerSet)
  <2>1. sp \in Spellings
    BY SpelledIs
  <2>2. Oldest(c) \in RequestSet
    BY <1>1, <1>3, <1>4, ParsedIs
  <2>. QED  BY <1>3, <1>4, <2>1, <2>2 DEF StreamInv, StreamTypes, Pending
<1>7. Spelled(c)' = sp /\ asked'[c] = asked[c] /\ wire'[c] = wire[c] /\ owner'[c] = owner[c]
  BY <1>1 DEF Spelled
<1>. HIDE DEF keep, sp
<1>8. /\ pc'[c] = x /\ PerConn(buffer') /\ PerConn(answered') /\ PerConn(request') /\ PerConn(back')
      /\ why'[c] = y
      /\ \A d \in Conns : d # c =>
            /\ pc'[d] = pc[d] /\ buffer'[d] = buffer[d] /\ answered'[d] = answered[d]
            /\ request'[d] = request[d] /\ why'[d] = why[d]
  <2>1. PerConn(buffer) /\ PerConn(answered) /\ PerConn(request) /\ PerConn(back)
    BY <1>3 DEF Functions
  <2>2. pc'[c] = x /\ why'[c] = y /\ \A d \in Conns : d # c => pc'[d] = pc[d] /\ why'[d] = why[d]
    <3>. HIDE DEF x, y
    <3>. QED  BY <1>1, <1>3 DEF TypeOK
  <2>3. PerConn(buffer') /\ \A d \in Conns : d # c => buffer'[d] = buffer[d]
    BY <1>1, <2>1 DEF PerConn
  <2>4. PerConn(answered') /\ \A d \in Conns : d # c => answered'[d] = answered[d]
    BY <1>1, <2>1 DEF PerConn
  <2>5. PerConn(request') /\ \A d \in Conns : d # c => request'[d] = request[d]
    BY <1>1, <2>1 DEF PerConn
  <2>6. PerConn(back')
    BY <1>2, <2>1 DEF PerConn
  <2>. QED  BY <2>2, <2>3, <2>4, <2>5, <2>6
<1>9. \A d \in Conns : d # c => Left(d)
  BY <1>1, <1>8 DEF Left
<1>10. Functions'
  BY <1>1, <1>3, <1>8 DEF Functions, PerConn
<1>11. JobInv' /\ job' = NoJob
  BY <1>1, <1>3, JobStays, ConnsAre DEF TypeOK
<1>12. TypeOK' /\ ClientInv'
  <2>1. y \in {None, "eof", "timeout", "asked", "write"}
    BY <1>3 DEF TypeOK
  <2>2. x \in {"read", "canceled", "parse", "handle", "send", "closed", "left"} /\ x # "handle"
        /\ running' = IF x \in {"parse", "handle"} THEN c ELSE 0
    BY <1>1
  <2>. HIDE DEF x, y
  <2>. QED  BY <1>1, <1>3, <1>11, <2>1, <2>2, TypeStep, ClientStep
<1>13. answered'[c] = Append(answered[c], request[c].answer)
       /\ buffer'[c] = SubSeq(buffer[c], Len(first) + 1, Len(buffer[c]))
  BY <1>1, <1>3, <1>5 DEF Functions, PerConn
<1>14. /\ answered'[c] \in Seq(AnswerSet) /\ Len(answered'[c]) = n + 1
  <2>1. PICK a \in AnswerSet, s \in Seq(AnswerSet) : a = request[c].answer /\ s = answered[c]
    BY <1>5, <1>6, Zenon
  <2>2. Append(s, a) \in Seq(AnswerSet) /\ Len(Append(s, a)) = Len(s) + 1
    BY ONLY a \in AnswerSet, s \in Seq(AnswerSet)
  <2>. QED  BY <1>13, <2>1, <2>2
<1>15. PICK rest : rest = FlattenSeq(TokensFrom(asked[c], n + 1, sp))
  OBVIOUS
<1>16. first \in Seq(X) /\ rest \in Seq(X) /\ Len(buffer[c]) >= Len(first)
  <2>1. n + 1 \in Nat /\ n + 1 <= Len(asked[c])
    BY <1>6
  <2>2. rest \in Seq(X)
    BY <1>6, <1>15, <2>1, TokensFromSeq
  <2>3. first \in Seq(X)
    BY <1>6, TokensAre
  <2>. QED  BY <1>4, <2>2, <2>3 DEF Whole, sp
<1>17. buffer[c] \o wire[c] = first \o rest
  <2>1. buffer[c] \o wire[c] = FlattenSeq(TokensFrom(asked[c], n, sp))
    BY <1>1, <1>3 DEF StreamInv, Framed, sp
  <2>. QED  BY <1>6, <1>15, <2>1, TokensFromFirst DEF Oldest
<1>18. buffer'[c] \in Seq(X) /\ buffer'[c] \o wire[c] = rest
  <2>. HIDE DEF first
  <2>0. PICK Y : Y = X
    OBVIOUS
  <2>1. PICK b \in Seq(Y), w \in Seq(Y), f \in Seq(Y), r \in Seq(Y) :
            b = buffer[c] /\ w = wire[c] /\ f = first /\ r = rest
    BY <1>6, <1>16, <2>0, Zenon
  <2>2. PICK t : IsJoin(Y, t, b, w) /\ IsJoin(Y, t, f, r)
    BY <1>17, <2>1 DEF IsJoin
  <2>3. PICK k \in Nat, l \in Nat : k = Len(f) /\ l = Len(b) - Len(f)
    <3>1. Len(f) \in Nat /\ Len(b) \in Nat /\ Len(b) >= Len(f)
      BY <1>16, <2>1
    <3>2. Len(b) - Len(f) \in Nat
      BY <3>1
    <3>. QED  BY <3>1, <3>2, Zenon
  <2>4. Len(b) = k + l
    BY <2>3
  <2>5. PICK s : s = SubSeq(b, k + 1, k + l)
    OBVIOUS
  <2>6. s \in Seq(Y) /\ Len(s) = l /\ \A i \in 1 .. l : s[i] = b[k + i]
    BY ONLY b \in Seq(Y), k \in Nat, l \in Nat, <2>4, <2>5
  <2>7. IsRest(Y, b, Len(f), s)
    BY <2>3, <2>4, <2>6 DEF IsRest
  <2>8. IsJoin(Y, r, s, w)
    BY <2>2, <2>7, TwoCuts
  <2>9. buffer'[c] = s
    BY <1>13, <2>1, <2>3, <2>4, <2>5
  <2>. QED  BY <2>0, <2>1, <2>6, <2>8, <2>9 DEF IsJoin
<1>19. StreamInv(c)'
  <2>1. StreamTypes(c)'
    <3>1. Len(answered'[c]) <= Len(asked[c])
      BY <1>6, <1>14
    <3>. HIDE DEF X
    <3>2. /\ asked'[c] \in Seq(RequestSet) /\ Len(answered'[c]) <= Len(asked'[c])
          /\ wire'[c] \in Seq(X)
      BY <1>6, <1>7, <3>1
    <3>. QED  BY <1>7, <1>14, <1>18, <3>2 DEF StreamTypes, X
  <2>2. Framed(c)'
    BY <1>7, <1>14, <1>15, <1>18 DEF Framed
  <2>3. Fresh(c)' /\ Idle(c)' /\ Busy(c)' /\ Handling(c)' /\ Sending(c)'
    BY <1>8 DEF Fresh, Idle, Busy, Handling, Sending
  <2>4. Ended(c)'
    <3>1. why[c] # "eof"
      BY <1>1, <1>3 DEF StreamInv, Ended
    <3>. QED  BY <1>8, <3>1 DEF Ended
  <2>5. Past(c)'
    <3>1. ASSUME NEW i \in 1 .. n + 1 PROVE ~ Malformed(asked[c][i])
      <4>1. CASE i \in 1 .. n
        BY <1>3, <4>1 DEF StreamInv, Past
      <4>2. CASE i = n + 1
        BY <1>4, <4>2 DEF Oldest
      <4>. QED  BY <1>6, <4>1, <4>2
    <3>2. ASSUME keep, NEW i \in 1 .. n + 1 PROVE ~ Closes(asked[c][i])
      <4>1. CASE i \in 1 .. n
        BY <1>1, <1>3, <4>1 DEF StreamInv, Past
      <4>2. CASE i = n + 1
        BY <1>5, <3>2, <4>2 DEF Oldest, Closes
      <4>. QED  BY <1>6, <4>1, <4>2
    <3>3. pc'[c] \in Serving => keep
      BY <1>8 DEF Serving
    <3>4. /\ \A i \in 1 .. Len(answered'[c]) : ~ Malformed(asked'[c][i])
          /\ pc'[c] \in Serving => \A i \in 1 .. Len(answered'[c]) : ~ Closes(asked'[c][i])
      BY <1>7, <1>14, <3>1, <3>2, <3>3
    <3>. QED  BY <3>4 DEF Past, Malformed, Closes
  <2>. QED  BY <2>1, <2>2, <2>3, <2>4, <2>5 DEF StreamInv
<1>20. FramingInv'
  BY <1>1, <1>9, <1>10, <1>11, <1>12, <1>19, OnlyItsOwn
<1>. QED  BY <1>4, <1>5, <1>20

LEMMA TaskKeeps ==
    ASSUME FramingInv, NEW c \in Conns, RecommendationServiceTask(c)
    PROVE  FramingInv'
BY ReadKeeps, ReadEndKeeps, ServeKeeps, HandleKeeps, HandleDoneKeeps, SentKeeps, SendFailsKeeps
   DEF RecommendationServiceTask
-----------------------------------------------------------------------------
(* The steps of the clients                                                  *)

ClientTypes ==
    /\ owner \in [Conns -> Callers \union {Other, None}]
    /\ gone \subseteq Conns
    /\ caller \in [Callers -> {"none", "connect", "send", "recv", "end", "done"}]
    /\ using \in [Callers -> {0} \union Conns]
    /\ local \in [Callers -> Stats] /\ total.stats \in Stats

LEMMA TypesBetween ==
    ASSUME TypeOK, running = 0, UNCHANGED <<running, why, job>>, NEW c \in Conns,
           pc' = [pc EXCEPT ![c] = "read"] \/ pc' = pc, ClientTypes'
    PROVE  TypeOK'
<1>1. pc' \in [Conns -> {"none", "read", "canceled", "parse", "handle", "send", "closed", "left"}]
  BY DEF TypeOK
<1>2. \A d \in Conns : pc[d] \notin {"parse", "handle"}
  BY ConnsAre DEF TypeOK
<1>3. \A d \in Conns : pc'[d] \notin {"parse", "handle"}
  BY <1>2 DEF TypeOK
<1>4. \A d \in Conns : (running' = d) <=> (pc'[d] \in {"parse", "handle"})
  BY <1>3, ConnsAre
<1>5. (job' = NoJob) <=> \A d \in Conns : pc'[d] # "handle"
  BY <1>2, <1>3 DEF TypeOK
<1>. QED  BY <1>1, <1>4, <1>5 DEF TypeOK, ClientTypes

\* What a connection's coroutine waits with is not touched by a step of the clients
\* on another connection, nor by one that only hangs up or counts.
LEMMA StreamsStay ==
    ASSUME FramingInv, NEW D \in SUBSET Conns, \A d \in D : Left(d), UNCHANGED job
    PROVE  \A d \in D : StreamInv(d)'
BY StreamStays DEF FramingInv

LEMMA OpenKeeps ==
    ASSUME FramingInv, NEW c \in Conns, NEW o \in Callers \union {Other}, Open(c, o)
    PROVE  /\ JobInv' /\ Functions' /\ \A d \in Conns : StreamInv(d)'
           /\ owner' \in [Conns -> Callers \union {Other, None}]
           /\ pc[c] = "none" /\ pc'[c] = "read" /\ owner'[c] = o
           /\ \A d \in Conns : d # c => pc'[d] = pc[d] /\ owner'[d] = owner[d]
<1>1. /\ pc[c] = "none" /\ pc' = [pc EXCEPT ![c] = "read"] /\ owner' = [owner EXCEPT ![c] = o]
      /\ UNCHANGED <<buffer, request, running, why, wire, back, gone, asked, answered,
                     serviceVars, job>>
  BY DEF Open, serviceVars
<1>2. TypeOK /\ JobInv /\ Functions /\ StreamInv(c)
  BY DEF FramingInv
<1>3. /\ pc'[c] = "read" /\ owner'[c] = o /\ owner' \in [Conns -> Callers \union {Other, None}]
      /\ \A d \in Conns : d # c => pc'[d] = pc[d] /\ owner'[d] = owner[d]
  BY <1>1, <1>2 DEF TypeOK
<1>4. \A d \in Conns \ {c} : Left(d)
  BY <1>1, <1>3 DEF Left
<1>5. \A d \in Conns \ {c} : StreamInv(d)'
  <2>1. PICK D \in SUBSET Conns : D = Conns \ {c}
    OBVIOUS
  <2>2. \A d \in D : StreamInv(d)'
    BY <1>1, <1>4, <2>1, StreamsStay
  <2>. QED  BY <2>1, <2>2
<1>6. /\ asked[c] = <<>> /\ buffer[c] = <<>> /\ wire[c] = <<>> /\ answered[c] \in Seq(AnswerSet)
      /\ Len(answered[c]) = 0 /\ Len(asked[c]) = 0
  <2>1. asked[c] = <<>> /\ buffer[c] = <<>> /\ wire[c] = <<>>
    BY <1>1, <1>2 DEF StreamInv, Fresh
  <2>2. answered[c] \in Seq(AnswerSet) /\ Len(answered[c]) <= Len(asked[c])
    BY <1>2 DEF StreamInv, StreamTypes
  <2>3. Len(asked[c]) = 0
    BY <2>1
  <2>. QED  BY <2>1, <2>2, <2>3
<1>7. StreamInv(c)'
  <2>1. /\ asked'[c] = <<>> /\ buffer'[c] = <<>> /\ wire'[c] = <<>> /\ answered'[c] = answered[c]
        /\ ~ Pending(c)'
    BY <1>1, <1>6 DEF Pending
  <2>2. StreamTypes(c)'
    <3>1. <<>> \in Seq(RequestSet) /\ <<>> \in Seq(TokenSet(Spelled(c)'))
      OBVIOUS
    <3>. QED  BY <1>6, <2>1, <3>1 DEF StreamTypes
  <2>3. Framed(c)'
    <3>1. TokensFrom(asked'[c], Len(answered'[c]), Spelled(c)') = <<>>
      BY <1>6, <2>1 DEF TokensFrom
    <3>2. FlattenSeq(<<>>) = <<>>
      BY DEF FlattenSeq
    <3>3. buffer'[c] \o wire'[c] = <<>>
      BY <2>1
    <3>. QED  BY <3>1, <3>2, <3>3 DEF Framed
  <2>4. Fresh(c)' /\ Idle(c)' /\ Busy(c)' /\ Handling(c)' /\ Sending(c)'
    BY <1>3, <2>1 DEF Fresh, Idle, Busy, Handling, Sending
  <2>5. Ended(c)'
    <3>1. why[c] # "eof"
      BY <1>1, <1>2 DEF StreamInv, Ended
    <3>. QED  BY <1>1, <3>1 DEF Ended
  <2>6. Past(c)'
    BY <1>6, <2>1 DEF Past
  <2>. QED  BY <2>2, <2>3, <2>4, <2>5, <2>6 DEF StreamInv
<1>8. JobInv' /\ Functions'
  <2>1. JobInv'
    BY <1>1, <1>2, JobStays
  <2>2. Functions'
    BY <1>1, <1>2 DEF Functions, PerConn
  <2>. QED  BY <2>1, <2>2
<1>. QED  BY <1>1, <1>3, <1>5, <1>7, <1>8

LEMMA AskKeeps ==
    ASSUME FramingInv, NEW c \in Conns, pc[c] \notin {"none", "closed"},
           NEW r \in RequestSet, NEW sp, sp = Spelled(c), Ask(c, r, sp),
           UNCHANGED <<coroutineVars, back, owner, gone, answered, serviceVars>>
    PROVE  JobInv' /\ Functions' /\ \A d \in Conns : StreamInv(d)'
<1>. DEFINE n == Len(answered[c])
            X == TokenSet(sp)
<1>1. /\ asked' = [asked EXCEPT ![c] = Append(asked[c], r)]
      /\ wire' = [wire EXCEPT ![c] = wire[c] \o Tokens(r, sp)]
      /\ UNCHANGED <<pc, buffer, request, running, why, back, owner, gone, answered, serviceVars, job>>
  BY DEF Ask, coroutineVars, serviceVars
<1>2. TypeOK /\ JobInv /\ Functions /\ StreamInv(c)
  BY DEF FramingInv
<1>3. /\ PerConn(asked') /\ PerConn(wire')
      /\ asked'[c] = Append(asked[c], r) /\ wire'[c] = wire[c] \o Tokens(r, sp)
      /\ \A d \in Conns : d # c => asked'[d] = asked[d] /\ wire'[d] = wire[d]
  <2>1. PerConn(asked) /\ PerConn(wire)
    BY <1>2 DEF Functions
  <2>2. /\ PerConn(asked') /\ asked'[c] = Append(asked[c], r)
        /\ \A d \in Conns : d # c => asked'[d] = asked[d]
    BY <1>1, <2>1 DEF PerConn
  <2>3. /\ PerConn(wire') /\ wire'[c] = wire[c] \o Tokens(r, sp)
        /\ \A d \in Conns : d # c => wire'[d] = wire[d]
    BY <1>1, <2>1 DEF PerConn
  <2>. QED  BY <2>2, <2>3
<1>4. JobInv' /\ Functions'
  <2>1. JobInv'
    BY <1>1, <1>2, JobStays
  <2>2. Functions'
    BY <1>1, <1>2, <1>3 DEF Functions, PerConn
  <2>. QED  BY <2>1, <2>2
<1>5. \A d \in Conns \ {c} : StreamInv(d)'
  <2>1. PICK D \in SUBSET Conns : D = Conns \ {c}
    OBVIOUS
  <2>2. \A d \in D : Left(d)
    BY <1>1, <1>3, <2>1 DEF Left
  <2>3. \A d \in D : StreamInv(d)'
    BY <1>1, <2>2, StreamsStay
  <2>. QED  BY <2>1, <2>3
<1>6. /\ sp \in Spellings /\ asked[c] \in Seq(RequestSet) /\ answered[c] \in Seq(AnswerSet)
      /\ n \in Nat /\ n <= Len(asked[c])
      /\ buffer[c] \in Seq(X) /\ wire[c] \in Seq(X) /\ Tokens(r, sp) \in Seq(X)
  <2>1. sp \in Spellings
    BY SpelledIs
  <2>. QED  BY <1>2, <2>1, TokensAre DEF StreamInv, StreamTypes
<1>7. /\ asked'[c] \in Seq(RequestSet) /\ Len(asked'[c]) = Len(asked[c]) + 1
      /\ asked'[c][Len(asked[c]) + 1] = r
      /\ \A i \in 1 .. Len(asked[c]) : asked'[c][i] = asked[c][i]
  <2>1. PICK s \in Seq(RequestSet) : s = asked[c]
    BY <1>6
  <2>2. PICK t : t = Append(s, r)
    OBVIOUS
  <2>3. /\ t \in Seq(RequestSet) /\ Len(t) = Len(s) + 1 /\ t[Len(s) + 1] = r
        /\ \A i \in 1 .. Len(s) : t[i] = s[i]
    BY ONLY s \in Seq(RequestSet), r \in RequestSet, <2>2
  <2>. QED  BY <1>3, <2>1, <2>2, <2>3
<1>8. Spelled(c)' = sp /\ buffer'[c] = buffer[c] /\ answered'[c] = answered[c]
  BY <1>1 DEF Spelled
<1>9. Pending(c) => /\ Pending(c)' /\ Oldest(c)' = Oldest(c) /\ (Whole(c)' <=> Whole(c))
                    /\ (Malformed(Oldest(c))' <=> Malformed(Oldest(c)))
  <2>. SUFFICES ASSUME Pending(c)
                PROVE  /\ Pending(c)' /\ Oldest(c)' = Oldest(c) /\ (Whole(c)' <=> Whole(c))
                       /\ (Malformed(Oldest(c))' <=> Malformed(Oldest(c)))
    OBVIOUS
  <2>1. n + 1 \in 1 .. Len(asked[c]) /\ n < Len(asked[c]) + 1
    BY <1>6 DEF Pending
  <2>2. Pending(c)'
    BY <1>7, <1>8, <2>1 DEF Pending
  <2>3. Oldest(c)' = Oldest(c)
    BY <1>7, <1>8, <2>1 DEF Oldest
  <2>. QED  BY <1>8, <2>2, <2>3 DEF Whole, Malformed
<1>10. StreamInv(c)'
  <2>1. wire'[c] \in Seq(X)
    BY <1>3, <1>6
  <2>2. StreamTypes(c)'
    <3>1. Len(answered[c]) <= Len(asked'[c])
      BY <1>6, <1>7
    <3>. HIDE DEF X
    <3>. QED  BY <1>6, <1>7, <1>8, <2>1, <3>1 DEF StreamTypes, X
  <2>3. ASSUME pc[c] \in Serving
        PROVE  buffer[c] \o wire'[c] = FlattenSeq(TokensFrom(asked'[c], n, sp))
    <3>1. buffer[c] \o wire[c] = FlattenSeq(TokensFrom(asked[c], n, sp))
      BY <1>2, <2>3 DEF StreamInv, Framed
    <3>2. TokensFrom(asked'[c], n, sp) = Append(TokensFrom(asked[c], n, sp), Tokens(r, sp))
      BY ZenonT(60), <1>3, <1>6, TokensFromAppend
    <3>3. TokensFrom(asked[c], n, sp) \in Seq(Seq(X))
      BY <1>6, TokensFromIs
    <3>. HIDE DEF X
    <3>4. PICK open \in Seq(Seq(X)), k \in Seq(X), b \in Seq(X), w \in Seq(X) :
              open = TokensFrom(asked[c], n, sp) /\ k = Tokens(r, sp) /\ b = buffer[c] /\ w = wire[c]
      BY <1>6, <3>3, Zenon
    <3>5. FlattenSeq(open) \in Seq(X) /\ FlattenSeq(Append(open, k)) = FlattenSeq(open) \o k
      BY ONLY open \in Seq(Seq(X)), k \in Seq(X), FlattenAppend
    <3>6. PICK p \in Seq(X) : p = FlattenSeq(open)
      BY <3>5
    <3>7. PICK q, t : q = w \o k /\ t = p \o k
      OBVIOUS
    <3>8. IsJoin(X, p, b, w) /\ IsJoin(X, q, w, k) /\ IsJoin(X, t, p, k)
      BY <3>1, <3>4, <3>6, <3>7 DEF IsJoin
    <3>9. IsJoin(X, t, b, q)
      BY <3>8, ThreeParts
    <3>10. wire'[c] = q
      BY <1>3, <3>4, <3>7
    <3>11. FlattenSeq(TokensFrom(asked'[c], n, sp)) = t
      BY <3>2, <3>4, <3>5, <3>6, <3>7
    <3>. QED  BY <3>4, <3>9, <3>10, <3>11 DEF IsJoin
  <2>4. Framed(c)'
    BY <1>1, <1>8, <2>3 DEF Framed
  <2>5. Fresh(c)'
    BY <1>1 DEF Fresh
  <2>6. Idle(c)'
    <3>. SUFFICES ASSUME pc[c] \in {"read", "canceled"}
                  PROVE  Malformed(Oldest(c))' \/ ~ Whole(c)'
      BY <1>1 DEF Idle
    <3>1. CASE Pending(c)
      BY <1>2, <1>9, <3>1 DEF StreamInv, Idle
    <3>2. CASE ~ Pending(c)
      <4>1. n = Len(asked[c])
        BY <1>6, <3>2 DEF Pending
      <4>2. TokensFrom(asked[c], n, sp) = <<>>
        BY <4>1 DEF TokensFrom
      <4>3. FlattenSeq(<<>>) = <<>>
        BY DEF FlattenSeq
      <4>4. buffer[c] \o wire[c] = <<>>
        BY <1>2, <4>2, <4>3 DEF StreamInv, Framed, Serving
      <4>5. Len(buffer[c]) = 0
        BY <1>6, <4>4
      <4>6. Oldest(c)' = r
        BY <1>7, <1>8, <4>1 DEF Oldest
      <4>7. Len(Tokens(r, sp)) >= 2
        <5>1. /\ Len(Tokens(r, sp)) = HeaderEnd(r) + Len(r.body)
              /\ HeaderEnd(r) \in Nat /\ HeaderEnd(r) >= 2 /\ Len(r.body) \in Nat
          BY <1>6, TokensAre
        <5>. QED  BY <5>1
      <4>8. Whole(c)' <=> Len(buffer[c]) >= Len(Tokens(r, sp))
        BY <1>8, <4>6 DEF Whole
      <4>9. Len(Tokens(r, sp)) \in Nat
        BY <1>6
      <4>. QED  BY <4>5, <4>7, <4>8, <4>9
    <3>. QED  BY <3>1, <3>2
  <2>7. Busy(c)'
    BY <1>1, <1>2, <1>9 DEF StreamInv, Busy
  <2>8. Handling(c)'
    BY <1>1, <1>2, <1>9 DEF StreamInv, Busy, Handling
  <2>9. Sending(c)'
    <3>. SUFFICES ASSUME pc[c] = "send" PROVE Sending(c)'
      BY <1>1 DEF Sending
    <3>1. Oldest(c)' = Oldest(c)
      BY <1>2, <1>9 DEF StreamInv, Busy
    <3>2. Spelled(c)' = Spelled(c) /\ request' = request
      BY <1>1, <1>8
    <3>. QED  BY <1>2, <3>1, <3>2 DEF StreamInv, Sending
  <2>10. Ended(c)'
    <3>1. why[c] # "eof"
      BY <1>2 DEF StreamInv, Ended
    <3>. QED  BY <1>1, <3>1 DEF Ended
  <2>11. Past(c)'
    <3>1. \A i \in 1 .. n : asked'[c][i] = asked[c][i]
      <4>1. PICK k \in Nat, l \in Nat : k = n /\ l = Len(asked[c]) /\ k <= l
        <5>1. Len(asked[c]) \in Nat
          BY <1>6
        <5>. QED  BY <1>6, <5>1, Zenon
      <4>2. \A i \in 1 .. k : i \in 1 .. l
        BY <4>1
      <4>. QED  BY <1>7, <4>1, <4>2
    <3>. QED  BY <1>1, <1>2, <1>8, <3>1 DEF StreamInv, Past, Malformed, Closes
  <2>. QED  BY <2>2, <2>4, <2>5, <2>6, <2>7, <2>8, <2>9, <2>10, <2>11 DEF StreamInv
<1>. QED  BY <1>4, <1>5, <1>10
\* A step that leaves every stream as it is.
LEMMA StreamsRest ==
    ASSUME FramingInv, UNCHANGED <<pc, buffer, request, why, wire, owner, asked, answered, serviceVars>>
    PROVE  JobInv' /\ \A d \in Conns : StreamInv(d)'
<1>1. job' = job
  BY DEF serviceVars
<1>2. \A d \in Conns : Left(d)
  BY DEF Left
<1>3. JobInv'
  BY JobStays DEF FramingInv
<1>4. PICK D \in SUBSET Conns : D = Conns
  OBVIOUS
<1>5. \A d \in D : StreamInv(d)'
  BY <1>1, <1>2, <1>4, StreamsStay
<1>. QED  BY <1>3, <1>4, <1>5

LEMMA CallersAre == Other \notin Callers /\ None \notin Callers /\ Main \in Callers
BY ClientsAssumption DEF Callers

LEMMA CountKeeps ==
    ASSUME TypeOK, ClientInv, NEW t \in Callers, NEW connected \in BOOLEAN, NEW success \in BOOLEAN,
           Count(t, connected, success), UNCHANGED <<pc, owner, using>>
    PROVE  /\ caller' \in [Callers -> {"none", "connect", "send", "recv", "end", "done"}]
           /\ local' \in [Callers -> Stats] /\ total.stats' \in Stats /\ total' = total
           /\ ClientInv'
<1>. DEFINE counted == [totalRequests |-> local[t].totalRequests + (IF connected THEN 1 ELSE 0),
                        successful |-> local[t].successful + (IF success THEN 1 ELSE 0),
                        failed |-> local[t].failed + (IF success THEN 0 ELSE 1)]
            requests == IF t = Main THEN 1 ELSE NumRequests
            next == IF counted.successful + counted.failed = requests THEN "end" ELSE "connect"
<1>1. /\ local' = [local EXCEPT ![t] = counted]
      /\ caller' = [caller EXCEPT ![t] = next] /\ total' = total
  BY DEF Count
<1>2. counted \in Stats
  BY DEF TypeOK, Stats
<1>3. next \in {"end", "connect"}
  OBVIOUS
<1>. HIDE DEF counted, next
<1>4. /\ caller' \in [Callers -> {"none", "connect", "send", "recv", "end", "done"}]
      /\ local' \in [Callers -> Stats] /\ total.stats' \in Stats
  BY <1>1, <1>2, <1>3 DEF TypeOK
<1>5. \A u \in Callers : caller'[u] \in {"send", "recv"} => caller[u] \in {"send", "recv"}
  BY <1>1, <1>3 DEF TypeOK
<1>6. ClientInv'
  BY <1>5 DEF ClientInv
<1>. QED  BY <1>1, <1>4, <1>6

LEMMA ConnectKeeps ==
    ASSUME FramingInv, running = 0, NEW c \in Conns, NEW t \in Callers, Connect(t, c), UNCHANGED running
    PROVE  FramingInv'
<1>1. /\ Open(c, t) /\ caller' = [caller EXCEPT ![t] = "send"] /\ using' = [using EXCEPT ![t] = c]
      /\ local' = local /\ total' = total
  BY DEF Connect
<1>2. TypeOK /\ ClientInv
  BY DEF FramingInv
<1>3. /\ JobInv' /\ Functions' /\ \A d \in Conns : StreamInv(d)'
      /\ owner' \in [Conns -> Callers \union {Other, None}]
      /\ pc[c] = "none" /\ pc'[c] = "read" /\ owner'[c] = t
      /\ \A d \in Conns : d # c => pc'[d] = pc[d] /\ owner'[d] = owner[d]
  BY <1>1, OpenKeeps
<1>4. gone' = gone /\ why' = why /\ job' = job /\ pc' = [pc EXCEPT ![c] = "read"]
  BY <1>1 DEF Open, serviceVars
<1>5. ClientTypes'
  BY <1>1, <1>2, <1>3, <1>4 DEF ClientTypes, TypeOK
<1>6. TypeOK'
  BY <1>2, <1>4, <1>5, TypesBetween
<1>7. /\ using'[t] = c
      /\ \A u \in Callers : u # t => caller'[u] = caller[u] /\ using'[u] = using[u]
  BY <1>1, <1>2 DEF TypeOK
<1>8. ClientInv'
  <2>. SUFFICES ASSUME NEW u \in Callers, caller'[u] \in {"send", "recv"}
                PROVE  using'[u] \in Conns /\ owner'[using'[u]] = u /\ pc'[using'[u]] # "none"
    BY DEF ClientInv
  <2>1. CASE u = t
    BY <1>3, <1>7, <2>1
  <2>2. CASE u # t
    <3>1. using[u] \in Conns /\ owner[using[u]] = u /\ pc[using[u]] # "none"
      BY <1>2, <1>7, <2>2 DEF ClientInv
    <3>. QED  BY <1>3, <1>7, <2>2, <3>1
  <2>. QED  BY <2>1, <2>2
<1>. QED  BY <1>3, <1>6, <1>8 DEF FramingInv

LEMMA OtherOpensKeeps ==
    ASSUME FramingInv, running = 0, NEW c \in Conns, OtherOpens(c), UNCHANGED running
    PROVE  FramingInv'
<1>1. Open(c, Other) /\ UNCHANGED <<caller, using, local, total>>
  BY DEF OtherOpens, clientVars
<1>2. TypeOK /\ ClientInv
  BY DEF FramingInv
<1>3. /\ JobInv' /\ Functions' /\ \A d \in Conns : StreamInv(d)'
      /\ owner' \in [Conns -> Callers \union {Other, None}]
      /\ pc[c] = "none" /\ pc'[c] = "read" /\ owner'[c] = Other
      /\ \A d \in Conns : d # c => pc'[d] = pc[d] /\ owner'[d] = owner[d]
  BY <1>1, OpenKeeps
<1>4. gone' = gone /\ why' = why /\ job' = job /\ pc' = [pc EXCEPT ![c] = "read"]
  BY <1>1 DEF Open, serviceVars
<1>5. ClientTypes'
  BY <1>1, <1>2, <1>3, <1>4 DEF ClientTypes, TypeOK
<1>6. TypeOK'
  BY <1>2, <1>4, <1>5, TypesBetween
<1>7. ClientInv'
  <2>. SUFFICES ASSUME NEW u \in Callers, caller[u] \in {"send", "recv"}
                PROVE  using[u] \in Conns /\ owner'[using[u]] = u /\ pc'[using[u]] # "none"
    BY <1>1 DEF ClientInv
  <2>1. using[u] \in Conns /\ owner[using[u]] = u /\ pc[using[u]] # "none"
    BY <1>2 DEF ClientInv
  <2>. QED  BY <1>3, <2>1
<1>. QED  BY <1>3, <1>6, <1>7 DEF FramingInv

LEMMA OtherAsksKeeps ==
    ASSUME FramingInv, running = 0, NEW c \in Conns, NEW r \in Requests, OtherAsks(c, r)
    PROVE  FramingInv'
<1>1. /\ owner[c] = Other /\ pc[c] # "closed" /\ Ask(c, r, "lower")
      /\ UNCHANGED <<coroutineVars, back, owner, gone, answered, clientVars, serviceVars>>
  BY DEF OtherAsks
<1>2. TypeOK /\ ClientInv /\ StreamInv(c)
  BY DEF FramingInv
<1>3. pc[c] # "none" /\ "lower" = Spelled(c) /\ r \in RequestSet
  BY <1>1, <1>2, RequestsAre, ClientsAssumption DEF StreamInv, Fresh, Spelled
<1>4. JobInv' /\ Functions' /\ \A d \in Conns : StreamInv(d)'
  BY <1>1, <1>3, AskKeeps
<1>5. UNCHANGED <<pc, running, why, job, owner, gone, caller, using, local, total>>
  BY <1>1 DEF coroutineVars, clientVars, serviceVars
<1>6. TypeOK' /\ ClientInv'
  BY <1>2, <1>5 DEF TypeOK, ClientInv
<1>. QED  BY <1>4, <1>6 DEF FramingInv

\* The request lines of the client program.
LEMMA PathsAre ==
    <<"line", "GET", "/health">> \in Lines /\ <<"line", "POST", "/recommend">> \in Lines
<1>1. \A m, p \in Words : <<"line", m, p>> \in {"line"} \X Words \X Words
  OBVIOUS
<1>2. "GET" \in Words /\ "POST" \in Words /\ "/health" \in Words /\ "/recommend" \in Words
  BY DEF Words
<1>. QED  BY <1>1, <1>2 DEF Lines

LEMMA SendRequestKeeps ==
    ASSUME FramingInv, running = 0, NEW t \in Callers, SendRequest(t)
    PROVE  FramingInv'
<1>. DEFINE c == using[t]
            user == local[t].successful + local[t].failed + 1
            r == IF t = Main THEN Health ELSE Recommend(user)
<1>1. /\ caller[t] = "send" /\ caller' = [caller EXCEPT ![t] = "recv"]
      /\ IF pc[c] = "closed" THEN UNCHANGED <<asked, wire>> ELSE Ask(c, r, "Upper")
      /\ UNCHANGED <<coroutineVars, back, owner, gone, answered, using, local, total, serviceVars>>
  BY DEF SendRequest
<1>2. TypeOK /\ ClientInv /\ Functions /\ JobInv
  BY DEF FramingInv
<1>3. UNCHANGED <<pc, running, why, job, owner, gone, using, local, total, buffer, request, back,
                  answered>>
  BY <1>1 DEF coroutineVars, serviceVars
<1>4. c \in Conns /\ owner[c] = t /\ pc[c] # "none"
  BY <1>1, <1>2 DEF ClientInv
<1>5. "Upper" = Spelled(c)
  BY <1>4, CallersAre DEF Spelled
<1>6. r \in RequestSet
  <2>1. user \in Nat
    BY <1>2 DEF TypeOK, Stats
  <2>. HIDE DEF user
  <2>2. Health \in RequestSet
    <3>1. <<>> \in Seq(Field) /\ TRUE \in BOOLEAN
      OBVIOUS
    <3>. QED  BY <3>1, PathsAre DEF Health, RequestSet
  <2>3. Recommend(user) \in RequestSet
    <3>1. <<"user", user>> \in Field /\ <<"count", 10>> \in Field
      BY <2>1 DEF Field
    <3>2. <<<<"user", user>>, <<"count", 10>>>> \in Seq(Field)
      BY <3>1
    <3>. QED  BY <3>2, PathsAre DEF Recommend, RequestSet
  <2>. QED  BY <2>2, <2>3
<1>. HIDE DEF c, r
<1>7. JobInv' /\ Functions' /\ \A d \in Conns : StreamInv(d)'
  <2>1. CASE pc[c] = "closed"
    <3>1. JobInv' /\ \A d \in Conns : StreamInv(d)'
      BY <1>1, <1>3, <2>1, StreamsRest
    <3>2. Functions'
      BY <1>1, <1>2, <1>3, <2>1 DEF Functions, PerConn
    <3>. QED  BY <3>1, <3>2
  <2>2. CASE pc[c] # "closed"
    <3>1. Ask(c, r, "Upper") /\ pc[c] \notin {"none", "closed"}
      BY <1>1, <1>4, <2>2
    <3>. QED  BY <1>1, <1>4, <1>5, <1>6, <3>1, AskKeeps
  <2>. QED  BY <2>1, <2>2
<1>8. TypeOK' /\ ClientInv'
  <2>1. caller' \in [Callers -> {"none", "connect", "send", "recv", "end", "done"}]
        /\ \A u \in Callers : u # t => caller'[u] = caller[u]
    BY <1>1, <1>2 DEF TypeOK
  <2>2. TypeOK'
    BY <1>2, <1>3, <2>1 DEF TypeOK
  <2>3. ClientInv'
    BY <1>1, <1>2, <1>3, <2>1 DEF ClientInv
  <2>. QED  BY <2>2, <2>3
<1>. QED  BY <1>7, <1>8 DEF FramingInv

\* A client hangs up: only what it was sent and has not received is lost.
LEMMA HangupKeeps ==
    ASSUME FramingInv, NEW c \in Conns, Hangup(c),
           UNCHANGED <<coroutineVars, wire, owner, asked, answered, serviceVars>>
    PROVE  JobInv' /\ Functions' /\ (\A d \in Conns : StreamInv(d)') /\ gone' \subseteq Conns
<1>1. gone' = gone \union {c} /\ back' = [back EXCEPT ![c] = <<>>]
  BY DEF Hangup
<1>2. UNCHANGED <<pc, buffer, request, why, wire, owner, asked, answered, serviceVars>>
  BY DEF coroutineVars
<1>3. JobInv' /\ \A d \in Conns : StreamInv(d)'
  BY <1>2, StreamsRest
<1>4. Functions'
  BY <1>1, <1>2 DEF FramingInv, Functions, PerConn
<1>. QED  BY <1>1, <1>3, <1>4 DEF FramingInv, TypeOK

LEMMA OtherLeavesKeeps ==
    ASSUME FramingInv, NEW c \in Conns, OtherLeaves(c)
    PROVE  FramingInv'
<1>1. /\ Hangup(c)
      /\ UNCHANGED <<coroutineVars, wire, owner, asked, answered, clientVars, serviceVars>>
  BY DEF OtherLeaves
<1>2. JobInv' /\ Functions' /\ (\A d \in Conns : StreamInv(d)') /\ gone' \subseteq Conns
  BY <1>1, HangupKeeps
<1>3. UNCHANGED <<pc, running, why, job, owner, caller, using, local, total>>
  BY <1>1 DEF coroutineVars, clientVars, serviceVars
<1>4. TypeOK' /\ ClientInv'
  BY <1>2, <1>3 DEF FramingInv, TypeOK, ClientInv
<1>. QED  BY <1>2, <1>4 DEF FramingInv

LEMMA ReceiveKeeps ==
    ASSUME FramingInv, NEW t \in Callers, Receive(t)
    PROVE  FramingInv'
<1>. DEFINE c == using[t]
<1>1. PICK success \in BOOLEAN : Count(t, TRUE, success)
  <2>. DEFINE wanted == IF t = Main THEN "status" ELSE "items"
  <2>1. \/ \E n \in 1 .. Len(back[c]) : Count(t, TRUE, wanted \in ToSet(SubSeq(back[c], 1, n)))
        \/ Count(t, TRUE, FALSE)
    BY DEF Receive
  <2>2. CASE Count(t, TRUE, FALSE)
    BY <2>2
  <2>3. ASSUME NEW n \in 1 .. Len(back[c]), Count(t, TRUE, wanted \in ToSet(SubSeq(back[c], 1, n)))
        PROVE  \E success \in BOOLEAN : Count(t, TRUE, success)
    <3>1. (wanted \in ToSet(SubSeq(back[c], 1, n))) \in BOOLEAN
      OBVIOUS
    <3>. QED  BY <2>3, <3>1, Zenon
  <2>. QED  BY <2>1, <2>2, <2>3
<1>2. /\ caller[t] = "recv" /\ Hangup(c)
      /\ UNCHANGED <<coroutineVars, wire, owner, asked, answered, using, serviceVars>>
  BY DEF Receive
<1>3. TypeOK /\ ClientInv
  BY DEF FramingInv
<1>4. c \in Conns
  BY <1>2, <1>3 DEF ClientInv
<1>5. JobInv' /\ Functions' /\ (\A d \in Conns : StreamInv(d)') /\ gone' \subseteq Conns
  BY <1>2, <1>4, HangupKeeps
<1>6. UNCHANGED <<pc, running, why, job, owner, using>>
  BY <1>2 DEF coroutineVars, serviceVars
<1>7. /\ caller' \in [Callers -> {"none", "connect", "send", "recv", "end", "done"}]
      /\ local' \in [Callers -> Stats] /\ total.stats' \in Stats /\ total' = total
      /\ ClientInv'
  BY <1>1, <1>3, <1>6, CountKeeps
<1>8. TypeOK'
  BY <1>3, <1>5, <1>6, <1>7 DEF TypeOK
<1>. QED  BY <1>5, <1>7, <1>8 DEF FramingInv

LEMMA ConnectFailsKeeps ==
    ASSUME FramingInv, NEW t \in Callers, ConnectFails(t)
    PROVE  FramingInv'
<1>1. /\ Count(t, FALSE, FALSE)
      /\ UNCHANGED <<coroutineVars, netVars, answered, using, serviceVars>>
  BY DEF ConnectFails
<1>2. UNCHANGED <<pc, buffer, request, running, why, job, wire, back, owner, gone, asked, answered,
                  using, serviceVars>>
  BY <1>1 DEF coroutineVars, netVars, serviceVars
<1>3. TypeOK /\ ClientInv /\ Functions
  BY DEF FramingInv
<1>4. /\ caller' \in [Callers -> {"none", "connect", "send", "recv", "end", "done"}]
      /\ local' \in [Callers -> Stats] /\ total.stats' \in Stats /\ total' = total
      /\ ClientInv'
  BY <1>1, <1>2, <1>3, CountKeeps
<1>5. JobInv' /\ \A d \in Conns : StreamInv(d)'
  BY <1>2, StreamsRest
<1>6. TypeOK' /\ Functions'
  BY <1>2, <1>3, <1>4 DEF TypeOK, Functions, PerConn
<1>. QED  BY <1>4, <1>5, <1>6 DEF FramingInv

LEMMA MergeKeeps ==
    ASSUME FramingInv, NEW t \in Callers, Merge(t)
    PROVE  FramingInv'
<1>1. /\ total' = [stats |-> [f \in DOMAIN NoStats |-> total.stats[f] + local[t][f]],
                   merged |-> total.merged \union {t}]
      /\ caller' = [caller EXCEPT ![t] = "done"]
      /\ UNCHANGED <<coroutineVars, netVars, answered, using, local, serviceVars>>
  BY DEF Merge
<1>2. UNCHANGED <<pc, buffer, request, running, why, job, wire, back, owner, gone, asked, answered,
                  using, local, serviceVars>>
  BY <1>1 DEF coroutineVars, netVars, serviceVars
<1>3. TypeOK /\ ClientInv /\ Functions
  BY DEF FramingInv
<1>4. total'.stats \in Stats
  <2>1. DOMAIN NoStats = {"totalRequests", "successful", "failed"}
    BY DEF NoStats
  <2>2. total'.stats = [f \in {"totalRequests", "successful", "failed"} |-> total.stats[f] + local[t][f]]
    BY <1>1, <2>1
  <2>3. \A f \in {"totalRequests", "successful", "failed"} : total.stats[f] + local[t][f] \in Nat
    BY <1>3 DEF TypeOK, Stats
  <2>. QED  BY <2>2, <2>3 DEF Stats
<1>5. /\ caller' \in [Callers -> {"none", "connect", "send", "recv", "end", "done"}]
      /\ \A u \in Callers : caller'[u] \in {"send", "recv"} => caller[u] \in {"send", "recv"}
  BY <1>1, <1>3 DEF TypeOK
<1>6. TypeOK' /\ ClientInv' /\ Functions'
  BY <1>2, <1>3, <1>4, <1>5 DEF TypeOK, ClientInv, Functions, PerConn
<1>7. JobInv' /\ \A d \in Conns : StreamInv(d)'
  BY <1>2, StreamsRest
<1>. QED  BY <1>6, <1>7 DEF FramingInv

LEMMA StartThreadsKeeps ==
    ASSUME FramingInv, StartThreads
    PROVE  FramingInv'
<1>1. /\ caller' = [t \in Callers |->
                        IF t = Main THEN "done"
                        ELSE IF local[Main].successful = 0 THEN "none"
                        ELSE IF NumRequests = 0 THEN "end" ELSE "connect"]
      /\ UNCHANGED <<coroutineVars, netVars, answered, using, local, total, serviceVars>>
  BY DEF StartThreads
<1>2. UNCHANGED <<pc, buffer, request, running, why, job, wire, back, owner, gone, asked, answered,
                  using, local, total, serviceVars>>
  BY <1>1 DEF coroutineVars, netVars, serviceVars
<1>3. TypeOK /\ ClientInv /\ Functions
  BY DEF FramingInv
<1>4. \A t \in Callers : caller'[t] \in {"none", "connect", "end", "done"}
  BY <1>1
<1>5. caller' \in [Callers -> {"none", "connect", "send", "recv", "end", "done"}]
  BY <1>1
<1>6. TypeOK' /\ ClientInv' /\ Functions'
  BY <1>2, <1>3, <1>4, <1>5 DEF TypeOK, ClientInv, Functions, PerConn
<1>7. JobInv' /\ \A d \in Conns : StreamInv(d)'
  BY <1>2, StreamsRest
<1>. QED  BY <1>6, <1>7 DEF FramingInv

-----------------------------------------------------------------------------
(* The framing of the streams                                                *)

LEMMA FramingStart == Init => FramingInv
<1>. SUFFICES ASSUME Init PROVE FramingInv
  OBVIOUS
<1>1. JobInv
  BY JobStart DEF Init
<1>2. Functions
  BY DEF Init, Functions, PerConn
<1>3. ClientInv
  BY DEF Init, ClientInv
<1>4. TypeOK
  <2>1. job = NoJob
    BY DEF Init, RecommendationInit
  <2>2. NoStats \in Stats
    BY DEF NoStats, Stats
  <2>3. /\ local = [t \in Callers |-> NoStats] /\ total.stats = NoStats
    BY DEF Init
  <2>4. local \in [Callers -> Stats] /\ total.stats \in Stats
    BY <2>2, <2>3
  <2>5. /\ pc = [c \in Conns |-> "none"] /\ running = 0 /\ why = [c \in Conns |-> None]
        /\ owner = [c \in Conns |-> None] /\ gone = {} /\ using = [t \in Callers |-> 0]
        /\ caller = [t \in Callers |-> IF t = Main THEN "connect" ELSE "none"]
    BY DEF Init
  <2>6. \A c \in Conns : (running = c) <=> (pc[c] \in {"parse", "handle"})
    BY <2>5, ConnsAre
  <2>. QED  BY <2>1, <2>4, <2>5, <2>6 DEF TypeOK
<1>5. ASSUME NEW c \in Conns PROVE StreamInv(c)
  <2>1. /\ pc[c] = "none" /\ buffer[c] = <<>> /\ wire[c] = <<>> /\ owner[c] = None
        /\ asked[c] = <<>> /\ answered[c] = <<>> /\ why[c] = None
    BY DEF Init
  <2>2. Len(asked[c]) = 0 /\ Len(answered[c]) = 0 /\ ~ Pending(c)
    BY <2>1 DEF Pending
  <2>3. StreamTypes(c)
    BY <2>1, <2>2 DEF StreamTypes
  <2>4. Framed(c)
    <3>1. TokensFrom(asked[c], Len(answered[c]), Spelled(c)) = <<>>
      BY <2>2 DEF TokensFrom
    <3>2. FlattenSeq(<<>>) = <<>>
      BY DEF FlattenSeq
    <3>. QED  BY <2>1, <3>1, <3>2 DEF Framed
  <2>5. Fresh(c) /\ Idle(c) /\ Busy(c) /\ Handling(c) /\ Sending(c) /\ Past(c)
    BY <2>1, <2>2 DEF Fresh, Idle, Busy, Handling, Sending, Past
  <2>6. Ended(c)
    <3>1. None # "eof"
      BY ClientsAssumption
    <3>. QED  BY <2>1, <2>2, <3>1 DEF Ended
  <2>. QED  BY <2>3, <2>4, <2>5, <2>6 DEF StreamInv
<1>. QED  BY <1>1, <1>2, <1>3, <1>4, <1>5 DEF FramingInv

LEMMA FramingStutters == FramingInv /\ UNCHANGED vars => FramingInv'
<1>. SUFFICES ASSUME FramingInv, UNCHANGED vars PROVE FramingInv'
  OBVIOUS
<1>1. UNCHANGED <<pc, buffer, request, running, why, wire, back, owner, gone, asked, answered,
                  caller, using, local, total, job, serviceVars>>
  BY DEF vars, coroutineVars, netVars, clientVars, serviceVars
<1>2. JobInv' /\ \A d \in Conns : StreamInv(d)'
  BY <1>1, StreamsRest
<1>3. TypeOK' /\ ClientInv' /\ Functions'
  BY <1>1 DEF FramingInv, TypeOK, ClientInv, Functions, PerConn
<1>. QED  BY <1>2, <1>3 DEF FramingInv

LEMMA FramingStep == FramingInv /\ [Next]_vars => FramingInv'
<1>. SUFFICES ASSUME FramingInv, [Next]_vars PROVE FramingInv'
  OBVIOUS
<1>1. ASSUME NEW c \in Conns, RecommendationServiceTask(c) \/ ReadTimesOut(c)
      PROVE  FramingInv'
  BY <1>1, TaskKeeps, ReadTimesOutKeeps
<1>2. ASSUME Clients PROVE FramingInv'
  <2>1. running = 0
    BY <1>2 DEF Clients
  <2>2. ASSUME NEW c \in Conns, OtherOpens(c) PROVE FramingInv'
    <3>1. UNCHANGED running
      BY <2>2 DEF OtherOpens, Open
    <3>. QED  BY <2>1, <2>2, <3>1, OtherOpensKeeps
  <2>3. ASSUME NEW c \in Conns, OtherLeaves(c) PROVE FramingInv'
    BY <2>3, OtherLeavesKeeps
  <2>4. ASSUME NEW c \in Conns, NEW r \in Requests, OtherAsks(c, r) PROVE FramingInv'
    BY <2>1, <2>4, OtherAsksKeeps
  <2>5. ASSUME NEW t \in Callers, ClientThreadFunc(t) PROVE FramingInv'
    <3>1. CASE ConnectFails(t)
      BY <3>1, ConnectFailsKeeps
    <3>2. CASE SendRequest(t)
      BY <2>1, <3>2, SendRequestKeeps
    <3>3. CASE Receive(t)
      BY <3>3, ReceiveKeeps
    <3>4. CASE Merge(t)
      BY <3>4, MergeKeeps
    <3>5. ASSUME NEW c \in Conns, Connect(t, c) PROVE FramingInv'
      <4>1. UNCHANGED running
        BY <3>5 DEF Connect, Open
      <4>. QED  BY <2>1, <3>5, <4>1, ConnectKeeps
    <3>. QED  BY <2>5, <3>1, <3>2, <3>3, <3>4, <3>5 DEF ClientThreadFunc
  <2>6. CASE StartThreads
    BY <2>6, StartThreadsKeeps
  <2>. QED  BY <1>2, <2>2, <2>3, <2>4, <2>5, <2>6 DEF Clients
<1>3. CASE UNCHANGED vars
  BY <1>3, FramingStutters
<1>. QED  BY <1>1, <1>2, <1>3 DEF Next

LEMMA FramingHolds == Spec => []FramingInv
<1>1. Init => FramingInv
  BY FramingStart
<1>2. FramingInv /\ [Next]_vars => FramingInv'
  BY FramingStep
<1>. QED  BY <1>1, <1>2, PTL DEF Spec

LEMMA FramingIsEnough == FramingInv => ServiceInv
<1>. SUFFICES ASSUME FramingInv, NEW c \in Conns
              PROVE  LET n == Len(answered[c])
                         spelled == IF owner[c] = Other THEN "lower" ELSE "Upper"
                         open == [i \in 1 .. Len(asked[c]) - n |-> Tokens(asked[c][n + i], spelled)]
                     IN  /\ pc[c] \in {"read", "canceled", "send"} =>
                               buffer[c] \o wire[c] = FlattenSeq(open)
                         /\ pc[c] \in {"read", "canceled"} /\ open # <<>> =>
                               \/ Malformed(asked[c][n + 1])
                               \/ Len(buffer[c]) < Len(open[1])
                         /\ why[c] = "eof" => open = <<>> \/ Malformed(asked[c][n + 1])
  BY DEF ServiceInv, FramingIsKept, FramingInv
<1>. DEFINE n == Len(answered[c])
            open == TokensFrom(asked[c], n, Spelled(c))
<1>1. StreamInv(c)
  BY DEF FramingInv
<1>2. /\ asked[c] \in Seq(RequestSet) /\ n \in Nat /\ n <= Len(asked[c])
      /\ buffer[c] \in Seq(TokenSet(Spelled(c)))
  BY <1>1 DEF StreamInv, StreamTypes
<1>3. pc[c] \in {"read", "canceled", "send"} => buffer[c] \o wire[c] = FlattenSeq(open)
  BY <1>1 DEF StreamInv, Framed, Serving
<1>4. ~ Pending(c) => open = <<>>
  <2>. SUFFICES ASSUME ~ Pending(c) PROVE open = <<>>
    OBVIOUS
  <2>1. n = Len(asked[c])
    BY <1>2 DEF Pending
  <2>. QED  BY <2>1 DEF TokensFrom
<1>5. Pending(c) => open[1] = Tokens(Oldest(c), Spelled(c)) /\ Len(open[1]) \in Nat
  <2>. SUFFICES ASSUME Pending(c)
                PROVE  open[1] = Tokens(Oldest(c), Spelled(c)) /\ Len(open[1]) \in Nat
    OBVIOUS
  <2>1. 1 \in 1 .. Len(asked[c]) - n /\ n + 1 \in 1 .. Len(asked[c])
    BY <1>2 DEF Pending
  <2>2. open[1] = Tokens(Oldest(c), Spelled(c))
    BY <2>1 DEF TokensFrom, Oldest
  <2>3. Oldest(c) \in RequestSet
    BY <1>2, <2>1 DEF Oldest
  <2>4. Tokens(Oldest(c), Spelled(c)) \in Seq(TokenSet(Spelled(c)))
    BY <2>3, SpelledIs, TokensAre
  <2>. QED  BY <2>2, <2>4
<1>6. pc[c] \in {"read", "canceled"} /\ Pending(c) => Malformed(Oldest(c)) \/ ~ Whole(c)
  BY <1>1 DEF StreamInv, Idle
<1>7. why[c] = "eof" => (Pending(c) => Malformed(Oldest(c)))
  BY <1>1 DEF StreamInv, Ended
<1>8. Len(buffer[c]) \in Nat
  BY <1>2
<1>9. Pending(c) => (Whole(c) <=> Len(buffer[c]) >= Len(open[1]))
  BY <1>5 DEF Whole
<1>. HIDE DEF open
<1>10. pc[c] \in {"read", "canceled"} /\ open # <<>> =>
          \/ Malformed(Oldest(c))
          \/ Len(buffer[c]) < Len(open[1])
  <2>. SUFFICES ASSUME pc[c] \in {"read", "canceled"}, open # <<>>, ~ Malformed(Oldest(c))
                PROVE  Len(buffer[c]) < Len(open[1])
    OBVIOUS
  <2>1. Pending(c)
    BY <1>4
  <2>2. ~ Whole(c)
    BY <1>6, <2>1
  <2>3. Len(open[1]) \in Nat /\ ~ (Len(buffer[c]) >= Len(open[1]))
    BY <1>5, <1>9, <2>1, <2>2
  <2>4. PICK a, b \in Nat : a = Len(buffer[c]) /\ b = Len(open[1])
    BY Zenon, <1>8, <2>3
  <2>. QED  BY <2>3, <2>4
<1>11. why[c] = "eof" => open = <<>> \/ Malformed(Oldest(c))
  BY <1>4, <1>7
<1>. QED  BY <1>3, <1>10, <1>11 DEF open, TokensFrom, Spelled, Oldest

\* At every time, however its stream is cut into reads, what a coroutine of
\* recommendationServiceTask has buffered and what is to be read after it begin
\* with the first request it has not answered, and it waits for more, or has seen
\* the end, only when that request is not whole, is malformed or is not there.
THEOREM StreamsKeepTheirFraming == Spec => []ServiceInv
<1>1. Spec => []FramingInv
  BY FramingHolds
<1>2. FramingInv => ServiceInv
  BY FramingIsEnough
<1>. QED  BY <1>1, <1>2, PTL

-----------------------------------------------------------------------------
(* A server of HTTP sessions                                                 *)

\* An answer that is sent is the next one of its session.
LEMMA SentAnswers ==
    ASSUME FramingInv, NEW c \in Conns, Sent(c)
    PROVE  Session!Answer(c)
<1>. DEFINE n == Len(answered[c])
            a == request[c].answer
<1>1. /\ pc[c] = "send" /\ pc[c] \in Serving /\ asked' = asked
      /\ answered' = [answered EXCEPT ![c] = Append(answered[c], a)]
  BY DEF Sent, Serving
<1>2. Pending(c) /\ ~ Malformed(Oldest(c)) /\ Fits(Oldest(c), a)
  BY SentKeeps
<1>3. StreamInv(c) /\ Functions
  BY DEF FramingInv
<1>4. /\ answered[c] \in Seq(AnswerSet) /\ Len(asked[c]) \in Nat /\ a \in AnswerSet
      /\ n \in Nat /\ n + 1 <= Len(asked[c]) /\ (n + 1) - 1 = n
  <2>1. asked[c] \in Seq(RequestSet) /\ answered[c] \in Seq(AnswerSet)
    BY <1>3 DEF StreamInv, StreamTypes
  <2>2. Len(asked[c]) \in Nat /\ n \in Nat /\ n < Len(asked[c])
    BY <1>2, <2>1 DEF Pending
  <2>3. a \in AnswerSet
    BY <1>1, <1>3 DEF StreamInv, Sending
  <2>. QED  BY <2>1, <2>2, <2>3
<1>5. \A i \in 1 .. n + 1 : ~ Malformed(asked[c][i])
  <2>. SUFFICES ASSUME NEW i \in 1 .. n + 1 PROVE ~ Malformed(asked[c][i])
    OBVIOUS
  <2>1. CASE i \in 1 .. n
    BY <1>3, <2>1 DEF StreamInv, Past
  <2>2. CASE i = n + 1
    BY <1>2, <2>2 DEF Oldest
  <2>. QED  BY <1>4, <2>1, <2>2
<1>6. \A i \in 1 .. n : ~ Closes(asked[c][i])
  BY <1>1, <1>3 DEF StreamInv, Past
<1>. HIDE DEF a
<1>7. answered'[c] = Append(answered[c], a)
  BY <1>1, <1>3 DEF Functions, PerConn
<1>8. Len(answered'[c]) = n + 1 /\ answered'[c][n + 1] = a
  <2>1. PICK s \in Seq(AnswerSet) : s = answered[c]
    BY <1>4
  <2>2. Len(Append(s, a)) = Len(s) + 1 /\ Append(s, a)[Len(s) + 1] = a
    BY ONLY s \in Seq(AnswerSet), <1>4
  <2>. QED  BY <1>7, <2>1, <2>2
<1>9. Fits(asked[c][n + 1], answered'[c][n + 1])
  BY <1>2, <1>8 DEF Oldest
<1>10. answered' = [answered EXCEPT ![c] = Append(@, answered'[c][n + 1])]
  BY <1>1, <1>8
<1>. QED  BY <1>1, <1>4, <1>5, <1>6, <1>8, <1>9, <1>10 DEF Session!Answer

\* A request that goes out is one that is asked.
LEMMA AskAsks ==
    ASSUME FramingInv, NEW c \in Conns, NEW r, NEW spelled, Ask(c, r, spelled), UNCHANGED answered
    PROVE  Session!Ask(c)
<1>1. asked' = [asked EXCEPT ![c] = Append(asked[c], r)]
  BY DEF Ask
<1>2. StreamInv(c) /\ Functions
  BY DEF FramingInv
<1>3. asked[c] \in Seq(RequestSet)
  BY <1>2 DEF StreamInv, StreamTypes
<1>4. asked'[c] = Append(asked[c], r)
  BY <1>1, <1>2 DEF Functions, PerConn
<1>5. Len(asked'[c]) = Len(asked[c]) + 1 /\ asked'[c][Len(asked[c]) + 1] = r
  BY <1>3, <1>4
<1>6. asked' = [asked EXCEPT ![c] = Append(@, asked'[c][Len(asked[c]) + 1])]
  BY <1>1, <1>5
<1>. QED  BY <1>5, <1>6 DEF Session!Ask

LEMMA TaskAnswers ==
    ASSUME FramingInv, NEW c \in Conns, RecommendationServiceTask(c)
    PROVE  Session!Answer(c) \/ UNCHANGED <<asked, answered>>
<1>1. CASE Sent(c)
  BY <1>1, SentAnswers
<1>2. CASE Serve(c)
  BY <1>2 DEF Serve, Route, AnswerAtOnce, Send, netVars
<1>3. CASE HandleDone(c)
  BY <1>3 DEF HandleDone, Send, netVars
<1>4. CASE Read(c) \/ ReadEnd(c) \/ Handle(c) \/ SendFails(c)
  BY <1>4 DEF Read, ReadEnd, Handle, SendFails, netVars
<1>. QED  BY <1>1, <1>2, <1>3, <1>4 DEF RecommendationServiceTask

LEMMA ClientsAsk ==
    ASSUME FramingInv, Clients
    PROVE  (\E c \in Conns : Session!Ask(c)) \/ UNCHANGED <<asked, answered>>
<1>1. ASSUME NEW c \in Conns, OtherOpens(c) PROVE UNCHANGED <<asked, answered>>
  BY <1>1 DEF OtherOpens, Open
<1>2. ASSUME NEW c \in Conns, OtherLeaves(c) PROVE UNCHANGED <<asked, answered>>
  BY <1>2 DEF OtherLeaves
<1>3. ASSUME NEW c \in Conns, NEW r \in Requests, OtherAsks(c, r) PROVE Session!Ask(c)
  BY <1>3, AskAsks DEF OtherAsks
<1>4. ASSUME NEW t \in Callers, SendRequest(t)
      PROVE  (\E c \in Conns : Session!Ask(c)) \/ UNCHANGED <<asked, answered>>
  <2>1. caller[t] = "send" /\ UNCHANGED answered
    BY <1>4 DEF SendRequest
  <2>2. using[t] \in Conns
    BY <2>1 DEF FramingInv, ClientInv
  <2>3. CASE pc[using[t]] = "closed"
    BY <1>4, <2>1, <2>3 DEF SendRequest
  <2>4. CASE pc[using[t]] # "closed"
    <3>1. PICK r : Ask(using[t], r, "Upper")
      BY <1>4, <2>4 DEF SendRequest
    <3>. QED  BY <2>1, <2>2, <3>1, AskAsks
  <2>. QED  BY <2>3, <2>4
<1>5. ASSUME NEW t \in Callers, ConnectFails(t) \/ Receive(t) \/ Merge(t)
                                  \/ \E c \in Conns : Connect(t, c)
      PROVE  UNCHANGED <<asked, answered>>
  BY <1>5 DEF ConnectFails, Receive, Merge, Connect, Open, netVars
<1>6. CASE StartThreads
  BY <1>6 DEF StartThreads, netVars
<1>. QED  BY <1>1, <1>2, <1>3, <1>4, <1>5, <1>6 DEF Clients, ClientThreadFunc

\* The service is an HTTP server: whatever the reads cut its streams into and
\* whatever the other connections ask in between, a connection's requests are
\* answered in order and once, each with what it asks for, the best items of its
\* user where it asks for items, and none after one that closes or is malformed.
THEOREM ServiceIsAnHttpServer == Spec => ImplementsHttpSession
<1>1. Init => Session!SessionInit
  BY DEF Init, Session!SessionInit
<1>2. FramingInv /\ [Next]_vars
        => [\E c \in Conns : Session!Ask(c) \/ Session!Answer(c)]_<<asked, answered>>
  <2>. SUFFICES ASSUME FramingInv, [Next]_vars
                PROVE  (\E c \in Conns : Session!Ask(c) \/ Session!Answer(c))
                          \/ UNCHANGED <<asked, answered>>
    OBVIOUS
  <2>1. CASE Clients
    BY <2>1, ClientsAsk
  <2>2. ASSUME NEW c \in Conns, RecommendationServiceTask(c)
        PROVE  Session!Answer(c) \/ UNCHANGED <<asked, answered>>
    BY <2>2, TaskAnswers
  <2>3. ASSUME NEW c \in Conns, ReadTimesOut(c) PROVE UNCHANGED <<asked, answered>>
    BY <2>3 DEF ReadTimesOut, netVars
  <2>4. CASE UNCHANGED vars
    BY <2>4 DEF vars, netVars
  <2>. QED  BY <2>1, <2>2, <2>3, <2>4 DEF Next
<1>3. Spec => []FramingInv
  BY FramingHolds
<1>. QED  BY <1>1, <1>2, <1>3, PTL DEF Spec, ImplementsHttpSession, Session!SessionSpec
-----------------------------------------------------------------------------
(* The statistics of the client program                                      *)

\* The first answer of the connection has items.
Won(c) == answered[c] # <<>> /\ answered[c][1].kind = "items"

OwnedBy(S)  == {c \in Conns : owner[c] \in S}
WonBy(S) == {c \in OwnedBy(S) : Won(c)}

Connected(t) == caller[t] \in {"send", "recv"}

\* The connections of t that it has counted: those of its present request are not.
Current(t) == IF Connected(t) THEN {using[t]} ELSE {}
Counted(t) == OwnedBy({t}) \ Current(t)

ThreadInv(t) ==
    /\ caller[t] = "none" => local[t] = NoStats
    /\ caller[t] \in {"connect", "send", "recv"} =>
          local[t].successful + local[t].failed < NumRequests
    /\ caller[t] \in {"end", "done"} => local[t].successful + local[t].failed = NumRequests
    /\ local[t].totalRequests = Cardinality(Counted(t))
    /\ local[t].successful <= Cardinality({c \in Counted(t) : Won(c)})

\* A client thread asks once on each connection, and reads what was answered.
ReplyInv(c) ==
    /\ back[c] \in Seq({"header", "items", "error", "status", "stats"})
    /\ pc[c] = "none" => back[c] = <<>>
    /\ owner[c] \in Threads =>
          /\ Len(asked[c]) <= 1
          /\ \A t \in Threads : caller[t] = "send" /\ using[t] = c => asked[c] = <<>>
          /\ (\E i \in 1 .. Len(back[c]) : back[c][i] = "items") => Won(c)

TotalInv ==
    /\ total.merged = {t \in Threads : caller[t] = "done"}
    /\ caller[Main] # "done" => \A t \in Threads : caller[t] = "none"
    /\ total.stats.successful + total.stats.failed = NumRequests * Cardinality(total.merged)
    /\ total.stats.totalRequests = Cardinality(OwnedBy(total.merged))
    /\ total.stats.successful <= Cardinality(WonBy(total.merged))

CountInv ==
    /\ \A t \in Threads : ThreadInv(t)
    /\ \A c \in Conns : ReplyInv(c)
    /\ TotalInv

LEMMA Sizes ==
    ASSUME NEW S \in SUBSET Conns
    PROVE  /\ IsFiniteSet(S) /\ Cardinality(S) \in Nat
           /\ \A T \in SUBSET S : IsFiniteSet(T) /\ Cardinality(T) \in Nat /\ Cardinality(T) <= Cardinality(S)
<1>1. Cardinality(Threads) \in Nat
  BY FS_CardinalityType, ClientsAssumption
<1>2. PICK k \in Nat : k = Cardinality(Threads) * NumRequests + 2
  <2>1. Cardinality(Threads) * NumRequests \in Nat
    BY <1>1, NumRequestsAssumption
  <2>. QED  BY <2>1
<1>3. IsFiniteSet(1 .. k)
  BY <1>2, FS_Interval
<1>4. IsFiniteSet(Conns)
  BY <1>2, <1>3 DEF Conns
<1>5. IsFiniteSet(S)
  BY <1>4, FS_Subset
<1>6. Cardinality(S) \in Nat
  BY <1>5, FS_CardinalityType
<1>7. ASSUME NEW T \in SUBSET S
      PROVE  IsFiniteSet(T) /\ Cardinality(T) \in Nat /\ Cardinality(T) <= Cardinality(S)
  <2>1. IsFiniteSet(T) /\ Cardinality(T) <= Cardinality(S)
    BY <1>5, FS_Subset
  <2>. QED  BY <2>1, FS_CardinalityType
<1>. QED  BY <1>5, <1>6, <1>7

LEMMA CountedIs == \A t : OwnedBy({t}) \in SUBSET Conns /\ Counted(t) \in SUBSET Conns
BY DEF OwnedBy, Counted

\* A thread that a step is not of.
LEMMA ThreadRests ==
    ASSUME NEW t \in Threads, TypeOK, ThreadInv(t),
           caller'[t] = caller[t], using'[t] = using[t], local'[t] = local[t],
           \A c \in Conns : owner'[c] = t <=> owner[c] = t,
           \A c \in Conns : Won(c) => Won(c)'
    PROVE  ThreadInv(t)'
<1>1. Counted(t)' = Counted(t)
  BY DEF Counted, OwnedBy, Current, Connected
<1>2. PICK S \in SUBSET Conns, T \in SUBSET Conns :
          T \in SUBSET S /\ S = {c \in Counted(t)' : Won(c)'} /\ T = {c \in Counted(t) : Won(c)}
  <2>1. /\ {c \in Counted(t)' : Won(c)'} \in SUBSET Conns
        /\ {c \in Counted(t) : Won(c)} \in SUBSET Conns
        /\ {c \in Counted(t) : Won(c)} \in SUBSET {c \in Counted(t)' : Won(c)'}
    BY <1>1, CountedIs
  <2>. QED  BY <2>1, Zenon
<1>3. Cardinality(T) <= Cardinality(S) /\ Cardinality(T) \in Nat /\ Cardinality(S) \in Nat
  BY <1>2, Sizes
<1>4. local[t].successful \in Nat /\ local[t].successful <= Cardinality(T)
  <2>1. local[t] \in Stats
    BY DEF TypeOK, Callers
  <2>. QED  BY <1>2, <2>1 DEF ThreadInv, Stats
<1>5. local[t].successful <= Cardinality(S)
  BY <1>3, <1>4
<1>6. local'[t].successful <= Cardinality({c \in Counted(t) : Won(c)}')
  BY <1>2, <1>5
<1>. QED  BY <1>1, <1>6 DEF ThreadInv

\* A step that adds to no summary.
LEMMA TotalRests ==
    ASSUME TypeOK, TotalInv, total' = total,
           \A t \in Threads : caller'[t] = "done" <=> caller[t] = "done",
           caller'[Main] # "done" => \A t \in Threads : caller'[t] = "none",
           \A c \in Conns : \A t \in total.merged : owner'[c] = t <=> owner[c] = t,
           \A c \in Conns : Won(c) => Won(c)'
    PROVE  TotalInv'
<1>1. total.merged = {t \in Threads : caller'[t] = "done"}
  BY DEF TotalInv
<1>2. OwnedBy(total.merged)' = OwnedBy(total.merged)
  BY DEF OwnedBy
<1>3. PICK S \in SUBSET Conns, T \in SUBSET Conns :
          T \in SUBSET S /\ S = WonBy(total.merged)' /\ T = WonBy(total.merged)
  <2>1. WonBy(total.merged)' \in SUBSET Conns /\ WonBy(total.merged) \in SUBSET Conns
        /\ WonBy(total.merged) \in SUBSET WonBy(total.merged)'
    BY <1>2 DEF WonBy, OwnedBy
  <2>. QED  BY <2>1, Zenon
<1>4. Cardinality(T) <= Cardinality(S) /\ Cardinality(T) \in Nat /\ Cardinality(S) \in Nat
  BY <1>3, Sizes
<1>5. total.stats.successful \in Nat /\ total.stats.successful <= Cardinality(T)
  BY <1>3 DEF TypeOK, Stats, TotalInv
<1>6. total'.stats.successful <= Cardinality(WonBy(total.merged)')
  BY <1>3, <1>4, <1>5
<1>. QED  BY <1>1, <1>2, <1>6 DEF TotalInv

\* A step of a coroutine, or of the pipelining client.
LEMMA CountsRest ==
    ASSUME TypeOK, CountInv, UNCHANGED <<caller, using, local, total>>,
           \A c \in Conns : \A t \in Threads : owner'[c] = t <=> owner[c] = t,
           \A c \in Conns : Won(c) => Won(c)',
           \A c \in Conns : ReplyInv(c)'
    PROVE  CountInv'
<1>1. \A t \in Threads : ThreadInv(t)'
  BY ThreadRests DEF CountInv
<1>2. total.merged \subseteq Threads
  BY DEF CountInv, TotalInv
<1>3. TotalInv'
  <2>1. TotalInv
    BY DEF CountInv
  <2>2. caller'[Main] # "done" => \A t \in Threads : caller'[t] = "none"
    BY <2>1 DEF TotalInv
  <2>3. \A c \in Conns : \A t \in total.merged : owner'[c] = t <=> owner[c] = t
    BY <1>2
  <2>. QED  BY <2>1, <2>2, <2>3, TotalRests
<1>. QED  BY <1>1, <1>3 DEF CountInv

LEMMA ReplyRests ==
    ASSUME NEW c \in Conns, ReplyInv(c), back'[c] = back[c], pc'[c] = "none" => pc[c] = "none",
           owner'[c] \in Threads => owner[c] \in Threads, asked'[c] = asked[c],
           \A t \in Threads : caller'[t] = "send" /\ using'[t] = c => caller[t] = "send" /\ using[t] = c,
           Won(c) => Won(c)'
    PROVE  ReplyInv(c)'
BY DEF ReplyInv

-----------------------------------------------------------------------------
(* The steps and the statistics                                              *)

LEMMA SentCounts ==
    ASSUME FramingInv, CountInv, NEW c \in Conns, Sent(c)
    PROVE  CountInv'
<1>. DEFINE a == request[c].answer
            more == IF c \in gone THEN <<>> ELSE back[c] \o <<"header", a.kind>>
            x == IF request[c].keepAlive THEN "parse" ELSE "closed"
<1>1. /\ pc[c] = "send" /\ pc' = [pc EXCEPT ![c] = x]
      /\ answered' = [answered EXCEPT ![c] = Append(answered[c], a)]
      /\ back' = [back EXCEPT ![c] = more]
      /\ UNCHANGED <<owner, asked, caller, using, local, total>>
  BY DEF Sent, clientVars
<1>2. TypeOK /\ Functions /\ StreamInv(c)
  BY DEF FramingInv
<1>3. a \in AnswerSet /\ answered[c] \in Seq(AnswerSet)
  BY <1>1, <1>2 DEF StreamInv, Sending, StreamTypes
<1>4. Pending(c)
  BY SentKeeps
<1>5. PICK b, k : b = back[c] /\ k = a.kind
  OBVIOUS
<1>6. b \in Seq({"header", "items", "error", "status", "stats"})
      /\ k \in {"items", "error", "status", "stats"}
  BY <1>3, <1>5 DEF AnswerSet, CountInv, ReplyInv
<1>7. PICK m : m = IF c \in gone THEN <<>> ELSE b \o <<"header", k>>
  OBVIOUS
<1>8. /\ m \in Seq({"header", "items", "error", "status", "stats"})
      /\ \A i \in 1 .. Len(m) : m[i] = "items" => k = "items" \/ \E j \in 1 .. Len(b) : b[j] = "items"
  <2>1. PICK X : X = {"header", "items", "error", "status", "stats"}
    OBVIOUS
  <2>2. PICK e : e = <<"header", k>>
    OBVIOUS
  <2>3. e \in Seq(X) /\ Len(e) = 2 /\ e[1] = "header" /\ e[2] = k
    BY <1>6, <2>1, <2>2
  <2>4. CASE c \in gone
    BY <1>7, <2>4
  <2>5. CASE c \notin gone
    <3>1. m = b \o e /\ b \in Seq(X)
      BY <1>6, <1>7, <2>1, <2>2, <2>5
    <3>2. /\ m \in Seq(X) /\ Len(m) = Len(b) + Len(e)
          /\ \A i \in 1 .. Len(b) : m[i] = b[i]
          /\ \A i \in 1 .. Len(e) : m[Len(b) + i] = e[i]
      <4>1. b \in Seq(X) /\ e \in Seq(X)
        BY <2>3, <3>1
      <4>2. m = b \o e
        BY <3>1
      <4>. QED  BY ONLY <4>1, <4>2, TwoParts
    <3>3. PICK l \in Nat : l = Len(b)
      BY <3>1
    <3>4. Len(m) = l + 2 /\ m[l + 1] = "header" /\ m[l + 2] = k /\ \A i \in 1 .. l : m[i] = b[i]
      BY <2>3, <3>2, <3>3
    <3>5. ASSUME NEW i \in 1 .. Len(m), m[i] = "items"
          PROVE  k = "items" \/ \E j \in 1 .. Len(b) : b[j] = "items"
      <4>1. i \in 1 .. l \/ i = l + 1 \/ i = l + 2
        BY <3>4
      <4>. QED  BY <3>3, <3>4, <3>5, <4>1
    <3>. QED  BY <2>1, <3>2, <3>5
  <2>. QED  BY <2>4, <2>5
<1>9. more = m
  BY <1>5, <1>7
<1>. HIDE DEF a, more, x
<1>10. answered'[c] = Append(answered[c], a) /\ back'[c] = m /\ pc'[c] = x
  BY <1>1, <1>2, <1>9 DEF Functions, PerConn, TypeOK
<1>11. \A d \in Conns : d # c => answered'[d] = answered[d] /\ back'[d] = back[d] /\ pc'[d] = pc[d]
  BY <1>1, <1>2 DEF Functions, PerConn, TypeOK
<1>12. PICK s \in Seq(AnswerSet) : s = answered[c]
  BY <1>3
<1>13. /\ Append(s, a) # <<>> /\ (s # <<>> => Append(s, a)[1] = s[1])
       /\ (s = <<>> => Append(s, a)[1] = a)
  BY ONLY s \in Seq(AnswerSet)
<1>14. Won(c) => Won(c)'
  BY <1>10, <1>12, <1>13 DEF Won
<1>15. answered[c] = <<>> /\ k = "items" => Won(c)'
  BY <1>5, <1>10, <1>12, <1>13 DEF Won, a
<1>16. \A d \in Conns : Won(d) => Won(d)'
  BY <1>11, <1>14 DEF Won
<1>17. \A d \in Conns : ReplyInv(d)
  BY DEF CountInv
<1>18. ReplyInv(c)'
  <2>1. x # "none"
    BY DEF x
  <2>2. ASSUME owner[c] \in Threads
        PROVE  /\ Len(asked[c]) <= 1
               /\ \A t \in Threads : caller[t] = "send" /\ using[t] = c => asked[c] = <<>>
               /\ (\E i \in 1 .. Len(m) : m[i] = "items") => Won(c)'
    <3>1. /\ Len(asked[c]) <= 1
          /\ \A t \in Threads : caller[t] = "send" /\ using[t] = c => asked[c] = <<>>
          /\ (\E i \in 1 .. Len(b) : b[i] = "items") => Won(c)
      BY <1>5, <1>17, <2>2 DEF ReplyInv
    <3>2. answered[c] = <<>>
      <4>1. Len(answered[c]) < Len(asked[c]) /\ Len(asked[c]) \in Nat /\ Len(answered[c]) \in Nat
        BY <1>2, <1>4 DEF Pending, StreamInv, StreamTypes
      <4>2. Len(answered[c]) = 0
        BY <3>1, <4>1
      <4>. QED  BY <1>12, <4>2
    <3>. QED  BY <1>8, <1>14, <1>15, <3>1, <3>2
  <2>3. owner'[c] = owner[c] /\ asked'[c] = asked[c] /\ caller' = caller /\ using' = using
    BY <1>1
  <2>. QED  BY <1>8, <1>10, <2>1, <2>2, <2>3 DEF ReplyInv
<1>19. \A d \in Conns : d # c => ReplyInv(d)'
  BY <1>1, <1>11, <1>16, <1>17, ReplyRests
<1>20. \A d \in Conns : ReplyInv(d)'
  BY <1>18, <1>19
<1>. QED  BY <1>1, <1>2, <1>16, <1>20, CountsRest

\* A step that goes on with no answer, no client and no request.
LEMMA OthersCount ==
    ASSUME TypeOK, CountInv, UNCHANGED <<netVars, answered, clientVars>>,
           \A d \in Conns : pc'[d] = "none" => pc[d] = "none"
    PROVE  CountInv'
<1>1. UNCHANGED <<back, owner, asked, answered, caller, using, local, total>>
  BY DEF netVars, clientVars
<1>2. \A d \in Conns : Won(d) => Won(d)'
  BY <1>1 DEF Won
<1>3. \A d \in Conns : ReplyInv(d)'
  BY <1>1, <1>2, ReplyRests DEF CountInv
<1>. QED  BY <1>1, <1>2, <1>3, CountsRest

LEMMA TaskCounts ==
    ASSUME FramingInv, CountInv, NEW c \in Conns,
           RecommendationServiceTask(c) \/ ReadTimesOut(c)
    PROVE  CountInv'
<1>1. TypeOK
  BY DEF FramingInv
<1>2. CASE Sent(c)
  BY <1>2, SentCounts
<1>3. ASSUME NEW x \in {"read", "canceled", "parse", "handle", "send", "closed", "left"},
             pc' = [pc EXCEPT ![c] = x] \/ pc' = pc
      PROVE  \A d \in Conns : pc'[d] = "none" => pc[d] = "none"
  BY <1>1, <1>3 DEF TypeOK
<1>4. CASE Serve(c)
  <2>1. UNCHANGED <<netVars, answered, clientVars>>
    BY <1>4 DEF Serve, Route, AnswerAtOnce, Send, netVars, clientVars
  <2>2. pc' = [pc EXCEPT ![c] = "read"] \/ pc' = [pc EXCEPT ![c] = "handle"]
        \/ pc' = [pc EXCEPT ![c] = "send"]
    BY <1>4 DEF Serve, Route, AnswerAtOnce, Send
  <2>. QED  BY <1>1, <1>3, <2>1, <2>2, OthersCount
<1>5. CASE HandleDone(c)
  <2>1. UNCHANGED <<netVars, answered, clientVars>> /\ pc' = [pc EXCEPT ![c] = "send"]
    BY <1>5 DEF HandleDone, Send, netVars, clientVars
  <2>. QED  BY <1>1, <1>3, <2>1, OthersCount
<1>6. CASE ReadTimesOut(c) \/ ReadEnd(c) \/ SendFails(c)
  <2>1. /\ UNCHANGED <<netVars, answered, clientVars>>
        /\ \E x \in {"canceled", "closed", "left"} : pc' = [pc EXCEPT ![c] = x]
    BY <1>6 DEF ReadTimesOut, ReadEnd, SendFails
  <2>. QED  BY <1>1, <1>3, <2>1, OthersCount
<1>7. CASE Handle(c)
  <2>1. UNCHANGED <<netVars, answered, clientVars>> /\ pc' = pc
    BY <1>7 DEF Handle, coroutineVars
  <2>. QED  BY <1>1, <2>1, OthersCount
<1>8. CASE Read(c)
  <2>1. /\ UNCHANGED <<back, owner, asked, answered, caller, using, local, total>>
        /\ pc' = [pc EXCEPT ![c] = "parse"]
    BY <1>8 DEF Read, clientVars
  <2>2. \A d \in Conns : Won(d) => Won(d)'
    BY <2>1 DEF Won
  <2>3. \A d \in Conns : ReplyInv(d)'
    BY <1>3, <2>1, <2>2, ReplyRests DEF CountInv
  <2>. QED  BY <1>1, <2>1, <2>2, <2>3, CountsRest
<1>. QED  BY <1>2, <1>4, <1>5, <1>6, <1>7, <1>8 DEF RecommendationServiceTask

LEMMA HangupReplies ==
    ASSUME FramingInv, CountInv, NEW c \in Conns, Hangup(c),
           UNCHANGED <<pc, asked, owner, answered, using>>,
           \A t \in Threads : caller'[t] = "send" => caller[t] = "send"
    PROVE  (\A d \in Conns : ReplyInv(d)') /\ \A d \in Conns : Won(d) => Won(d)'
<1>1. back' = [back EXCEPT ![c] = <<>>]
  BY DEF Hangup
<1>2. PerConn(back)
  BY DEF FramingInv, Functions
<1>3. back'[c] = <<>> /\ \A d \in Conns : d # c => back'[d] = back[d]
  BY <1>1, <1>2 DEF PerConn
<1>4. \A d \in Conns : Won(d) => Won(d)'
  BY DEF Won
<1>5. ReplyInv(c)'
  <2>1. <<>> \in Seq({"header", "items", "error", "status", "stats"}) /\ Len(<<>>) = 0
    OBVIOUS
  <2>. QED  BY <1>3, <2>1 DEF CountInv, ReplyInv
<1>6. \A d \in Conns : d # c => ReplyInv(d)'
  BY <1>3, <1>4, ReplyRests DEF CountInv
<1>. QED  BY <1>4, <1>5, <1>6

LEMMA OtherCounts ==
    ASSUME FramingInv, CountInv, NEW c \in Conns,
           OtherOpens(c) \/ OtherLeaves(c) \/ \E r \in Requests : OtherAsks(c, r)
    PROVE  CountInv'
<1>1. TypeOK /\ Functions /\ StreamInv(c) /\ Other \notin Threads /\ None \notin Threads
  BY CallersAre DEF FramingInv, Callers
<1>2. CASE OtherLeaves(c)
  <2>1. Hangup(c) /\ UNCHANGED <<pc, asked, owner, answered, caller, using, local, total>>
    BY <1>2 DEF OtherLeaves, coroutineVars, clientVars
  <2>. QED  BY <1>1, <2>1, HangupReplies, CountsRest
<1>3. CASE OtherOpens(c)
  <2>1. /\ UNCHANGED <<back, asked, answered, caller, using, local, total>>
        /\ pc[c] = "none" /\ pc' = [pc EXCEPT ![c] = "read"] /\ owner' = [owner EXCEPT ![c] = Other]
    BY <1>3 DEF OtherOpens, Open, clientVars
  <2>2. owner[c] = None
    BY <1>1, <2>1 DEF StreamInv, Fresh
  <2>3. \A d \in Conns : \A t \in Threads : owner'[d] = t <=> owner[d] = t
    BY <1>1, <2>1, <2>2 DEF TypeOK
  <2>4. \A d \in Conns : pc'[d] = "none" => pc[d] = "none"
    BY <1>1, <2>1 DEF TypeOK
  <2>5. \A d \in Conns : Won(d) => Won(d)'
    BY <2>1 DEF Won
  <2>6. \A d \in Conns : ReplyInv(d)'
    BY <2>1, <2>3, <2>4, <2>5, ReplyRests DEF CountInv
  <2>. QED  BY <1>1, <2>1, <2>3, <2>5, <2>6, CountsRest
<1>4. ASSUME NEW r \in Requests, OtherAsks(c, r) PROVE CountInv'
  <2>1. /\ UNCHANGED <<pc, back, owner, answered, caller, using, local, total>>
        /\ owner[c] = Other /\ asked' = [asked EXCEPT ![c] = Append(asked[c], r)]
    BY <1>4 DEF OtherAsks, Ask, coroutineVars, clientVars
  <2>2. \A d \in Conns : d # c => asked'[d] = asked[d]
    BY <1>1, <2>1 DEF Functions, PerConn
  <2>3. \A d \in Conns : Won(d) => Won(d)'
    BY <2>1 DEF Won
  <2>4. ReplyInv(c)'
    BY <1>1, <2>1 DEF CountInv, ReplyInv
  <2>5. \A d \in Conns : d # c => ReplyInv(d)'
    BY <2>1, <2>2, <2>3, ReplyRests DEF CountInv
  <2>6. \A d \in Conns : ReplyInv(d)'
    BY <2>4, <2>5
  <2>. QED  BY <1>1, <2>1, <2>3, <2>6, CountsRest
<1>. QED  BY <1>2, <1>3, <1>4

\* A step of one thread of the client program.
LEMMA ThreadCounts ==
    ASSUME TypeOK, CountInv, NEW t \in Callers, caller[t] \notin {"none", "done"}, NEW x, x # "done",
           caller' = [caller EXCEPT ![t] = x], t \in Threads => ThreadInv(t)', total' = total,
           \A u \in Threads : u # t => using'[u] = using[u] /\ local'[u] = local[u],
           \A d \in Conns : \A u \in Threads : u # t => (owner'[d] = u <=> owner[d] = u),
           \A d \in Conns : Won(d) => Won(d)',
           \A d \in Conns : ReplyInv(d)'
    PROVE  CountInv'
<1>1. caller'[t] = x /\ \A u \in Callers : u # t => caller'[u] = caller[u]
  BY DEF TypeOK
<1>2. Threads \subseteq Callers /\ Main \in Callers /\ Main \notin Threads
  BY ClientsAssumption DEF Callers
<1>3. TotalInv /\ total.merged = {u \in Threads : caller[u] = "done"}
  BY DEF CountInv, TotalInv
<1>4. ASSUME NEW u \in Threads PROVE ThreadInv(u)'
  <2>1. CASE u # t
    BY <1>1, <1>2, <2>1, ThreadRests DEF CountInv
  <2>. QED  BY <2>1
<1>5. \A u \in Threads : caller'[u] = "done" <=> caller[u] = "done"
  BY <1>1, <1>2
<1>6. caller'[Main] # "done" => \A u \in Threads : caller'[u] = "none"
  <2>. SUFFICES ASSUME caller'[Main] # "done", NEW u \in Threads PROVE caller'[u] = "none"
    OBVIOUS
  <2>1. caller[Main] # "done"
    BY <1>1, <1>2
  <2>2. \A v \in Threads : caller[v] = "none"
    BY <1>3, <2>1 DEF TotalInv
  <2>3. u # t
    BY <2>2
  <2>. QED  BY <1>1, <1>2, <2>2, <2>3
<1>7. \A d \in Conns : \A u \in total.merged : owner'[d] = u <=> owner[d] = u
  BY <1>3
<1>8. TotalInv'
  BY <1>3, <1>5, <1>6, <1>7, TotalRests
<1>. QED  BY <1>4, <1>8 DEF CountInv

LEMMA ConnectCounts ==
    ASSUME FramingInv, CountInv, NEW c \in Conns, NEW t \in Callers, Connect(t, c)
    PROVE  CountInv'
<1>1. /\ caller[t] = "connect" /\ caller' = [caller EXCEPT ![t] = "send"]
      /\ using' = [using EXCEPT ![t] = c] /\ local' = local /\ total' = total
      /\ pc[c] = "none" /\ pc' = [pc EXCEPT ![c] = "read"] /\ owner' = [owner EXCEPT ![c] = t]
      /\ UNCHANGED <<back, asked, answered>>
  BY DEF Connect, Open
<1>2. TypeOK /\ StreamInv(c) /\ None \notin Callers
  BY CallersAre DEF FramingInv
<1>3. owner[c] = None /\ asked[c] = <<>>
  BY <1>1, <1>2 DEF StreamInv, Fresh
<1>4. /\ caller'[t] = "send" /\ using'[t] = c /\ owner'[c] = t
      /\ \A u \in Callers : u # t => caller'[u] = caller[u] /\ using'[u] = using[u]
      /\ \A d \in Conns : d # c => owner'[d] = owner[d] /\ pc'[d] = pc[d]
  BY <1>1, <1>2 DEF TypeOK
<1>5. Threads \subseteq Callers
  BY DEF Callers
<1>6. \A d \in Conns : Won(d) => Won(d)'
  BY <1>1 DEF Won
<1>7. \A d \in Conns : \A u \in Threads : u # t => (owner'[d] = u <=> owner[d] = u)
  BY <1>2, <1>3, <1>4, <1>5
<1>8. ASSUME t \in Threads PROVE ThreadInv(t)'
  <2>1. Counted(t)' = Counted(t)
    BY <1>1, <1>2, <1>3, <1>4 DEF Counted, OwnedBy, Current, Connected
  <2>2. {d \in Counted(t) : Won(d)}' = {d \in Counted(t) : Won(d)}
    BY <1>1, <2>1 DEF Won
  <2>3. ThreadInv(t)
    BY <1>8 DEF CountInv
  <2>. QED  BY <1>1, <1>4, <2>1, <2>2, <2>3 DEF ThreadInv
<1>9. ReplyInv(c)'
  <2>1. ReplyInv(c)
    BY DEF CountInv
  <2>2. back'[c] = <<>> /\ asked'[c] = <<>>
    BY <1>1, <1>3, <2>1 DEF ReplyInv
  <2>3. <<>> \in Seq({"header", "items", "error", "status", "stats"}) /\ Len(<<>>) = 0
    OBVIOUS
  <2>. QED  BY <2>2, <2>3 DEF ReplyInv
<1>10. \A d \in Conns : d # c => ReplyInv(d)'
  BY <1>1, <1>4, <1>5, <1>6, ReplyRests DEF CountInv
<1>11. \A d \in Conns : ReplyInv(d)'
  BY <1>9, <1>10
<1>12. /\ \A u \in Threads : u # t => using'[u] = using[u] /\ local'[u] = local[u]
       /\ caller[t] \notin {"none", "done"} /\ caller' = [caller EXCEPT ![t] = "send"]
       /\ total' = total /\ "send" # "done"
  BY <1>1, <1>4, <1>5
<1>. QED  BY <1>2, <1>6, <1>7, <1>8, <1>11, <1>12, ThreadCounts

LEMMA SendRequestCounts ==
    ASSUME FramingInv, CountInv, NEW t \in Callers, SendRequest(t)
    PROVE  CountInv'
<1>1. PICK c, r :
          /\ c = using[t] /\ caller[t] = "send" /\ caller' = [caller EXCEPT ![t] = "recv"]
          /\ asked' = asked \/ asked' = [asked EXCEPT ![c] = Append(asked[c], r)]
          /\ UNCHANGED <<pc, back, owner, answered, using, local, total>>
  BY DEF SendRequest, Ask, coroutineVars
<1>2. TypeOK /\ Functions /\ ClientInv
  BY DEF FramingInv
<1>3. c \in Conns /\ owner[c] = t
  BY <1>1, <1>2 DEF ClientInv
<1>4. caller'[t] = "recv" /\ \A u \in Callers : u # t => caller'[u] = caller[u]
  BY <1>1, <1>2 DEF TypeOK
<1>5. \A d \in Conns : d # c => asked'[d] = asked[d]
  BY <1>1, <1>2, <1>3 DEF Functions, PerConn
<1>6. Threads \subseteq Callers
  BY DEF Callers
<1>7. \A d \in Conns : Won(d) => Won(d)'
  BY <1>1 DEF Won
<1>8. ASSUME t \in Threads PROVE ThreadInv(t)'
  <2>1. Counted(t)' = Counted(t)
    BY <1>1, <1>4 DEF Counted, OwnedBy, Current, Connected
  <2>2. {d \in Counted(t) : Won(d)}' = {d \in Counted(t) : Won(d)}
    BY <1>1, <2>1 DEF Won
  <2>3. ThreadInv(t)
    BY <1>8 DEF CountInv
  <2>. QED  BY <1>1, <1>4, <2>1, <2>2, <2>3 DEF ThreadInv
<1>9. ReplyInv(c)'
  <2>1. ReplyInv(c)
    BY <1>3 DEF CountInv
  <2>2. \A u \in Threads : ~ (caller'[u] = "send" /\ using'[u] = c)
    BY <1>1, <1>2, <1>3, <1>4, <1>6 DEF ClientInv
  <2>3. owner[c] \in Threads => Len(asked'[c]) <= 1
    <3>. SUFFICES ASSUME t \in Threads PROVE Len(asked'[c]) <= 1
      BY <1>3
    <3>1. asked[c] = <<>>
      BY <1>1, <1>3, <2>1 DEF ReplyInv
    <3>2. asked'[c] = <<>> \/ asked'[c] = Append(<<>>, r)
      BY <1>1, <1>2, <1>3, <3>1 DEF Functions, PerConn
    <3>3. \A e : e = <<>> \/ e = Append(<<>>, r) => Len(e) <= 1
      <4>1. Append(<<>>, r) = <<r>> /\ Len(<<r>>) = 1 /\ Len(<<>>) = 0
        OBVIOUS
      <4>2. \A e : e = <<>> \/ e = Append(<<>>, r) => Len(e) = 0 \/ Len(e) = 1
        BY <4>1, Zenon
      <4>3. \A l : l = 0 \/ l = 1 => l <= 1
        OBVIOUS
      <4>. QED  BY <4>2, <4>3, Zenon
    <3>. QED  BY <3>2, <3>3, Zenon
  <2>4. back'[c] = back[c] /\ pc'[c] = pc[c] /\ owner'[c] = owner[c]
    BY <1>1
  <2>. QED  BY <1>3, <1>7, <2>1, <2>2, <2>3, <2>4 DEF ReplyInv
<1>10. \A d \in Conns : d # c => ReplyInv(d)'
  BY <1>1, <1>4, <1>5, <1>6, <1>7, ReplyRests DEF CountInv
<1>11. \A d \in Conns : ReplyInv(d)'
  BY <1>9, <1>10
<1>. QED  BY <1>1, <1>2, <1>4, <1>6, <1>7, <1>8, <1>11, ThreadCounts

\* What Count leaves of a thread's statistics.
LEMMA CountIs ==
    ASSUME TypeOK, NEW t \in Callers, NEW connected \in BOOLEAN, NEW success \in BOOLEAN,
           Count(t, connected, success)
    PROVE  \E x \in {"end", "connect"} :
              /\ caller' = [caller EXCEPT ![t] = x] /\ total' = total
              /\ \A u \in Callers : u # t => local'[u] = local[u]
              /\ local'[t].totalRequests = local[t].totalRequests + (IF connected THEN 1 ELSE 0)
              /\ local'[t].successful = local[t].successful + (IF success THEN 1 ELSE 0)
              /\ local'[t].failed = local[t].failed + (IF success THEN 0 ELSE 1)
              /\ t \in Threads =>
                    (x = "end" <=> local'[t].successful + local'[t].failed = NumRequests)
<1>. DEFINE counted == [totalRequests |-> local[t].totalRequests + (IF connected THEN 1 ELSE 0),
                        successful |-> local[t].successful + (IF success THEN 1 ELSE 0),
                        failed |-> local[t].failed + (IF success THEN 0 ELSE 1)]
            requests == IF t = Main THEN 1 ELSE NumRequests
            next == IF counted.successful + counted.failed = requests THEN "end" ELSE "connect"
<1>1. /\ local' = [local EXCEPT ![t] = counted]
      /\ caller' = [caller EXCEPT ![t] = next] /\ total' = total
  BY DEF Count
<1>2. t \in Threads => requests = NumRequests
  BY ClientsAssumption
<1>3. next \in {"end", "connect"} /\ (next = "end" <=> counted.successful + counted.failed = requests)
  OBVIOUS
<1>4. local'[t] = counted /\ \A u \in Callers : u # t => local'[u] = local[u]
  <2>. HIDE DEF counted
  <2>. QED  BY <1>1 DEF TypeOK
<1>5. /\ counted.totalRequests = local[t].totalRequests + (IF connected THEN 1 ELSE 0)
      /\ counted.successful = local[t].successful + (IF success THEN 1 ELSE 0)
      /\ counted.failed = local[t].failed + (IF success THEN 0 ELSE 1)
  OBVIOUS
<1>. HIDE DEF counted, next, requests
<1>6. t \in Threads => (next = "end" <=> local'[t].successful + local'[t].failed = NumRequests)
  BY <1>2, <1>3, <1>4
<1>. QED  BY <1>1, <1>3, <1>4, <1>5, <1>6

LEMMA ConnectFailsCounts ==
    ASSUME FramingInv, CountInv, NEW t \in Callers, ConnectFails(t)
    PROVE  CountInv'
<1>1. /\ caller[t] = "connect" /\ Count(t, FALSE, FALSE)
      /\ UNCHANGED <<pc, back, owner, asked, answered, using>>
  BY DEF ConnectFails, coroutineVars, netVars
<1>2. TypeOK
  BY DEF FramingInv
<1>3. PICK x \in {"end", "connect"} :
              /\ caller' = [caller EXCEPT ![t] = x] /\ total' = total
              /\ \A u \in Callers : u # t => local'[u] = local[u]
              /\ local'[t].totalRequests = local[t].totalRequests + 0
              /\ local'[t].successful = local[t].successful + 0
              /\ local'[t].failed = local[t].failed + 1
              /\ t \in Threads =>
                    (x = "end" <=> local'[t].successful + local'[t].failed = NumRequests)
  BY <1>1, <1>2, CountIs
<1>4. caller'[t] = x /\ \A u \in Callers : u # t => caller'[u] = caller[u]
  BY <1>2, <1>3 DEF TypeOK
<1>5. Threads \subseteq Callers
  BY DEF Callers
<1>6. \A d \in Conns : Won(d) => Won(d)'
  BY <1>1 DEF Won
<1>7. ASSUME t \in Threads PROVE ThreadInv(t)'
  <2>1. Counted(t)' = Counted(t)
    BY <1>1, <1>4 DEF Counted, OwnedBy, Current, Connected
  <2>2. {d \in Counted(t) : Won(d)}' = {d \in Counted(t) : Won(d)}
    BY <1>1, <2>1 DEF Won
  <2>3. ThreadInv(t)
    BY <1>7 DEF CountInv
  <2>4. /\ local[t].successful \in Nat /\ local[t].failed \in Nat /\ local[t].totalRequests \in Nat
        /\ local[t].successful + local[t].failed < NumRequests /\ NumRequests \in Nat
    BY <1>1, <1>2, <1>5, <1>7, <2>3, NumRequestsAssumption DEF ThreadInv, TypeOK, Stats
  <2>5. /\ local'[t].totalRequests = local[t].totalRequests
        /\ local'[t].successful = local[t].successful
        /\ local'[t].successful + local'[t].failed <= NumRequests
    BY <1>3, <2>4
  <2>6. /\ x = "end" => local'[t].successful + local'[t].failed = NumRequests
        /\ x = "connect" => local'[t].successful + local'[t].failed < NumRequests
    <3>1. local'[t].successful + local'[t].failed \in Nat
      BY <1>3, <2>4
    <3>. QED  BY <1>3, <1>7, <2>4, <2>5, <3>1
  <2>. QED  BY <1>3, <1>4, <2>1, <2>2, <2>3, <2>5, <2>6 DEF ThreadInv
<1>8. \A d \in Conns : ReplyInv(d)'
  <2>1. \A u \in Threads : caller'[u] = "send" => caller[u] = "send"
    BY <1>3, <1>4, <1>5
  <2>. QED  BY <1>1, <1>6, <2>1, ReplyRests DEF CountInv
<1>9. /\ \A u \in Threads : u # t => using'[u] = using[u] /\ local'[u] = local[u]
      /\ caller[t] \notin {"none", "done"} /\ x # "done"
  BY <1>1, <1>3, <1>5
<1>10. \A d \in Conns : \A u \in Threads : u # t => (owner'[d] = u <=> owner[d] = u)
  BY <1>1
<1>. QED  BY <1>2, <1>3, <1>6, <1>7, <1>8, <1>9, <1>10, ThreadCounts

\* An answer that is looked for and found was sent on the connection.
LEMMA ReceiveIs ==
    ASSUME FramingInv, CountInv, NEW t \in Callers, Receive(t)
    PROVE  \E success \in BOOLEAN :
              Count(t, TRUE, success) /\ (success /\ t \in Threads => Won(using[t]))
<1>1. /\ caller[t] = "recv"
      /\ \/ \E n \in 1 .. Len(back[using[t]]) :
               Count(t, TRUE, (IF t = Main THEN "status" ELSE "items")
                                    \in ToSet(SubSeq(back[using[t]], 1, n)))
         \/ Count(t, TRUE, FALSE)
  BY DEF Receive
<1>2. CASE Count(t, TRUE, FALSE)
  BY <1>2
<1>3. ASSUME NEW n \in 1 .. Len(back[using[t]]),
             Count(t, TRUE, (IF t = Main THEN "status" ELSE "items")
                                \in ToSet(SubSeq(back[using[t]], 1, n)))
      PROVE  \E success \in BOOLEAN :
                Count(t, TRUE, success) /\ (success /\ t \in Threads => Won(using[t]))
  <2>1. using[t] \in Conns /\ owner[using[t]] = t
    BY <1>1 DEF FramingInv, ClientInv
  <2>2. PICK X, b : X = {"header", "items", "error", "status", "stats"} /\ b = back[using[t]]
    OBVIOUS
  <2>3. b \in Seq(X) /\ n \in 1 .. Len(b)
    BY <2>1, <2>2 DEF CountInv, ReplyInv
  <2>4. PICK s : s = SubSeq(b, 1, n)
    OBVIOUS
  <2>5. \A i \in 1 .. Len(s) : i \in 1 .. Len(b) /\ s[i] = b[i]
    BY ONLY <2>3, <2>4
  <2>. DEFINE success == (IF t = Main THEN "status" ELSE "items") \in ToSet(s)
  <2>6. s = SubSeq(back[using[t]], 1, n)
    BY <2>2, <2>4
  <2>7. success \in BOOLEAN /\ Count(t, TRUE, success)
    <3>1. success \in BOOLEAN
      OBVIOUS
    <3>. QED  BY <1>3, <2>6, <3>1, Zenon
  <2>8. ASSUME success, t \in Threads PROVE Won(using[t])
    <3>1. "items" \in ToSet(s)
      BY <2>8, ClientsAssumption
    <3>2. PICK i \in 1 .. Len(s) : s[i] = "items"
      BY <3>1 DEF ToSet
    <3>3. i \in 1 .. Len(b) /\ b[i] = "items"
      BY <2>5, <3>2
    <3>. QED  BY <2>1, <2>2, <2>8, <3>3 DEF CountInv, ReplyInv
  <2>. HIDE DEF success
  <2>. QED  BY <2>7, <2>8
<1>. QED  BY <1>1, <1>2, <1>3

LEMMA ReceiveCounts ==
    ASSUME FramingInv, CountInv, NEW t \in Callers, Receive(t)
    PROVE  CountInv'
<1>1. PICK c : c = using[t] /\ caller[t] = "recv" /\ Hangup(c)
               /\ UNCHANGED <<pc, asked, owner, answered, using>>
  BY DEF Receive, coroutineVars
<1>2. TypeOK /\ ClientInv
  BY DEF FramingInv
<1>3. c \in Conns /\ owner[c] = t
  BY <1>1, <1>2 DEF ClientInv
<1>4. PICK success \in BOOLEAN : Count(t, TRUE, success) /\ (success /\ t \in Threads => Won(c))
  BY <1>1, ReceiveIs
<1>5. PICK x \in {"end", "connect"} :
              /\ caller' = [caller EXCEPT ![t] = x] /\ total' = total
              /\ \A u \in Callers : u # t => local'[u] = local[u]
              /\ local'[t].totalRequests = local[t].totalRequests + 1
              /\ local'[t].successful = local[t].successful + (IF success THEN 1 ELSE 0)
              /\ local'[t].failed = local[t].failed + (IF success THEN 0 ELSE 1)
              /\ t \in Threads =>
                    (x = "end" <=> local'[t].successful + local'[t].failed = NumRequests)
  BY <1>2, <1>4, CountIs
<1>6. caller'[t] = x /\ \A u \in Callers : u # t => caller'[u] = caller[u]
  BY <1>2, <1>5 DEF TypeOK
<1>7. Threads \subseteq Callers
  BY DEF Callers
<1>8. \A u \in Threads : caller'[u] = "send" => caller[u] = "send"
  BY <1>5, <1>6, <1>7
<1>9. (\A d \in Conns : ReplyInv(d)') /\ \A d \in Conns : Won(d) => Won(d)'
  BY <1>1, <1>3, <1>8, HangupReplies
<1>10. ASSUME t \in Threads PROVE ThreadInv(t)'
  <2>1. ThreadInv(t)
    BY <1>10 DEF CountInv
  <2>2. /\ local[t].successful \in Nat /\ local[t].failed \in Nat /\ local[t].totalRequests \in Nat
        /\ local[t].successful + local[t].failed < NumRequests /\ NumRequests \in Nat
    BY <1>1, <1>2, <1>7, <1>10, <2>1, NumRequestsAssumption DEF ThreadInv, TypeOK, Stats
  <2>3. Counted(t) = OwnedBy({t}) \ {c} /\ Counted(t)' = OwnedBy({t}) /\ c \in OwnedBy({t})
    BY <1>1, <1>3, <1>5, <1>6 DEF Counted, OwnedBy, Current, Connected
  <2>4. PICK A, B \in SUBSET Conns :
            A = Counted(t) /\ B = Counted(t)' /\ B = A \union {c} /\ c \notin A
    <3>1. Counted(t)' = Counted(t) \union {c} /\ c \notin Counted(t)
      BY <2>3
    <3>2. Counted(t) \in SUBSET Conns /\ Counted(t)' \in SUBSET Conns
      BY <2>3, CountedIs
    <3>. QED  BY <3>1, <3>2, Zenon
  <2>5. Cardinality(B) = Cardinality(A) + 1 /\ Cardinality(A) \in Nat
    <3>1. IsFiniteSet(A) /\ Cardinality(A) \in Nat
      BY Sizes
    <3>. QED  BY <2>4, <3>1, FS_AddElement
  <2>6. PICK V, W \in SUBSET Conns : V = {d \in A : Won(d)} /\ W = {d \in B : Won(d)}
    <3>1. {d \in A : Won(d)} \in SUBSET Conns /\ {d \in B : Won(d)} \in SUBSET Conns
      OBVIOUS
    <3>. QED  BY <3>1, Zenon
  <2>7. /\ V \in SUBSET W /\ c \notin V
        /\ Won(c) => W = V \union {c}
    BY <2>4, <2>6
  <2>8. /\ Cardinality(V) \in Nat /\ Cardinality(W) \in Nat /\ Cardinality(V) <= Cardinality(W)
        /\ Won(c) => Cardinality(W) = Cardinality(V) + 1
    <3>1. IsFiniteSet(V) /\ Cardinality(V) \in Nat /\ Cardinality(W) \in Nat
          /\ Cardinality(V) <= Cardinality(W)
      BY <2>7, Sizes
    <3>2. ASSUME Won(c) PROVE Cardinality(W) = Cardinality(V) + 1
      BY <2>7, <3>1, <3>2, FS_AddElement
    <3>. QED  BY <3>1, <3>2
  <2>9. {d \in Counted(t) : Won(d)}' = W
    BY <1>1, <2>4, <2>6 DEF Won
  <2>10. /\ local[t].totalRequests = Cardinality(A) /\ local[t].successful <= Cardinality(V)
    BY <2>1, <2>4, <2>6 DEF ThreadInv
  <2>11. /\ local'[t].totalRequests = Cardinality(B)
         /\ local'[t].successful <= Cardinality(W)
    <3>1. CASE success
      BY <1>4, <1>5, <1>10, <2>2, <2>5, <2>8, <2>10, <3>1
    <3>2. CASE ~ success
      BY <1>5, <2>2, <2>5, <2>8, <2>10, <3>2
    <3>. QED  BY <3>1, <3>2
  <2>12. /\ x = "end" => local'[t].successful + local'[t].failed = NumRequests
         /\ x = "connect" => local'[t].successful + local'[t].failed < NumRequests
    <3>1. local'[t].successful + local'[t].failed = local[t].successful + local[t].failed + 1
      BY <1>5, <2>2
    <3>. QED  BY <1>5, <1>10, <2>2, <3>1
  <2>13. local'[t].totalRequests = Cardinality(Counted(t)')
         /\ local'[t].successful <= Cardinality({d \in Counted(t) : Won(d)}')
    BY <2>4, <2>9, <2>11
  <2>. QED  BY <1>5, <1>6, <2>12, <2>13 DEF ThreadInv
<1>11. /\ \A u \in Threads : u # t => using'[u] = using[u] /\ local'[u] = local[u]
       /\ caller[t] \notin {"none", "done"} /\ x # "done"
  BY <1>1, <1>5, <1>7
<1>12. \A d \in Conns : \A u \in Threads : u # t => (owner'[d] = u <=> owner[d] = u)
  BY <1>1
<1>. QED  BY <1>2, <1>5, <1>9, <1>10, <1>11, <1>12, ThreadCounts

LEMMA MergeCounts ==
    ASSUME FramingInv, CountInv, NEW t \in Callers, Merge(t)
    PROVE  CountInv'
<1>1. /\ t \in Threads /\ caller[t] = "end" /\ caller' = [caller EXCEPT ![t] = "done"]
      /\ total' = [stats |-> [f \in DOMAIN NoStats |-> total.stats[f] + local[t][f]],
                   merged |-> total.merged \union {t}]
      /\ UNCHANGED <<pc, back, owner, asked, answered, using, local>>
  BY DEF Merge, coroutineVars, netVars
<1>2. TypeOK
  BY DEF FramingInv
<1>3. TotalInv /\ total.merged = {u \in Threads : caller[u] = "done"}
  BY DEF CountInv, TotalInv
<1>4. caller'[t] = "done" /\ \A u \in Callers : u # t => caller'[u] = caller[u]
  BY <1>1, <1>2 DEF TypeOK
<1>5. Threads \subseteq Callers /\ Main \in Callers /\ Main # t
  BY <1>1, ClientsAssumption DEF Callers
<1>6. \A d \in Conns : Won(d) => Won(d)'
  BY <1>1 DEF Won
<1>7. \A d \in Conns : ReplyInv(d)'
  <2>1. \A u \in Threads : caller'[u] = "send" => caller[u] = "send"
    BY <1>4, <1>5
  <2>. QED  BY <1>1, <1>6, <2>1, ReplyRests DEF CountInv
<1>8. ThreadInv(t) /\ Counted(t) = OwnedBy({t})
  BY <1>1 DEF CountInv, Counted, Current, Connected
<1>9. ASSUME NEW u \in Threads PROVE ThreadInv(u)'
  <2>1. CASE u # t
    BY <1>1, <1>2, <1>4, <1>5, <1>6, <2>1, ThreadRests DEF CountInv
  <2>2. CASE u = t
    <3>1. Counted(t)' = Counted(t)
      BY <1>1, <1>4 DEF Counted, OwnedBy, Current, Connected
    <3>2. {d \in Counted(t) : Won(d)}' = {d \in Counted(t) : Won(d)}
      BY <1>1, <3>1 DEF Won
    <3>. QED  BY <1>1, <1>4, <1>8, <2>2, <3>1, <3>2 DEF ThreadInv
  <2>. QED  BY <2>1, <2>2
<1>10. PICK M : M = total.merged
  OBVIOUS
<1>11. t \notin M /\ total'.merged = M \union {t} /\ IsFiniteSet(M)
  <2>1. M \subseteq Threads
    BY <1>3, <1>10
  <2>2. IsFiniteSet(M)
    BY <2>1, FS_Subset, ClientsAssumption
  <2>. QED  BY <1>1, <1>3, <1>10, <2>2
<1>12. Cardinality(M \union {t}) = Cardinality(M) + 1 /\ Cardinality(M) \in Nat
  BY <1>11, FS_AddElement, FS_CardinalityType
<1>13. /\ Cardinality(OwnedBy(M \union {t})) = Cardinality(OwnedBy(M)) + Cardinality(OwnedBy({t}))
       /\ Cardinality(WonBy(M \union {t})) = Cardinality(WonBy(M)) + Cardinality(WonBy({t}))
       /\ Cardinality(OwnedBy(M)) \in Nat /\ Cardinality(OwnedBy({t})) \in Nat
       /\ Cardinality(WonBy(M)) \in Nat /\ Cardinality(WonBy({t})) \in Nat
  <2>1. ASSUME NEW A \in SUBSET Conns, NEW B \in SUBSET Conns, A \intersect B = {}
        PROVE  Cardinality(A \union B) = Cardinality(A) + Cardinality(B)
    <3>1. IsFiniteSet(A) /\ IsFiniteSet(B) /\ Cardinality(A) \in Nat /\ Cardinality(B) \in Nat
      BY Sizes
    <3>2. Cardinality(A \union B) = Cardinality(A) + Cardinality(B) - Cardinality(A \intersect B)
      BY <3>1, FS_Union
    <3>3. Cardinality(A \intersect B) = 0
      BY <2>1, FS_EmptySet
    <3>. QED  BY <3>1, <3>2, <3>3
  <2>2. /\ OwnedBy(M) \in SUBSET Conns /\ OwnedBy({t}) \in SUBSET Conns
        /\ OwnedBy(M) \intersect OwnedBy({t}) = {}
        /\ OwnedBy(M \union {t}) = OwnedBy(M) \union OwnedBy({t})
    BY <1>11 DEF OwnedBy
  <2>3. /\ WonBy(M) \in SUBSET Conns /\ WonBy({t}) \in SUBSET Conns
        /\ WonBy(M) \intersect WonBy({t}) = {}
        /\ WonBy(M \union {t}) = WonBy(M) \union WonBy({t})
    BY <2>2 DEF WonBy
  <2>4. /\ Cardinality(OwnedBy(M)) \in Nat /\ Cardinality(OwnedBy({t})) \in Nat
        /\ Cardinality(WonBy(M)) \in Nat /\ Cardinality(WonBy({t})) \in Nat
    BY <2>2, <2>3, Sizes
  <2>. QED  BY <2>1, <2>2, <2>3, <2>4
<1>14. OwnedBy(total.merged)' = OwnedBy(M \union {t}) /\ WonBy(total.merged)' = WonBy(M \union {t})
  <2>1. OwnedBy(total.merged)' = OwnedBy(M \union {t})
    BY <1>1, <1>11 DEF OwnedBy
  <2>. QED  BY <1>1, <2>1 DEF WonBy, Won
<1>15. /\ total'.stats.totalRequests = total.stats.totalRequests + local[t].totalRequests
       /\ total'.stats.successful = total.stats.successful + local[t].successful
       /\ total'.stats.failed = total.stats.failed + local[t].failed
  <2>1. DOMAIN NoStats = {"totalRequests", "successful", "failed"}
    BY DEF NoStats
  <2>2. total'.stats = [f \in {"totalRequests", "successful", "failed"} |-> total.stats[f] + local[t][f]]
    BY <1>1, <2>1
  <2>. QED  BY <2>2
<1>16. /\ local[t].totalRequests \in Nat /\ local[t].successful \in Nat /\ local[t].failed \in Nat
       /\ total.stats.totalRequests \in Nat /\ total.stats.successful \in Nat
       /\ total.stats.failed \in Nat
  BY <1>2 DEF TypeOK, Stats
<1>17. /\ local[t].totalRequests = Cardinality(OwnedBy({t}))
       /\ local[t].successful <= Cardinality(WonBy({t}))
       /\ local[t].successful + local[t].failed = NumRequests
  <2>1. WonBy({t}) = {d \in Counted(t) : Won(d)}
    BY <1>8 DEF WonBy
  <2>. QED  BY <1>1, <1>8, <2>1 DEF ThreadInv
<1>18. /\ total.stats.totalRequests = Cardinality(OwnedBy(M))
       /\ total.stats.successful <= Cardinality(WonBy(M))
       /\ total.stats.successful + total.stats.failed = NumRequests * Cardinality(M)
  BY <1>3, <1>10 DEF TotalInv
<1>19. total'.stats.successful + total'.stats.failed = NumRequests * Cardinality(M \union {t})
  <2>1. PICK n \in Nat, k \in Nat : n = NumRequests /\ k = Cardinality(M)
    <3>1. NumRequests \in Nat
      BY NumRequestsAssumption
    <3>. QED  BY <1>12, <3>1, Zenon
  <2>2. n * (k + 1) = n * k + n
    OBVIOUS
  <2>3. n * k \in Nat
    OBVIOUS
  <2>4. PICK p \in Nat : p = n * k
    BY <2>3
  <2>5. total'.stats.successful + total'.stats.failed = p + n
    BY <1>15, <1>16, <1>17, <1>18, <2>1, <2>4
  <2>. QED  BY <1>12, <2>1, <2>2, <2>4, <2>5
<1>20. /\ total'.stats.totalRequests = Cardinality(OwnedBy(total.merged)')
       /\ total'.stats.successful <= Cardinality(WonBy(total.merged)')
  <2>1. /\ total'.stats.totalRequests = Cardinality(OwnedBy(M \union {t}))
        /\ total'.stats.successful <= Cardinality(WonBy(M \union {t}))
    BY <1>13, <1>15, <1>16, <1>17, <1>18
  <2>. QED  BY <1>14, <2>1
<1>21. total'.merged = {u \in Threads : caller'[u] = "done"}
  BY <1>1, <1>3, <1>4, <1>5, <1>10, <1>11
<1>22. caller'[Main] # "done" => \A u \in Threads : caller'[u] = "none"
  BY <1>1, <1>3, <1>4, <1>5 DEF TotalInv
<1>23. TotalInv'
  BY <1>11, <1>19, <1>20, <1>21, <1>22 DEF TotalInv
<1>. QED  BY <1>7, <1>9, <1>23 DEF CountInv

LEMMA StartThreadsCounts ==
    ASSUME FramingInv, CountInv, StartThreads
    PROVE  CountInv'
<1>1. /\ caller[Main] = "end"
      /\ caller' = [t \in Callers |->
                        IF t = Main THEN "done"
                        ELSE IF local[Main].successful = 0 THEN "none"
                        ELSE IF NumRequests = 0 THEN "end" ELSE "connect"]
      /\ UNCHANGED <<pc, back, owner, asked, answered, using, local, total>>
  BY DEF StartThreads, coroutineVars, netVars
<1>2. TypeOK
  BY DEF FramingInv
<1>3. /\ Main \in Callers /\ Main \notin Threads /\ Threads \subseteq Callers
      /\ NumRequests \in Nat
  BY ClientsAssumption, NumRequestsAssumption DEF Callers
<1>4. TotalInv /\ \A t \in Threads : caller[t] = "none"
  BY <1>1 DEF CountInv, TotalInv
<1>5. /\ caller'[Main] = "done"
      /\ \A t \in Threads : /\ caller'[t] \in {"none", "end", "connect"}
                            /\ caller'[t] = "end" => NumRequests = 0
                            /\ caller'[t] = "connect" => NumRequests # 0
  BY <1>1, <1>3
<1>6. \A d \in Conns : Won(d) => Won(d)'
  BY <1>1 DEF Won
<1>7. \A d \in Conns : ReplyInv(d)'
  <2>1. \A t \in Threads : caller'[t] # "send"
    BY <1>5
  <2>. QED  BY <1>1, <1>6, <2>1, ReplyRests DEF CountInv
<1>8. ASSUME NEW t \in Threads PROVE ThreadInv(t)'
  <2>1. ThreadInv(t) /\ local[t] = NoStats
    BY <1>4 DEF CountInv, ThreadInv
  <2>2. Counted(t)' = Counted(t)
    BY <1>1, <1>4, <1>5 DEF Counted, OwnedBy, Current, Connected
  <2>3. {d \in Counted(t) : Won(d)}' = {d \in Counted(t) : Won(d)}
    BY <1>1, <2>2 DEF Won
  <2>4. local[t].successful + local[t].failed = 0
    BY <2>1 DEF NoStats
  <2>5. /\ caller'[t] = "end" => local[t].successful + local[t].failed = NumRequests
        /\ caller'[t] = "connect" => local[t].successful + local[t].failed < NumRequests
    BY <1>3, <1>5, <2>4
  <2>6. local'[t] = local[t]
    BY <1>1
  <2>7. caller'[t] \in {"none", "end", "connect"}
    BY <1>5
  <2>. QED  BY <2>1, <2>2, <2>3, <2>5, <2>6, <2>7 DEF ThreadInv
<1>9. TotalInv'
  <2>1. \A t \in Threads : caller'[t] = "done" <=> caller[t] = "done"
    BY <1>4, <1>5
  <2>. QED  BY <1>1, <1>2, <1>4, <1>5, <1>6, <2>1, TotalRests
<1>. QED  BY <1>7, <1>8, <1>9 DEF CountInv

LEMMA CountsStart == Init => CountInv
<1>. SUFFICES ASSUME Init PROVE CountInv
  OBVIOUS
<1>1. /\ \A c \in Conns : /\ back[c] = <<>> /\ owner[c] = None /\ answered[c] = <<>>
      /\ caller = [t \in Callers |-> IF t = Main THEN "connect" ELSE "none"]
      /\ local = [t \in Callers |-> NoStats]
      /\ total = [stats |-> NoStats, merged |-> {}]
  BY DEF Init
<1>2. /\ Main \in Callers /\ Main \notin Threads /\ Threads \subseteq Callers
      /\ NumRequests \in Nat /\ None \notin Threads
  BY ClientsAssumption, NumRequestsAssumption DEF Callers
<1>3. /\ caller[Main] = "connect"
      /\ \A t \in Threads : caller[t] = "none" /\ local[t] = NoStats
  BY <1>1, <1>2
<1>4. ASSUME NEW t \in Threads PROVE ThreadInv(t)
  <2>1. Counted(t) = {} /\ {c \in Counted(t) : Won(c)} = {}
    BY <1>1, <1>2 DEF Counted, OwnedBy
  <2>2. Cardinality({}) = 0
    BY FS_EmptySet
  <2>3. NoStats.totalRequests = 0 /\ NoStats.successful = 0
    BY DEF NoStats
  <2>. QED  BY <1>3, <2>1, <2>2, <2>3 DEF ThreadInv
<1>5. ASSUME NEW c \in Conns PROVE ReplyInv(c)
  <2>1. <<>> \in Seq({"header", "items", "error", "status", "stats"})
    OBVIOUS
  <2>. QED  BY <1>1, <1>2, <2>1 DEF ReplyInv
<1>6. TotalInv
  <2>1. total.merged = {} /\ total.stats = NoStats
    BY <1>1
  <2>2. {t \in Threads : caller[t] = "done"} = {}
    BY <1>3
  <2>3. OwnedBy({}) = {} /\ WonBy({}) = {}
    BY DEF OwnedBy, WonBy
  <2>4. Cardinality({}) = 0
    BY FS_EmptySet
  <2>5. NoStats.totalRequests = 0 /\ NoStats.successful = 0 /\ NoStats.failed = 0
    BY DEF NoStats
  <2>6. NumRequests * 0 = 0
    BY <1>2
  <2>. QED  BY <1>3, <2>1, <2>2, <2>3, <2>4, <2>5, <2>6 DEF TotalInv
<1>. QED  BY <1>4, <1>5, <1>6 DEF CountInv

LEMMA CountsStep == FramingInv /\ CountInv /\ [Next]_vars => CountInv'
<1>. SUFFICES ASSUME FramingInv, CountInv, [Next]_vars PROVE CountInv'
  OBVIOUS
<1>1. ASSUME NEW c \in Conns, RecommendationServiceTask(c) \/ ReadTimesOut(c)
      PROVE  CountInv'
  BY <1>1, TaskCounts
<1>2. CASE Clients
  <2>1. ASSUME NEW c \in Conns,
               OtherOpens(c) \/ OtherLeaves(c) \/ \E r \in Requests : OtherAsks(c, r)
        PROVE  CountInv'
    BY <2>1, OtherCounts
  <2>2. ASSUME NEW t \in Callers, ClientThreadFunc(t) PROVE CountInv'
    BY <2>2, ConnectFailsCounts, SendRequestCounts, ReceiveCounts, MergeCounts, ConnectCounts
       DEF ClientThreadFunc
  <2>3. CASE StartThreads
    BY <2>3, StartThreadsCounts
  <2>. QED  BY <1>2, <2>1, <2>2, <2>3 DEF Clients
<1>3. CASE UNCHANGED vars
  <2>1. UNCHANGED <<netVars, answered, clientVars>> /\ pc' = pc
    BY <1>3 DEF vars, coroutineVars
  <2>. QED  BY <2>1, OthersCount DEF FramingInv
<1>. QED  BY <1>1, <1>2, <1>3 DEF Next

LEMMA CountsAreEnough == FramingInv /\ CountInv => CountsAddUp
<1>. SUFFICES ASSUME FramingInv, CountInv PROVE CountsAddUp
  OBVIOUS
<1>1. /\ total.stats.successful + total.stats.failed = NumRequests * Cardinality(total.merged)
      /\ total.stats.totalRequests = Cardinality(OwnedBy(total.merged))
      /\ total.stats.successful <= Cardinality(WonBy(total.merged))
  BY DEF CountInv, TotalInv
<1>2. WonBy(total.merged) = {c \in Conns : /\ owner[c] \in total.merged
                                            /\ answered[c] # <<>> /\ answered[c][1].kind = "items"}
  BY DEF WonBy, OwnedBy, Won
<1>3. Cardinality(WonBy(total.merged)) <= Cardinality(OwnedBy(total.merged))
  <2>1. OwnedBy(total.merged) \in SUBSET Conns /\ WonBy(total.merged) \in SUBSET OwnedBy(total.merged)
    BY DEF WonBy, OwnedBy
  <2>. QED  BY <2>1, Sizes
<1>4. Cardinality(WonBy(total.merged)) <= total.stats.totalRequests
  BY <1>1, <1>3
<1>. QED  BY <1>1, <1>2, <1>4 DEF CountsAddUp

\* The summary of the client program accounts for every request of every thread that
\* has ended, connected or not; each success is an answer the server gave, and no
\* answer is given that is not counted as a request: whatever connects fail, however
\* the answers are cut and whatever the other client does in between.
THEOREM SummaryAddsUp == Spec => []CountsAddUp
<1>1. Init => CountInv
  BY CountsStart
<1>2. FramingInv /\ CountInv /\ [Next]_vars => CountInv'
  BY CountsStep
<1>3. FramingInv /\ CountInv => CountsAddUp
  BY CountsAreEnough
<1>4. Spec => []FramingInv
  BY FramingHolds
<1>. QED  BY <1>1, <1>2, <1>3, <1>4, PTL DEF Spec
=============================================================================
