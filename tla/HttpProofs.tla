---------------------------- MODULE HttpProofs ----------------------------
(***************************************************************************)
(* A connection of HttpServer recognises every request as what it is,      *)
(* sends exactly what it has composed wherever writev stops, and dies on a *)
(* request that arrives whole in two ways only: for any requests, lengths  *)
(* and outcomes of stat.                                                   *)
(***************************************************************************)
EXTENDS Http, TLAPS

(* The bytes of answers, what process_read returns, an entry of _iv. *)
Bytes == Nat \X {"head", "file"} \X Nat

Codes == {"BAD_REQUEST", "GET_REQUEST", "NO_RESOURCE", "FORBIDDEN_REQUEST", "FILE_REQUEST"}

Entry == [base : {"send", "file"}, at : Int, len : Int]

-----------------------------------------------------------------------------
(* The text of a request *)

KeepLen(r) == IF r.keep THEN 3 ELSE 0
LengthLen(r) == IF r.body THEN 3 ELSE 0

(* Where its lines begin, and the body. *)
LengthAt(r) == 8 + KeepLen(r)
BlankAt(r) == 8 + KeepLen(r) + LengthLen(r)
BodyAt(r) == BlankAt(r) + 2
TextLen(r) == BodyAt(r) + (IF r.body THEN BodyLen ELSE 0)

LEMMA SymbolsAre ==
    /\ CR \in Symbols /\ LF \in Symbols /\ Nul \in Symbols
    /\ "GET" \in Symbols /\ "POST" \in Symbols /\ "BREW" \in Symbols
    /\ SP \in Symbols /\ "/" \in Symbols /\ "HTTP/1.1" \in Symbols
    /\ "http://" \in Symbols /\ "https://" \in Symbols /\ "page" \in Symbols
    /\ "keep" \in Symbols /\ "length" \in Symbols /\ "x" \in Symbols
BY DEF Symbols

(* A target: what it begins with, and the rest. *)
LEMMA TargetIs ==
    ASSUME NEW target \in Targets
    PROVE  /\ target[1] \in {"/", "http://", "https://"} /\ target[2] \in {"page", "/"}
           /\ target = <<target[1], target[2]>>
           /\ target[1] \in Symbols /\ target[2] \in Symbols
<1>1. PICK s \in {"/", "http://", "https://"}, w \in {"page", "/"} : target = <<s, w>>
    BY DEF Targets
<1>2. target[1] = s /\ target[2] = w
    BY <1>1
<1>3. QED
    BY <1>1, <1>2, SymbolsAre

(* What s \o t is. *)
IsConcat(u, s, t, S) ==
    /\ u \in Seq(S) /\ Len(u) = Len(s) + Len(t)
    /\ Len(s) \in Nat /\ Len(t) \in Nat
    /\ \A i \in 1 .. Len(s) : u[i] = s[i]
    /\ \A i \in 1 .. Len(t) : u[Len(s) + i] = t[i]

LEMMA ConcatIs ==
    ASSUME NEW S, NEW s \in Seq(S), NEW t \in Seq(S), NEW u, u = s \o t
    PROVE  IsConcat(u, s, t, S)
BY DEF IsConcat

LEMMA TuplesAre ==
    ASSUME NEW S
    PROVE  /\ <<>> \in Seq(S) /\ Len(<<>>) = 0
           /\ \A x \in S : <<x>> \in Seq(S) /\ Len(<<x>>) = 1 /\ <<x>>[1] = x
           /\ \A x, y \in S : /\ <<x, y>> \in Seq(S) /\ Len(<<x, y>>) = 2
                             /\ <<x, y>>[1] = x /\ <<x, y>>[2] = y
OBVIOUS

(* What SubSeq(s, m, n) is. *)
IsSub(u, s, m, n, S) ==
    /\ u \in Seq(S) /\ Len(u) = n - m + 1
    /\ \A i \in 1 .. n - m + 1 : u[i] = s[m + i - 1]

LEMMA SubIs ==
    ASSUME NEW S, NEW s \in Seq(S), NEW m \in 1 .. Len(s) + 1, NEW n \in m - 1 .. Len(s),
           NEW u, u = SubSeq(s, m, n)
    PROVE  IsSub(u, s, m, n, S)
BY DEF IsSub

LEMMA SameSeq ==
    ASSUME NEW S, NEW s \in Seq(S), NEW t \in Seq(S), Len(s) = Len(t),
           \A i \in 1 .. Len(s) : s[i] = t[i]
    PROVE  s = t
OBVIOUS

Regroups(s, t, u) == (s \o t) \o u = s \o (t \o u)

LEMMA Associative ==
    ASSUME NEW S, NEW s \in Seq(S), NEW t \in Seq(S), NEW u \in Seq(S)
    PROVE  Regroups(s, t, u)
<1>1. PICK st : st = s \o t
    OBVIOUS
<1>2. PICK tu : tu = t \o u
    OBVIOUS
<1>3. PICK l : l = st \o u
    OBVIOUS
<1>4. PICK r : r = s \o tu
    OBVIOUS
<1>5. IsConcat(st, s, t, S) /\ IsConcat(tu, t, u, S)
    BY <1>1, <1>2, ConcatIs
<1>6. IsConcat(l, st, u, S) /\ IsConcat(r, s, tu, S)
    <2>1. st \in Seq(S) /\ tu \in Seq(S)
        BY <1>5 DEF IsConcat
    <2>2. IsConcat(l, st, u, S)
        BY <1>3, <2>1, ConcatIs
    <2>3. IsConcat(r, s, tu, S)
        BY <1>4, <2>1, ConcatIs
    <2>4. QED
        BY <2>2, <2>3
<1>7. PICK a : a = Len(s)
    OBVIOUS
<1>8. PICK b : b = Len(t)
    OBVIOUS
<1>9. PICK c : c = Len(u)
    OBVIOUS
<1>10. /\ a \in Nat /\ b \in Nat /\ c \in Nat
       /\ Len(st) = a + b /\ Len(tu) = b + c /\ Len(l) = a + b + c /\ Len(r) = a + b + c
    BY <1>5, <1>6, <1>7, <1>8, <1>9 DEF IsConcat
<1>11. ASSUME NEW i \in 1 .. a PROVE l[i] = r[i]
    BY <1>5, <1>6, <1>7, <1>10 DEF IsConcat
<1>12. ASSUME NEW i \in 1 .. b PROVE l[a + i] = r[a + i]
    BY <1>5, <1>6, <1>7, <1>8, <1>10 DEF IsConcat
<1>13. ASSUME NEW i \in 1 .. c PROVE l[(a + b) + i] = r[(a + b) + i]
    <2>1. l[(a + b) + i] = u[i]
        BY <1>6, <1>9, <1>10 DEF IsConcat
    <2>2. tu[b + i] = u[i] /\ b + i \in 1 .. Len(tu)
        BY <1>5, <1>8, <1>9, <1>10 DEF IsConcat
    <2>3. r[a + (b + i)] = tu[b + i]
        BY <1>6, <1>7, <2>2 DEF IsConcat
    <2>4. (a + b) + i = a + (b + i)
        BY <1>10
    <2>5. QED
        BY <2>1, <2>2, <2>3, <2>4
<1>14. ASSUME NEW i \in 1 .. Len(l) PROVE l[i] = r[i]
    <2>1. CASE i \in 1 .. a
        BY <1>11, <2>1
    <2>2. CASE i - a \in 1 .. b
        <3>1. a + (i - a) = i
            BY <1>10
        <3>2. QED
            BY <1>12, <2>2, <3>1
    <2>3. CASE i - (a + b) \in 1 .. c
        <3>1. (a + b) + (i - (a + b)) = i
            BY <1>10
        <3>2. QED
            BY <1>13, <2>3, <3>1
    <2>4. i \in 1 .. a \/ i - a \in 1 .. b \/ i - (a + b) \in 1 .. c
        BY <1>10
    <2>5. QED
        BY <2>1, <2>2, <2>3, <2>4
<1>15. l = r
    BY <1>6, <1>10, <1>14, SameSeq DEF IsConcat
<1>16. QED
    BY <1>1, <1>2, <1>3, <1>4, <1>15 DEF Regroups

(* A sequence is what it begins with, and the rest. *)
LEMMA Split ==
    ASSUME NEW S, NEW s \in Seq(S), NEW n \in 0 .. Len(s)
    PROVE  /\ SubSeq(s, 1, n) \in Seq(S) /\ Len(SubSeq(s, 1, n)) = n
           /\ SubSeq(s, n + 1, Len(s)) \in Seq(S)
           /\ Len(SubSeq(s, n + 1, Len(s))) = Len(s) - n
           /\ SubSeq(s, 1, n) \o SubSeq(s, n + 1, Len(s)) = s
<1>1. PICK a : a = SubSeq(s, 1, n)
    OBVIOUS
<1>2. PICK b : b = SubSeq(s, n + 1, Len(s))
    OBVIOUS
<1>3. PICK c : c = a \o b
    OBVIOUS
<1>4. IsSub(a, s, 1, n, S) /\ IsSub(b, s, n + 1, Len(s), S)
    <2>1. /\ 1 \in 1 .. Len(s) + 1 /\ n \in 1 - 1 .. Len(s)
          /\ n + 1 \in 1 .. Len(s) + 1 /\ Len(s) \in (n + 1) - 1 .. Len(s)
        OBVIOUS
    <2>2. IsSub(a, s, 1, n, S)
        BY <1>1, <2>1, SubIs
    <2>3. IsSub(b, s, n + 1, Len(s), S)
        BY <1>2, <2>1, SubIs
    <2>4. QED
        BY <2>2, <2>3
<1>5. /\ a \in Seq(S) /\ b \in Seq(S) /\ Len(a) = n /\ Len(b) = Len(s) - n
      /\ \A i \in 1 .. n : a[i] = s[i]
      /\ \A i \in 1 .. Len(b) : b[i] = s[n + i]
    BY <1>4 DEF IsSub
<1>6. IsConcat(c, a, b, S)
    BY <1>3, <1>5, ConcatIs
<1>7. c \in Seq(S) /\ Len(c) = Len(s)
    BY <1>5, <1>6 DEF IsConcat
<1>8. ASSUME NEW i \in 1 .. Len(s) PROVE c[i] = s[i]
    <2>1. CASE i <= n
        BY <1>5, <1>6, <2>1 DEF IsConcat
    <2>2. CASE i > n
        <3>1. i - n \in 1 .. Len(b) /\ n + (i - n) = i
            BY <1>5, <2>2
        <3>2. c[n + (i - n)] = b[i - n]
            BY <1>5, <1>6, <3>1 DEF IsConcat
        <3>3. b[i - n] = s[n + (i - n)]
            BY <1>5, <3>1
        <3>4. QED
            BY <3>1, <3>2, <3>3
    <2>3. QED
        BY <2>1, <2>2
<1>9. c = s
    BY <1>7, <1>8, SameSeq
<1>10. QED
    BY <1>1, <1>2, <1>3, <1>5, <1>9

LEMMA EmptyConcat ==
    ASSUME NEW S, NEW s \in Seq(S)
    PROVE  s \o <<>> = s /\ <<>> \o s = s
OBVIOUS

IsLine(l, words) ==
    /\ l \in Seq(Symbols) /\ Len(l) = Len(words) + 2
    /\ \A i \in 1 .. Len(words) : l[i] = words[i]
    /\ l[Len(words) + 1] = CR /\ l[Len(words) + 2] = LF

LEMMA LineIs ==
    ASSUME NEW words \in Seq(Symbols), NEW l, l = Line(words)
    PROVE  IsLine(l, words)
<1>1. PICK e : e = <<CR, LF>>
    OBVIOUS
<1>2. e \in Seq(Symbols) /\ Len(e) = 2 /\ e[1] = CR /\ e[2] = LF
    BY <1>1, SymbolsAre, TuplesAre
<1>3. l = words \o e
    BY <1>1 DEF Line
<1>4. IsConcat(l, words, e, Symbols)
    BY <1>2, <1>3, ConcatIs
<1>5. QED
    BY <1>2, <1>4 DEF IsConcat, IsLine

(* u is s and then t: s up to m, t from there to n. *)
JoinsAt(u, s, t, S, m, n) ==
    /\ u \in Seq(S) /\ Len(u) = n
    /\ \A i \in 1 .. m : u[i] = s[i]
    /\ \A i \in m + 1 .. n : u[i] = t[i - m]

LEMMA JoinIs ==
    ASSUME NEW S, NEW s \in Seq(S), NEW t \in Seq(S), NEW u, u = s \o t,
           NEW m, m = Len(s), NEW n, n = m + Len(t)
    PROVE  JoinsAt(u, s, t, S, m, n)
<1>1. IsConcat(u, s, t, S)
    BY ConcatIs
<1>2. /\ u \in Seq(S) /\ Len(u) = n /\ m \in Nat /\ n \in Nat /\ Len(t) = n - m
      /\ \A i \in 1 .. m : u[i] = s[i]
      /\ \A i \in 1 .. Len(t) : u[m + i] = t[i]
    BY <1>1 DEF IsConcat
<1>3. ASSUME NEW i \in m + 1 .. n PROVE u[i] = t[i - m]
    <2>1. i - m \in 1 .. Len(t) /\ m + (i - m) = i
        BY <1>2
    <2>2. QED
        BY <1>2, <2>1
<1>4. QED
    BY <1>2, <1>3 DEF JoinsAt

(* The text of a request, symbol by symbol. *)
IsText(t, r) ==
    /\ t \in Seq(Symbols) /\ Len(t) = TextLen(r)
    /\ t[1] = r.method /\ t[2] = SP /\ t[3] = r.target[1] /\ t[4] = r.target[2]
    /\ t[5] = SP /\ t[6] = "HTTP/1.1" /\ t[7] = CR /\ t[8] = LF
    /\ r.keep => t[9] = "keep" /\ t[10] = CR /\ t[11] = LF
    /\ r.body => /\ t[LengthAt(r) + 1] = "length"
                 /\ t[LengthAt(r) + 2] = CR /\ t[LengthAt(r) + 3] = LF
    /\ t[BlankAt(r) + 1] = CR /\ t[BlankAt(r) + 2] = LF
    /\ \A i \in BodyAt(r) + 1 .. TextLen(r) : t[i] = "x"

LEMMA TextIs == ASSUME NEW r \in RequestType PROVE IsText(Text(r), r)
<1>0. /\ BodyLen \in Nat \ {0} /\ r.method \in Symbols
      /\ r.keep \in BOOLEAN /\ r.body \in BOOLEAN /\ r.target \in Targets
    BY HttpAssumption, SymbolsAre DEF RequestType
<1>a. PICK x \in Symbols : x = r.target[1]
    BY <1>0, TargetIs
<1>b. PICK y \in Symbols : y = r.target[2]
    BY <1>0, TargetIs
<1>1. PICK w : w = <<r.method, SP, x, y, SP, "HTTP/1.1">>
    OBVIOUS
<1>2. /\ w \in Seq(Symbols) /\ Len(w) = 6 /\ w[1] = r.method /\ w[2] = SP /\ w[3] = x
      /\ w[4] = y /\ w[5] = SP /\ w[6] = "HTTP/1.1"
    BY <1>0, <1>1, SymbolsAre
<1>3. PICK a : a = Line(w)
    OBVIOUS
<1>4. /\ a \in Seq(Symbols) /\ Len(a) = 8 /\ a[1] = r.method /\ a[2] = SP /\ a[3] = x
      /\ a[4] = y /\ a[5] = SP /\ a[6] = "HTTP/1.1" /\ a[7] = CR /\ a[8] = LF
    <2>1. IsLine(a, w)
        BY <1>2, <1>3, LineIs
    <2>2. QED
        BY <1>2, <2>1 DEF IsLine
<1>5. ASSUME NEW v \in Symbols, NEW l, l = Line(<<v>>)
      PROVE  /\ l \in Seq(Symbols) /\ Len(l) = 3
             /\ l[1] = v /\ l[2] = CR /\ l[3] = LF
    <2>1. PICK u : u = <<v>>
        OBVIOUS
    <2>2. u \in Seq(Symbols) /\ Len(u) = 1 /\ u[1] = v
        BY <2>1, TuplesAre
    <2>3. IsLine(l, u)
        BY <1>5, <2>1, <2>2, LineIs
    <2>4. QED
        BY <2>2, <2>3 DEF IsLine
<1>6. PICK k : k = IF r.keep THEN Line(<<"keep">>) ELSE <<>>
    OBVIOUS
<1>7. /\ k \in Seq(Symbols) /\ Len(k) = KeepLen(r)
      /\ r.keep => k[1] = "keep" /\ k[2] = CR /\ k[3] = LF
    <2>1. CASE r.keep
        <3>1. "keep" \in Symbols
            BY SymbolsAre
        <3>2. QED
            BY <1>5, <1>6, <2>1, <3>1 DEF KeepLen
    <2>2. CASE ~r.keep
        BY <1>6, <2>2, TuplesAre DEF KeepLen
    <2>3. QED
        BY <2>1, <2>2
<1>8. PICK l : l = IF r.body THEN Line(<<"length">>) ELSE <<>>
    OBVIOUS
<1>9. /\ l \in Seq(Symbols) /\ Len(l) = LengthLen(r)
      /\ r.body => l[1] = "length" /\ l[2] = CR /\ l[3] = LF
    <2>1. CASE r.body
        <3>1. "length" \in Symbols
            BY SymbolsAre
        <3>2. QED
            BY <1>5, <1>8, <2>1, <3>1 DEF LengthLen
    <2>2. CASE ~r.body
        BY <1>8, <2>2, TuplesAre DEF LengthLen
    <2>3. QED
        BY <2>1, <2>2
<1>10. PICK e : e = Line(<<>>)
    OBVIOUS
<1>11. e \in Seq(Symbols) /\ Len(e) = 2 /\ e[1] = CR /\ e[2] = LF
    <2>1. PICK u : u = <<>>
        OBVIOUS
    <2>2. u \in Seq(Symbols) /\ Len(u) = 0
        BY <2>1, TuplesAre
    <2>3. IsLine(e, u)
        BY <1>10, <2>1, <2>2, LineIs
    <2>4. QED
        BY <2>2, <2>3 DEF IsLine
<1>12. PICK b : b = IF r.body THEN Body ELSE <<>>
    OBVIOUS
<1>13. /\ b \in Seq(Symbols) /\ Len(b) = (IF r.body THEN BodyLen ELSE 0)
       /\ \A i \in 1 .. Len(b) : b[i] = "x"
    <2>2. Body \in Seq(Symbols) /\ Len(Body) = BodyLen /\ \A i \in 1 .. BodyLen : Body[i] = "x"
        BY <1>0, SymbolsAre DEF Body
    <2>3. QED
        BY <1>0, <1>12, <2>2, TuplesAre
<1>n. /\ Len(k) \in Nat /\ Len(l) \in Nat /\ Len(b) \in Nat
      /\ LengthAt(r) = 8 + Len(k) /\ BlankAt(r) = LengthAt(r) + Len(l)
      /\ BodyAt(r) = BlankAt(r) + 2 /\ TextLen(r) = BodyAt(r) + Len(b)
    <2>1. Len(k) \in Nat /\ Len(l) \in Nat /\ Len(b) \in Nat
        BY <1>7, <1>9, <1>13
    <2>2. LengthAt(r) = 8 + Len(k) /\ BlankAt(r) = 8 + Len(k) + Len(l)
        BY <1>7, <1>9 DEF LengthAt, BlankAt
    <2>3. BodyAt(r) = BlankAt(r) + 2 /\ TextLen(r) = BodyAt(r) + Len(b)
        BY <1>13 DEF BodyAt, TextLen
    <2>4. QED
        BY <2>1, <2>2, <2>3
<1>14. Text(r) = (((a \o k) \o l) \o e) \o b
    BY <1>a, <1>b, <1>1, <1>3, <1>6, <1>8, <1>10, <1>12 DEF Text
<1>15. PICK ak : ak = a \o k
    OBVIOUS
<1>16. /\ ak \in Seq(Symbols) /\ Len(ak) = LengthAt(r)
       /\ \A i \in 1 .. 8 : ak[i] = a[i]
       /\ \A i \in 9 .. LengthAt(r) : ak[i] = k[i - 8]
    <2>1. JoinsAt(ak, a, k, Symbols, 8, LengthAt(r))
        BY <1>4, <1>7, <1>n, <1>15, JoinIs
    <2>2. QED
        BY <2>1 DEF JoinsAt
<1>17. PICK akl : akl = ak \o l
    OBVIOUS
<1>18. /\ akl \in Seq(Symbols) /\ Len(akl) = BlankAt(r)
       /\ \A i \in 1 .. LengthAt(r) : akl[i] = ak[i]
       /\ \A i \in LengthAt(r) + 1 .. BlankAt(r) : akl[i] = l[i - LengthAt(r)]
    <2>1. JoinsAt(akl, ak, l, Symbols, LengthAt(r), BlankAt(r))
        BY <1>9, <1>n, <1>16, <1>17, JoinIs
    <2>2. QED
        BY <2>1 DEF JoinsAt
<1>19. PICK akle : akle = akl \o e
    OBVIOUS
<1>20. /\ akle \in Seq(Symbols) /\ Len(akle) = BodyAt(r)
       /\ \A i \in 1 .. BlankAt(r) : akle[i] = akl[i]
       /\ akle[BlankAt(r) + 1] = CR /\ akle[BlankAt(r) + 2] = LF
    <2>1. JoinsAt(akle, akl, e, Symbols, BlankAt(r), BodyAt(r))
        BY <1>11, <1>n, <1>18, <1>19, JoinIs
    <2>2. /\ BlankAt(r) + 1 \in BlankAt(r) + 1 .. BodyAt(r)
          /\ BlankAt(r) + 2 \in BlankAt(r) + 1 .. BodyAt(r)
          /\ (BlankAt(r) + 1) - BlankAt(r) = 1 /\ (BlankAt(r) + 2) - BlankAt(r) = 2
        BY <1>n
    <2>3. akle[BlankAt(r) + 1] = e[1] /\ akle[BlankAt(r) + 2] = e[2]
        BY <2>1, <2>2 DEF JoinsAt
    <2>4. QED
        BY <1>11, <2>1, <2>3 DEF JoinsAt
<1>21. PICK t : t = akle \o b
    OBVIOUS
<1>22. /\ t \in Seq(Symbols) /\ Len(t) = TextLen(r)
       /\ \A i \in 1 .. BodyAt(r) : t[i] = akle[i]
       /\ \A i \in BodyAt(r) + 1 .. TextLen(r) : t[i] = b[i - BodyAt(r)]
    <2>1. JoinsAt(t, akle, b, Symbols, BodyAt(r), TextLen(r))
        BY <1>13, <1>n, <1>20, <1>21, JoinIs
    <2>2. QED
        BY <2>1 DEF JoinsAt
<1>23. Text(r) = t
    BY <1>14, <1>15, <1>17, <1>19, <1>21
<1>24. \A i \in BodyAt(r) + 1 .. TextLen(r) : t[i] = "x"
    <2>1. ASSUME NEW i \in BodyAt(r) + 1 .. TextLen(r) PROVE i - BodyAt(r) \in 1 .. Len(b)
        BY <1>n
    <2>2. QED
        BY <1>13, <1>22, <2>1
<1>25. t[BlankAt(r) + 1] = CR /\ t[BlankAt(r) + 2] = LF
    BY <1>20, <1>22, <1>n
<1>26. r.body => /\ t[LengthAt(r) + 1] = "length"
                 /\ t[LengthAt(r) + 2] = CR /\ t[LengthAt(r) + 3] = LF
    <2>1. r.body => Len(l) = 3
        BY <1>9 DEF LengthLen
    <2>2. ASSUME NEW i \in 1 .. Len(l) PROVE t[LengthAt(r) + i] = l[i]
        <3>1. /\ LengthAt(r) + i \in LengthAt(r) + 1 .. BlankAt(r)
              /\ LengthAt(r) + i \in 1 .. BlankAt(r) /\ LengthAt(r) + i \in 1 .. BodyAt(r)
              /\ (LengthAt(r) + i) - LengthAt(r) = i
            BY <1>n
        <3>2. QED
            BY <1>18, <1>20, <1>22, <3>1
    <2>3. QED
        BY <1>9, <2>1, <2>2
<1>27. \A i \in 1 .. LengthAt(r) : t[i] = ak[i]
    <2>1. ASSUME NEW i \in 1 .. LengthAt(r) PROVE t[i] = ak[i]
        <3>1. i \in 1 .. BlankAt(r) /\ i \in 1 .. BodyAt(r)
            BY <1>n
        <3>2. QED
            BY <1>18, <1>20, <1>22, <3>1
    <2>2. QED
        BY <2>1
<1>28. r.keep => t[9] = "keep" /\ t[10] = CR /\ t[11] = LF
    BY <1>7, <1>16, <1>27 DEF LengthAt, KeepLen
<1>29. \A i \in 1 .. 8 : t[i] = a[i]
    <2>1. ASSUME NEW i \in 1 .. 8 PROVE t[i] = a[i]
        <3>1. i \in 1 .. LengthAt(r)
            BY DEF LengthAt, KeepLen
        <3>2. t[i] = ak[i]
            BY <1>27, <3>1
        <3>3. ak[i] = a[i]
            BY <1>16
        <3>4. QED
            BY <3>2, <3>3
    <2>2. QED
        BY <2>1
<1>30. QED
    BY <1>a, <1>b, <1>4, <1>22, <1>23, <1>24, <1>25, <1>26, <1>28, <1>29 DEF IsText

-----------------------------------------------------------------------------
(* Types, with the sequences that TypeOK leaves out *)

Result == [code : Codes, linger : BOOLEAN]

Task == [check_state : {"REQUESTLINE", "HEADER", "CONTENT"},
         start_line : 0 .. BufSize, checked_idx : 0 .. BufSize,
         read_idx : 0 .. BufSize, line_status : {"OK", "OPEN", "BAD"},
         method : {"GET", "POST"}, url : NoUrl .. BufSize,
         content_length : {0, BodyLen}, linger : BOOLEAN]

Iov == [vec : Entry \X Entry, count : 0 .. 2, to_send : Int, have_sent : Int]

(* What the peer and the parser have, what is composed, and where the      *)
(* program is.                                                             *)
InTypes ==
    /\ mode \in Modes
    /\ asked \in Seq(Requests)
    /\ wire \in Seq(Symbols) /\ inbox \in Seq(Symbols)
    /\ Len(inbox) + Len(wire) < BufSize
    /\ recv_buf \in [0 .. BufSize -> Symbols] /\ recv_buf[BufSize] = Nul
    /\ task \in Task

OutTypes ==
    /\ results \in Seq(Result)
    /\ send_buf \in Seq(Bytes) /\ promised \in Seq(Bytes)
    /\ map \in [base : {"unset", "null", "file"}, sized : BOOLEAN]

StageTypes ==
    /\ armed \in {"in", "out", "off"}
    /\ stage \in {"wait", "parse", "line", "write", "dead", "astray"}
    /\ faults \subseteq {"piece", "closed", "would_block", "cut_twice"}

Types == InTypes /\ OutTypes /\ StageTypes

LEMMA TypesAre == Types => TypeOK
BY DEF Types, InTypes, OutTypes, StageTypes, TypeOK, Task

LEMMA Lengths ==
    /\ BodyLen \in Nat \ {0} /\ HeadLen \in Nat \ {0} /\ FileLen \in Nat \ {0}
    /\ BufSize = 17 + BodyLen /\ BufSize \in Nat \ {0} /\ NoUrl = -1
    /\ Requests \subseteq RequestType
BY HttpAssumption DEF BufSize, NoUrl

LEMMA TextLenIs ==
    ASSUME NEW r \in RequestType
    PROVE  /\ LengthAt(r) \in Nat /\ BlankAt(r) \in Nat /\ BodyAt(r) \in Nat
           /\ TextLen(r) \in Nat /\ TextLen(r) < BufSize
           /\ LengthAt(r) = IF r.keep THEN 11 ELSE 8
           /\ BlankAt(r) = IF r.body THEN LengthAt(r) + 3 ELSE LengthAt(r)
           /\ BodyAt(r) = BlankAt(r) + 2
           /\ TextLen(r) = IF r.body THEN BodyAt(r) + BodyLen ELSE BodyAt(r)
BY Lengths DEF RequestType, TextLen, BodyAt, BlankAt, LengthAt, KeepLen, LengthLen

LEMMA AppendIs ==
    ASSUME NEW S, NEW s \in Seq(S), NEW x \in S, NEW u, u = Append(s, x)
    PROVE  /\ u \in Seq(S) /\ Len(s) \in Nat /\ Len(u) = Len(s) + 1
           /\ u[Len(s) + 1] = x
           /\ \A i \in 1 .. Len(s) : u[i] = s[i]
OBVIOUS

LEMMA FreshIs == Fresh \in Task /\ Empty \in [0 .. BufSize -> Symbols] /\ Empty[BufSize] = Nul
BY Lengths, SymbolsAre DEF Fresh, Task, Empty

LEMMA TypesInit == Init => Types
<1>1. SUFFICES ASSUME Init PROVE Types
    OBVIOUS
<1>2. InTypes
    <2>1. <<>> \in Seq(Requests) /\ <<>> \in Seq(Symbols) /\ Len(<<>>) = 0
        BY TuplesAre
    <2>2. QED
        BY <1>1, <2>1, FreshIs, Lengths DEF Init, InTypes
<1>3. OutTypes
    <2>1. <<>> \in Seq(Result) /\ <<>> \in Seq(Bytes)
        BY TuplesAre
    <2>2. QED
        BY <1>1, <2>1 DEF Init, OutTypes
<1>4. StageTypes
    BY <1>1 DEF Init, StageTypes
<1>5. QED
    BY <1>2, <1>3, <1>4 DEF Types

(* The bytes of an answer. *)
LEMMA ComposedIs ==
    ASSUME NEW n \in Nat, NEW code
    PROVE  /\ Composed(n, code) \in Seq(Bytes) /\ Len(Composed(n, code)) \in Nat \ {0}
           /\ FileBytes(n) \in Seq(Bytes) /\ Len(FileBytes(n)) = FileLen
BY Lengths DEF Composed, FileBytes, Bytes

LEMMA AskTypes == Types /\ Ask => Types'
<1>1. SUFFICES ASSUME Types, Ask PROVE Types'
    OBVIOUS
<1>2. PICK r \in Requests : asked' = Append(asked, r) /\ wire' = Text(r)
    BY <1>1 DEF Ask
<1>3. IsText(Text(r), r)
    BY <1>2, TextIs, Lengths
<1>4. wire' \in Seq(Symbols) /\ Len(wire') < BufSize /\ inbox' = <<>> /\ Len(inbox') = 0
    <2>1. wire' \in Seq(Symbols) /\ Len(wire') = TextLen(r)
        BY <1>2, <1>3 DEF IsText
    <2>2. TextLen(r) \in Nat /\ TextLen(r) < BufSize
        BY TextLenIs, Lengths
    <2>3. QED
        BY <1>1, <2>1, <2>2, TuplesAre DEF Ask
<1>5. asked' \in Seq(Requests)
    BY <1>1, <1>2, AppendIs DEF Types, InTypes
<1>6. InTypes'
    <2>1. mode' = mode /\ recv_buf' = recv_buf /\ task' = task /\ inbox' = inbox
        BY <1>1 DEF Ask, parser
    <2>2. inbox' \in Seq(Symbols) /\ Len(inbox') + Len(wire') < BufSize
        BY <1>1, <1>4, <2>1, Lengths DEF Types, InTypes
    <2>3. QED
        BY <1>1, <1>4, <1>5, <2>1, <2>2 DEF Types, InTypes
<1>7. OutTypes' /\ StageTypes'
    BY <1>1 DEF Types, OutTypes, StageTypes, Ask, sender
<1>8. QED
    BY <1>6, <1>7 DEF Types

(* What Deliver does to the bytes under way: none is lost. *)
LEMMA DeliverIs ==
    ASSUME Types, Deliver
    PROVE  /\ inbox' \in Seq(Symbols) /\ wire' \in Seq(Symbols)
           /\ inbox' # <<>>
           /\ Len(inbox) + Len(wire) \in Nat
           /\ Len(inbox') + Len(wire') = Len(inbox) + Len(wire)
           /\ inbox' \o wire' = inbox \o wire
<1>1. inbox \in Seq(Symbols) /\ wire \in Seq(Symbols) /\ wire # <<>>
    BY DEF Types, InTypes, Deliver
<1>2. PICK n \in 1 .. Len(wire) : /\ inbox' = inbox \o SubSeq(wire, 1, n)
                                   /\ wire' = SubSeq(wire, n + 1, Len(wire))
    BY DEF Deliver
<1>3. PICK a : a = SubSeq(wire, 1, n)
    OBVIOUS
<1>4. /\ a \in Seq(Symbols) /\ Len(a) = n /\ wire' \in Seq(Symbols)
      /\ Len(wire') = Len(wire) - n /\ a \o wire' = wire
    <2>1. n \in 0 .. Len(wire)
        OBVIOUS
    <2>2. QED
        BY <1>1, <1>2, <1>3, <2>1, Split
<1>5. IsConcat(inbox', inbox, a, Symbols)
    BY <1>1, <1>2, <1>3, <1>4, ConcatIs
<1>6. inbox' \o wire' = inbox \o wire
    <2>1. PICK w : w = wire'
        OBVIOUS
    <2>2. PICK b : b = inbox
        OBVIOUS
    <2>3. b \in Seq(Symbols) /\ a \in Seq(Symbols) /\ w \in Seq(Symbols)
        BY <1>1, <1>4, <2>1, <2>2
    <2>4. (b \o a) \o w = b \o (a \o w)
        <3>1. Regroups(b, a, w)
            BY <2>3, Associative
        <3>2. QED
            BY <3>1 DEF Regroups
    <2>5. inbox' = b \o a /\ a \o w = wire
        BY <1>2, <1>3, <1>4, <2>1, <2>2
    <2>6. QED
        BY <2>1, <2>2, <2>4, <2>5
<1>7. /\ inbox' \in Seq(Symbols) /\ Len(inbox') = Len(inbox) + n
      /\ Len(inbox) \in Nat /\ Len(wire) \in Nat
    BY <1>1, <1>4, <1>5 DEF IsConcat
<1>8. inbox' # <<>>
    BY <1>7, TuplesAre
<1>9. QED
    BY <1>4, <1>6, <1>7, <1>8

LEMMA DeliverTypes == Types /\ Deliver => Types'
<1>1. SUFFICES ASSUME Types, Deliver PROVE Types'
    OBVIOUS
<1>2. InTypes'
    <2>1. mode' = mode /\ recv_buf' = recv_buf /\ task' = task /\ asked' = asked
        BY <1>1 DEF Deliver, parser, history
    <2>2. /\ wire' \in Seq(Symbols) /\ inbox' \in Seq(Symbols)
          /\ Len(inbox') + Len(wire') < BufSize
        BY <1>1, DeliverIs DEF Types, InTypes
    <2>3. QED
        BY <1>1, <2>1, <2>2 DEF Types, InTypes
<1>3. OutTypes' /\ StageTypes'
    BY <1>1 DEF Types, OutTypes, StageTypes, Deliver, sender, history
<1>4. QED
    BY <1>2, <1>3 DEF Types

LEMMA PeerReadsTypes == Types /\ PeerReads => Types'
<1>1. SUFFICES ASSUME Types, PeerReads PROVE Types'
    OBVIOUS
<1>2. InTypes' /\ OutTypes' /\ StageTypes'
    BY <1>1 DEF Types, InTypes, OutTypes, StageTypes, PeerReads, parser, sender
<1>3. QED
    BY <1>2 DEF Types

(* What parse_line finds: no line that is complete, or the first CR LF at  *)
(* or after the place it has come to (or an LF behind a CR it had passed). *)
Found(at) ==
    /\ at \in task.checked_idx .. task.read_idx - 1
    /\ recv_buf[at] \in {CR, LF}
    /\ \A i \in task.checked_idx .. at - 1 : recv_buf[i] \notin {CR, LF}

LEMMA ParseLineIs ==
    ASSUME Types, ParseLine
    PROVE  \/ \E c \in 0 .. BufSize, status \in {"OPEN", "BAD"} : NoRequest(c, status)
           \/ \E at \in Nat : /\ Found(at) /\ recv_buf[at] = CR
                              /\ at + 2 <= task.read_idx
                              /\ FoundLine(at + 2, at)
           \/ \E at \in Nat : /\ Found(at) /\ recv_buf[at] = LF /\ at > 1
                              /\ FoundLine(at + 1, at - 1)
<1>1. PICK c : c = task.checked_idx
    OBVIOUS
<1>2. PICK n : n = task.read_idx
    OBVIOUS
<1>3. c \in 0 .. BufSize /\ n \in 0 .. BufSize
    BY <1>1, <1>2 DEF Types, InTypes, Task
<1>4. PICK ends : ends = {i \in c .. n - 1 : recv_buf[i] \in {CR, LF}}
    OBVIOUS
<1>5. CASE ends = {}
    <2>1. NoRequest(IF c < n THEN n ELSE c, "OPEN") \/ \E at \in ends : TRUE
        BY <1>1, <1>2, <1>4 DEF ParseLine
    <2>2. (IF c < n THEN n ELSE c) \in 0 .. BufSize
        BY <1>3
    <2>3. QED
        BY <1>5, <2>1, <2>2
<1>6. CASE ends # {}
    <2>1. PICK at \in ends :
            /\ \A j \in ends : at <= j
            /\ \/ NoRequest(at, "OPEN")
               \/ recv_buf[at] = CR /\ at + 1 # n /\ FoundLine(at + 2, at)
               \/ recv_buf[at] = LF /\ at > 1 /\ FoundLine(at + 1, at - 1)
               \/ NoRequest(at, "BAD")
        BY <1>1, <1>2, <1>4, <1>6 DEF ParseLine
    <2>2. /\ at \in Nat /\ at \in c .. n - 1 /\ at \in 0 .. BufSize
          /\ recv_buf[at] \in {CR, LF}
        BY <1>3, <1>4, <2>1, Lengths
    <2>3. ASSUME NEW i \in c .. at - 1 PROVE recv_buf[i] \notin {CR, LF}
        <3>1. i \notin ends
            BY <1>3, <2>1, <2>2
        <3>2. i \in c .. n - 1
            BY <1>3, <2>2
        <3>3. QED
            BY <1>4, <3>1, <3>2
    <2>4. Found(at)
        BY <1>1, <1>2, <2>2, <2>3 DEF Found
    <2>6. at + 1 # n => at + 2 <= n
        BY <1>3, <2>2
    <2>7. QED
        BY <1>2, <2>1, <2>2, <2>4, <2>6
<1>8. QED
    BY <1>5, <1>6

LEMMA NextLineTypes == Types /\ NextLine => Types'
<1>1. SUFFICES ASSUME Types, NextLine PROVE Types'
    OBVIOUS
<1>2. OutTypes'
    BY <1>1 DEF Types, OutTypes, NextLine, sender, history
<1>3. /\ mode' = mode /\ asked' = asked /\ wire' = wire /\ inbox' = inbox
      /\ faults' = faults
    BY <1>1 DEF NextLine, history
<1>4. recv_buf \in [0 .. BufSize -> Symbols] /\ recv_buf[BufSize] = Nul /\ task \in Task
    BY <1>1 DEF Types, InTypes
<1>5. CASE stage' = "line" /\ UNCHANGED <<parser, armed>>
    BY <1>1, <1>2, <1>3, <1>5 DEF Types, InTypes, StageTypes, parser
<1>6. ASSUME NEW c \in 0 .. BufSize, NEW status \in {"OPEN", "BAD"}, NoRequest(c, status)
      PROVE  Types'
    <2>1. task' \in Task
        BY <1>4, <1>6 DEF NoRequest, Task
    <2>2. QED
        BY <1>1, <1>2, <1>3, <1>6, <2>1 DEF Types, InTypes, StageTypes, NoRequest
<1>7. ASSUME NEW c \in 0 .. BufSize, NEW f \in Int, FoundLine(c, f)
      PROVE  Types'
    <2>1. task' \in Task
        BY <1>4, <1>7 DEF FoundLine, Task
    <2>2. recv_buf' \in [0 .. BufSize -> Symbols] /\ recv_buf'[BufSize] = Nul
        <3>1. Nul \in Symbols /\ BufSize \in 0 .. BufSize
            BY SymbolsAre, Lengths
        <3>2. recv_buf' = [recv_buf EXCEPT ![f] = Nul, ![f + 1] = Nul]
            BY <1>7 DEF FoundLine
        <3>3. QED
            BY <1>4, <3>1, <3>2
    <2>3. QED
        BY <1>1, <1>2, <1>3, <1>7, <2>1, <2>2 DEF Types, InTypes, StageTypes, FoundLine
<1>8. CASE ParseLine
    <2>1. task.read_idx \in 0 .. BufSize
        BY <1>4 DEF Task
    <2>2. ASSUME NEW at \in Nat, Found(at) PROVE at + 1 \in 0 .. BufSize
        BY <2>1, <2>2, Lengths DEF Found
    <2>3. ASSUME NEW at \in Nat, at + 2 <= task.read_idx PROVE at + 2 \in 0 .. BufSize
        BY <2>1, <2>3, Lengths
    <2>4. QED
        BY <1>1, <1>6, <1>7, <1>8, <2>2, <2>3, ParseLineIs
<1>9. QED
    BY <1>1, <1>5, <1>8 DEF NextLine

LEMMA ReceiveTypes == Types /\ Receive => Types'
<1>1. SUFFICES ASSUME Types, Receive PROVE Types'
    OBVIOUS
<1>2. /\ inbox \in Seq(Symbols) /\ wire \in Seq(Symbols)
      /\ Len(inbox) \in Nat /\ Len(wire) \in Nat /\ Len(inbox) + Len(wire) < BufSize
      /\ task \in Task
    BY <1>1 DEF Types, InTypes
<1>3. InTypes'
    <2>1. task' = [task EXCEPT !.read_idx = Len(inbox), !.line_status = "OK"]
        BY <1>1 DEF Receive
    <2>2. task' \in Task
        <3>1. Len(inbox) \in 0 .. BufSize
            BY <1>2, Lengths
        <3>2. QED
            BY <1>2, <2>1, <3>1 DEF Task
    <2>3. recv_buf' = [i \in 0 .. BufSize |-> IF i < Len(inbox) THEN inbox[i + 1] ELSE Nul]
        BY <1>1 DEF Receive
    <2>4. ASSUME NEW i \in 0 .. BufSize, i < Len(inbox) PROVE inbox[i + 1] \in Symbols
        BY <1>2, <2>4, Lengths
    <2>5. recv_buf' \in [0 .. BufSize -> Symbols] /\ recv_buf'[BufSize] = Nul
        BY <1>2, <2>3, <2>4, SymbolsAre, Lengths
    <2>6. inbox' \in Seq(Symbols) /\ Len(inbox') = 0 /\ wire' = wire
        BY <1>1, TuplesAre DEF Receive
    <2>7. mode' = mode /\ asked' = asked
        BY <1>1 DEF Receive
    <2>8. mode' \in Modes /\ asked' \in Seq(Requests)
        BY <1>1, <2>7 DEF Types, InTypes
    <2>9. Len(inbox') + Len(wire') < BufSize
        BY <1>2, <2>6, Lengths
    <2>10. QED
        BY <1>2, <2>2, <2>5, <2>6, <2>8, <2>9 DEF InTypes
<1>4. OutTypes' /\ StageTypes'
    BY <1>1 DEF Types, OutTypes, StageTypes, Receive, sender
<1>5. QED
    BY <1>3, <1>4 DEF Types

LEMMA RespondTypes ==
    ASSUME Types, NEW code \in Codes, NEW t \in Task, Respond(code, t)
    PROVE  OutTypes' /\ StageTypes' /\ task' \in Task
<1>1. PICK n : n = Len(results) + 1
    OBVIOUS
<1>2. n \in Nat /\ results \in Seq(Result) /\ send_buf \in Seq(Bytes) /\ promised \in Seq(Bytes)
    BY <1>1 DEF Types, OutTypes
<1>3. PICK c : c = Composed(n, code)
    OBVIOUS
<1>4. PICK f : f = IF code = "FILE_REQUEST" /\ mode.site = "page" THEN FileBytes(n) ELSE <<>>
    OBVIOUS
<1>5. c \in Seq(Bytes) /\ f \in Seq(Bytes)
    <2>1. /\ c \in Seq(Bytes) /\ FileBytes(n) \in Seq(Bytes)
        BY <1>2, <1>3, ComposedIs
    <2>2. <<>> \in Seq(Bytes)
        BY TuplesAre
    <2>3. QED
        BY <1>4, <2>1, <2>2
<1>6. results' \in Seq(Result)
    <2>1. [code |-> code, linger |-> t.linger] \in Result
        BY DEF Result, Task
    <2>2. QED
        BY <1>2, <2>1, AppendIs DEF Respond
<1>7. /\ send_buf' = send_buf \o c \/ send_buf' = send_buf
      /\ promised' = (promised \o c) \o f \/ promised' = promised
    BY <1>1, <1>3, <1>4 DEF Respond
<1>8. send_buf' \in Seq(Bytes)
    <2>1. PICK u : u = send_buf \o c
        OBVIOUS
    <2>2. IsConcat(u, send_buf, c, Bytes)
        BY <1>2, <1>5, <2>1, ConcatIs
    <2>3. QED
        BY <1>2, <1>7, <2>1, <2>2 DEF IsConcat
<1>9. promised' \in Seq(Bytes)
    <2>1. PICK u : u = promised \o c
        OBVIOUS
    <2>2. IsConcat(u, promised, c, Bytes)
        BY <1>2, <1>5, <2>1, ConcatIs
    <2>3. u \in Seq(Bytes)
        BY <2>2 DEF IsConcat
    <2>4. PICK v : v = u \o f
        OBVIOUS
    <2>5. IsConcat(v, u, f, Bytes)
        BY <1>5, <2>3, <2>4, ConcatIs
    <2>6. QED
        BY <1>2, <1>7, <2>1, <2>4, <2>5 DEF IsConcat
<1>10. map' \in [base : {"unset", "null", "file"}, sized : BOOLEAN] /\ StageTypes'
    <2>1. map.base \in {"unset", "null", "file"}
        BY DEF Types, OutTypes
    <2>2. PICK b \in {"unset", "null", "file"} :
             b = IF code = "FILE_REQUEST" THEN "file" ELSE map.base
        BY <2>1
    <2>3. PICK z \in BOOLEAN : z <=> (map.sized \/ StatSucceeded(code, t))
        OBVIOUS
    <2>4. map' = [base |-> b, sized |-> z]
        BY <2>2, <2>3, Zenon DEF Respond
    <2>5. StageTypes'
        BY DEF Respond, Types, StageTypes
    <2>6. QED
        BY <2>4, <2>5
<1>11. task' = t
    BY DEF Respond
<1>12. QED
    BY <1>6, <1>8, <1>9, <1>10, <1>11 DEF OutTypes

LEMMA CodesAre ==
    /\ "BAD_REQUEST" \in Codes /\ "GET_REQUEST" \in Codes
    /\ \A target : CodeOf(target) \in Codes
BY DEF Codes, CodeOf

LEMMA DiesTypes ==
    ASSUME Types, NEW t \in Task, Dies(t)
    PROVE  OutTypes' /\ StageTypes' /\ task' \in Task
BY DEF Dies, Types, OutTypes, StageTypes, sender

LEMMA DealRequestTypes ==
    ASSUME Types, NEW t \in Task, NEW buf, DealRequest(t, buf)
    PROVE  OutTypes' /\ StageTypes' /\ task' \in Task
<1>1. PICK target : target = LastSlash(StringAt(buf, t.url))
    OBVIOUS
<1>2. CASE Respond("GET_REQUEST", t)
    BY <1>2, RespondTypes, CodesAre
<1>3. CASE Respond(CodeOf(target), t)
    BY <1>3, RespondTypes, CodesAre
<1>4. CASE Dies(t)
    BY <1>4, DiesTypes
<1>5. QED
    BY <1>1, <1>2, <1>3, <1>4 DEF DealRequest

LEMMA ContinueTypes ==
    ASSUME Types, NEW t \in Task, Continue(t)
    PROVE  OutTypes' /\ StageTypes' /\ task' \in Task
BY DEF Continue, Types, OutTypes, StageTypes, sender

LEMMA BlankedTypes ==
    ASSUME Types, NEW at
    PROVE  /\ Blanked(recv_buf, at) \in [0 .. BufSize -> Symbols]
           /\ Blanked(recv_buf, at)[BufSize] = Nul
<1>1. Nul \in Symbols /\ BufSize \in 0 .. BufSize
    BY SymbolsAre, Lengths
<1>2. recv_buf \in [0 .. BufSize -> Symbols] /\ recv_buf[BufSize] = Nul
    BY DEF Types, InTypes
<1>3. QED
    BY <1>1, <1>2 DEF Blanked

(* What a string of the buffer is. *)
IsString(text, buf, at) ==
    /\ DOMAIN text \subseteq 1 .. BufSize + 1 - at
    /\ \A i \in DOMAIN text : text[i] = buf[at + i - 1]
    /\ \A n \in 1 .. BufSize + 1 - at :
          n \in DOMAIN text <=> \A i \in 1 .. n : buf[at + i - 1] # Nul

LEMMA StringIs ==
    ASSUME NEW buf, NEW at, NEW text, text = StringAt(buf, at)
    PROVE  IsString(text, buf, at)
BY DEF IsString, StringAt

(* A request line that comes as far as its target. *)
IsWellFormed(text, method, target) ==
    /\ DOMAIN text = 1 .. 6 /\ text[1] = method /\ text[2] = SP
    /\ text[3] = target[1] /\ text[4] = target[2]
    /\ text[5] = SP /\ text[6] = "HTTP/1.1"

LEMMA WellFormedIs ==
    ASSUME NEW text \in WellFormed
    PROVE  \E method \in {"GET", "POST"}, target \in Targets : IsWellFormed(text, method, target)
<1>1. PICK method \in {"GET", "POST"}, target \in Targets :
         text = <<method, SP, target[1], target[2], SP, "HTTP/1.1">>
    BY DEF WellFormed
<1>2. PICK x : x = target[1]
    OBVIOUS
<1>3. PICK y : y = target[2]
    OBVIOUS
<1>4. text = <<method, SP, x, y, SP, "HTTP/1.1">>
    BY <1>1, <1>2, <1>3
<1>5. IsWellFormed(text, method, target)
    BY <1>2, <1>3, <1>4 DEF IsWellFormed
<1>6. QED
    BY <1>5

(* It lies in the buffer, and so does what is behind its first blank. *)
LEMMA UrlInside ==
    ASSUME NEW buf, NEW at \in 0 .. BufSize, NEW text, text = StringAt(buf, at),
           text \in WellFormed
    PROVE  UrlAt(at, text) \in NoUrl .. BufSize
<1>1. PICK method \in {"GET", "POST"}, target \in Targets : IsWellFormed(text, method, target)
    BY WellFormedIs
<1>2. IsString(text, buf, at)
    BY StringIs
<1>3. 6 \in 1 .. BufSize + 1 - at
    BY <1>1, <1>2 DEF IsString, IsWellFormed
<1>4. at + 5 <= BufSize
    BY <1>3, Lengths
<1>5. UrlAt(at, text) = at + 2 \/ UrlAt(at, text) = at + 3 \/ UrlAt(at, text) = NoUrl
    BY DEF UrlAt
<1>6. /\ at + 2 \in NoUrl .. BufSize /\ at + 3 \in NoUrl .. BufSize
      /\ NoUrl \in NoUrl .. BufSize
    BY <1>4, Lengths
<1>7. QED
    BY <1>5, <1>6

LEMMA BlankInside ==
    ASSUME NEW buf, buf[BufSize] = Nul, NEW at \in 0 .. BufSize,
           NEW text, text = StringAt(buf, at)
    PROVE  AfterBlank(at, text) \in NoUrl .. BufSize
<1>1. CASE FirstBlank(text) = {}
    BY <1>1, Lengths DEF AfterBlank
<1>2. CASE FirstBlank(text) # {}
    <2>1. PICK i : i = CHOOSE j \in FirstBlank(text) : TRUE
        OBVIOUS
    <2>2. i \in DOMAIN text /\ text[i] = SP
        BY <1>2, <2>1 DEF FirstBlank
    <2>3. IsString(text, buf, at)
        BY StringIs
    <2>4. i \in 1 .. BufSize + 1 - at /\ buf[at + i - 1] = SP
        BY <2>2, <2>3 DEF IsString
    <2>5. at + i - 1 # BufSize
        BY <2>4 DEF SP, Nul
    <2>6. at + i \in NoUrl .. BufSize
        BY <2>4, <2>5, Lengths
    <2>7. QED
        BY <1>2, <2>1, <2>6 DEF AfterBlank
<1>3. QED
    BY <1>1, <1>2

(* What TakeLine starts from. *)
Passed == [task EXCEPT !.start_line = task.checked_idx]

LEMMA PassedIs ==
    ASSUME Types
    PROVE  /\ Passed \in Task /\ task.start_line \in 0 .. BufSize
           /\ Passed.start_line = task.checked_idx /\ Passed.checked_idx = task.checked_idx
           /\ Passed.check_state = task.check_state /\ Passed.read_idx = task.read_idx
           /\ Passed.line_status = task.line_status /\ Passed.method = task.method
           /\ Passed.url = task.url /\ Passed.content_length = task.content_length
           /\ Passed.linger = task.linger
BY DEF Types, InTypes, Task, Passed

(* What parse_request_line comes to. *)
RequestLineEnds(t) ==
    \E u \in Task : /\ u.read_idx = t.read_idx
                    /\ Continue(u) \/ Dies(u) \/ Respond("BAD_REQUEST", u)

LEMMA RequestLineIs ==
    ASSUME Types, NEW at \in 0 .. BufSize, NEW t \in Task, RequestLine(at, t)
    PROVE  /\ RequestLineEnds(t)
           /\ recv_buf' \in [0 .. BufSize -> Symbols] /\ recv_buf'[BufSize] = Nul
<1>1. PICK text : text = StringAt(recv_buf, at)
    OBVIOUS
<1>2. CASE text \in WellFormed
    <2>1. PICK method \in {"GET", "POST"}, target \in Targets : IsWellFormed(text, method, target)
        BY <1>2, WellFormedIs
    <2>2. PICK url \in NoUrl .. BufSize : url = UrlAt(at, text)
        BY <1>1, <1>2, UrlInside
    <2>3. PICK u : u = [t EXCEPT !.method = text[1], !.url = url]
        OBVIOUS
    <2>4. PICK v : v = [u EXCEPT !.check_state = "HEADER"]
        OBVIOUS
    <2>5. u \in Task /\ u.read_idx = t.read_idx
        BY <2>1, <2>3 DEF Task, IsWellFormed
    <2>6. v \in Task /\ v.read_idx = t.read_idx
        BY <2>4, <2>5 DEF Task
    <2>7. TargetLine(url, text[3], u) /\ recv_buf' = Blanked(recv_buf, {at + 1, at + 4})
        BY <1>1, <1>2, <2>2, <2>3 DEF RequestLine
    <2>8. Dies(u) \/ Respond("BAD_REQUEST", u) \/ Continue(v)
        BY <2>4, <2>7 DEF TargetLine
    <2>9. QED
        BY <2>5, <2>6, <2>7, <2>8, BlankedTypes DEF RequestLineEnds
<1>3. CASE text \notin WellFormed
    <2>1. PICK url \in NoUrl .. BufSize : url = AfterBlank(at, text)
        BY <1>1, BlankInside DEF Types, InTypes
    <2>2. PICK u : u = [t EXCEPT !.url = url]
        OBVIOUS
    <2>3. u \in Task /\ u.read_idx = t.read_idx
        BY <2>2 DEF Task
    <2>4. /\ Respond("BAD_REQUEST", u)
          /\ recv_buf' = Blanked(recv_buf, {at + i - 1 : i \in FirstBlank(text)})
        BY <1>1, <1>3, <2>1, <2>2 DEF RequestLine
    <2>5. QED
        BY <2>3, <2>4, BlankedTypes DEF RequestLineEnds
<1>4. QED
    BY <1>2, <1>3

LEMMA RequestLineTypes ==
    ASSUME Types, NEW at \in 0 .. BufSize, NEW t \in Task, RequestLine(at, t)
    PROVE  /\ OutTypes' /\ StageTypes' /\ task' \in Task
           /\ recv_buf' \in [0 .. BufSize -> Symbols] /\ recv_buf'[BufSize] = Nul
<1>1. PICK u \in Task : Continue(u) \/ Dies(u) \/ Respond("BAD_REQUEST", u)
    BY RequestLineIs DEF RequestLineEnds
<1>2. OutTypes' /\ StageTypes' /\ task' \in Task
    BY <1>1, ContinueTypes, DiesTypes, RespondTypes, CodesAre
<1>3. QED
    BY <1>2, RequestLineIs

LEMMA HeaderTypes ==
    ASSUME Types, NEW at \in 0 .. BufSize, NEW t \in Task, Header(at, t)
    PROVE  /\ OutTypes' /\ StageTypes' /\ task' \in Task
           /\ recv_buf' \in [0 .. BufSize -> Symbols] /\ recv_buf'[BufSize] = Nul
<1>1. recv_buf' \in [0 .. BufSize -> Symbols] /\ recv_buf'[BufSize] = Nul
    BY DEF Header, Types, InTypes
<1>2. PICK text : text = StringAt(recv_buf, at)
    OBVIOUS
<1>3. PICK u : u = [t EXCEPT !.check_state = "CONTENT"]
    OBVIOUS
<1>4. PICK v : v = [t EXCEPT !.linger = @ \/ text = <<"keep">>,
                             !.content_length = IF text = <<"length">> THEN BodyLen ELSE @]
    OBVIOUS
<1>5. u \in Task /\ v \in Task
    BY <1>3, <1>4 DEF Task
<1>6. Continue(u) \/ DealRequest(t, recv_buf) \/ Continue(v)
    BY <1>2, <1>3, <1>4 DEF Header
<1>7. QED
    BY <1>1, <1>5, <1>6, ContinueTypes, DealRequestTypes

LEMMA ContentTypes ==
    ASSUME Types, NEW at \in 0 .. BufSize, NEW t \in Task, Content(at, t)
    PROVE  /\ OutTypes' /\ StageTypes' /\ task' \in Task
           /\ recv_buf' \in [0 .. BufSize -> Symbols] /\ recv_buf'[BufSize] = Nul
<1>1. PICK u : u = [t EXCEPT !.line_status = "OPEN"]
    OBVIOUS
<1>2. u \in Task
    BY <1>1 DEF Task
<1>3. PICK buf : buf = Blanked(recv_buf, {at + t.content_length})
    OBVIOUS
<1>4. \/ recv_buf' = buf /\ DealRequest(t, buf)
      \/ recv_buf' = recv_buf /\ Continue(u)
    BY <1>1, <1>3 DEF Content
<1>5. recv_buf' \in [0 .. BufSize -> Symbols] /\ recv_buf'[BufSize] = Nul
    BY <1>3, <1>4, BlankedTypes DEF Types, InTypes
<1>6. QED
    BY <1>2, <1>4, <1>5, ContinueTypes, DealRequestTypes

LEMMA TakeLineTypes == Types /\ TakeLine => Types'
<1>1. SUFFICES ASSUME Types, TakeLine PROVE Types'
    OBVIOUS
<1>2. task.start_line \in 0 .. BufSize /\ Passed \in Task
    BY <1>1, PassedIs
<1>3. \/ RequestLine(task.start_line, Passed)
      \/ Header(task.start_line, Passed)
      \/ Content(task.start_line, Passed)
    BY <1>1 DEF TakeLine, Passed, Types, InTypes, Task
<1>4. /\ OutTypes' /\ StageTypes' /\ task' \in Task
      /\ recv_buf' \in [0 .. BufSize -> Symbols] /\ recv_buf'[BufSize] = Nul
    BY <1>1, <1>2, <1>3, RequestLineTypes, HeaderTypes, ContentTypes
<1>5. mode' = mode /\ wire' = wire /\ inbox' = inbox /\ asked' = asked
    BY <1>1 DEF TakeLine
<1>6. InTypes'
    BY <1>1, <1>4, <1>5 DEF Types, InTypes
<1>7. QED
    BY <1>4, <1>6 DEF Types

LEMMA WritingTypes ==
    ASSUME Types, NothingToWrite \/ StartWriting \/ WouldBlock \/ GoesAstray
    PROVE  Types'
<1>1. CASE NothingToWrite
    <2>1. task' \in Task /\ recv_buf' \in [0 .. BufSize -> Symbols] /\ recv_buf'[BufSize] = Nul
        BY <1>1, FreshIs DEF NothingToWrite, InitData, ResetParser
    <2>2. send_buf' \in Seq(Bytes)
        BY <1>1, TuplesAre DEF NothingToWrite, InitData
    <2>3. InTypes'
        BY <1>1, <2>1 DEF Types, InTypes, NothingToWrite, history
    <2>4. OutTypes' /\ StageTypes'
        BY <1>1, <2>2 DEF Types, OutTypes, StageTypes, NothingToWrite, history
    <2>5. QED
        BY <2>3, <2>4 DEF Types
<1>2. CASE StartWriting
    BY <1>2 DEF Types, InTypes, OutTypes, StageTypes, StartWriting, parser, sender, history
<1>3. CASE WouldBlock
    BY <1>3 DEF Types, InTypes, OutTypes, StageTypes, WouldBlock, parser
<1>4. CASE GoesAstray
    BY <1>4 DEF Types, InTypes, OutTypes, StageTypes, GoesAstray, parser, sender, history
<1>5. QED
    BY <1>1, <1>2, <1>3, <1>4

(* What Writev writes, and the two ways it ends. *)
Written == IF Len(Gathered) < mode.room - Len(outbox) THEN Len(Gathered)
           ELSE mode.room - Len(outbox)

LEMMA WritevIs ==
    ASSUME Writev
    PROVE  /\ outbox' = outbox \o SubSeq(Gathered, 1, Written)
           /\ UNCHANGED <<mode, wire, inbox, asked, results, promised, got>>
           /\ \/ iov.to_send = Written /\ Finished(Written) /\ faults' = faults
              \/ /\ iov.to_send # Written /\ iov' = Sent(Written)
                 /\ faults' = IF CutTwice(Written) THEN faults \cup {"cut_twice"} ELSE faults
                 /\ UNCHANGED <<parser, send_buf, map, armed, stage>>
BY DEF Writev, Written

(* The answer is out: the connection goes on, or munmap is the end. *)
GoesOn(n) ==
    /\ map' = [map EXCEPT !.base = "null"] /\ armed' = "in" /\ stage' = "wait"
    /\ Linger(n)

DiesAtUnmap(n) ==
    /\ WildUnmap /\ stage' = "dead"
    /\ iov' = Sent(n) /\ UNCHANGED <<parser, send_buf, map, armed>>

LEMMA FinishedIs == ASSUME NEW n, Finished(n) PROVE GoesOn(n) \/ DiesAtUnmap(n)
BY DEF Finished, GoesOn, DiesAtUnmap

LEMMA WritevTypes == Types /\ Writev => Types'
<1>1. SUFFICES ASSUME Types, Writev PROVE Types'
    OBVIOUS
<1>2. mode' = mode /\ wire' = wire /\ inbox' = inbox /\ asked' = asked /\ results' = results
      /\ promised' = promised
    BY <1>1, WritevIs
<1>3. PICK n : n = Written
    OBVIOUS
<1>4. \/ (GoesOn(n) \/ DiesAtUnmap(n)) /\ faults' = faults
      \/ /\ faults' = IF CutTwice(n) THEN faults \cup {"cut_twice"} ELSE faults
         /\ UNCHANGED <<parser, send_buf, map, armed, stage>>
    BY <1>1, <1>3, WritevIs, FinishedIs
<1>5. /\ task' \in Task /\ recv_buf' \in [0 .. BufSize -> Symbols] /\ recv_buf'[BufSize] = Nul
      /\ send_buf' \in Seq(Bytes)
    <2>1. \/ task' = Fresh /\ recv_buf' = Empty /\ send_buf' = <<>>
          \/ task' = task /\ recv_buf' = recv_buf /\ send_buf' = send_buf
        BY <1>4 DEF GoesOn, DiesAtUnmap, Linger, ResetParser, parser
    <2>2. CASE task' = Fresh /\ recv_buf' = Empty /\ send_buf' = <<>>
        <3>1. <<>> \in Seq(Bytes)
            BY TuplesAre
        <3>2. QED
            BY <2>2, <3>1, FreshIs
    <2>3. CASE task' = task /\ recv_buf' = recv_buf /\ send_buf' = send_buf
        BY <1>1, <2>3 DEF Types, InTypes, OutTypes
    <2>4. QED
        BY <2>1, <2>2, <2>3
<1>6. StageTypes' /\ map' \in [base : {"unset", "null", "file"}, sized : BOOLEAN]
    BY <1>1, <1>4 DEF GoesOn, DiesAtUnmap, Types, OutTypes, StageTypes
<1>7. QED
    BY <1>1, <1>2, <1>5, <1>6 DEF Types, InTypes, OutTypes

LEMMA TypesStep == Types /\ [Next]_vars => Types'
<1>1. SUFFICES ASSUME Types, [Next]_vars PROVE Types'
    OBVIOUS
<1>2. CASE UNCHANGED vars
    BY <1>1, <1>2 DEF Types, InTypes, OutTypes, StageTypes, vars, parser, sender, history
<1>3. CASE Next
    BY <1>1, <1>3, AskTypes, DeliverTypes, PeerReadsTypes, ReceiveTypes, NextLineTypes,
       TakeLineTypes, WritingTypes, WritevTypes DEF Next, ServerStep
<1>4. QED
    BY <1>1, <1>2, <1>3

(* Theorem: the parser keeps inside the buffer and the program in the      *)
(* stages the handlers know.                                               *)
THEOREM TypeCorrect == Spec => []TypeOK
<1>1. Spec => []Types
    BY TypesInit, TypesStep, PTL DEF Spec
<1>2. QED
    BY <1>1, TypesAre, PTL

-----------------------------------------------------------------------------
(* The answer under way: what _iv describes lies in what is sent, unless   *)
(* the parser goes on after the end of the connection was announced.       *)

Last == results[Len(results)]

Sending == stage = "write" \/ (stage = "wait" /\ armed = "out" /\ iov.to_send # 0)

InRange ==
    /\ iov.vec[1].base = "send"
    /\ iov.vec[1].len > 0 =>
         iov.vec[1].at >= 0 /\ iov.vec[1].at + iov.vec[1].len <= Len(send_buf)
    /\ iov.count = 2 =>
         /\ iov.to_send + iov.have_sent = Len(send_buf) + FileLen
         /\ iov.vec[2].base = "file"
         /\ \/ iov.vec[2].at = 0 /\ iov.vec[2].len = FileLen
            \/ /\ iov.vec[1].len = 0
               /\ iov.vec[2].at = iov.have_sent - Len(send_buf)
               /\ iov.vec[2].len = iov.to_send

StreamTypes == outbox \in Seq(Bytes) /\ got \in Seq(Bytes) /\ iov \in Iov

Idle ==
    /\ stage \in {"parse", "line"} \/ (stage = "wait" /\ armed = "in") => iov.to_send = 0
    /\ stage = "wait" => armed \in {"in", "out"}
    /\ stage \in {"parse", "line"} => ~Closed
    /\ stage \in {"wait", "parse", "line"} /\ iov.to_send = 0 /\ ~Closed =>
         send_buf = <<>> /\ iov.have_sent = 0

Answering ==
    Sending => /\ results # <<>>
               /\ Last.code \in Answered /\ Last.linger = task.linger
               /\ InRange

Stages == "closed" \notin faults => StreamTypes /\ Idle /\ Answering

LEMMA StagesInit == Init => Stages
<1>1. SUFFICES ASSUME Init PROVE Stages
    OBVIOUS
<1>2. NothingToSend \in Iov /\ NothingToSend.to_send = 0 /\ NothingToSend.have_sent = 0
    BY DEF NothingToSend, Iov, Entry, NoVec
<1>3. StreamTypes
    <2>1. <<>> \in Seq(Bytes)
        BY TuplesAre
    <2>2. QED
        BY <1>1, <1>2, <2>1 DEF Init, StreamTypes
<1>4. Idle /\ Answering
    BY <1>1, <1>2 DEF Init, Idle, Answering, Sending
<1>5. QED
    BY <1>3, <1>4 DEF Stages

(* What does not touch the answer keeps what is known of it. *)
LEMMA SameAnswer ==
    ASSUME results' = results, send_buf' = send_buf, iov' = iov
    PROVE  (Closed' <=> Closed) /\ (InRange' <=> InRange) /\ Last' = Last
BY DEF Closed, InRange, Last

LEMMA PeerStages ==
    ASSUME Types, Stages, Ask \/ Deliver \/ PeerReads
    PROVE  Stages'
<1>1. /\ results' = results /\ send_buf' = send_buf /\ iov' = iov /\ task' = task
      /\ armed' = armed /\ stage' = stage /\ faults' = faults
    BY DEF Ask, Deliver, PeerReads, sender, parser, history
<1>2. (Closed' <=> Closed) /\ (InRange' <=> InRange) /\ Last' = Last
    BY <1>1, SameAnswer
<1>3. ASSUME outbox \in Seq(Bytes), got \in Seq(Bytes)
      PROVE  outbox' \in Seq(Bytes) /\ got' \in Seq(Bytes)
    <2>1. CASE Ask \/ Deliver
        BY <1>3, <2>1 DEF Ask, Deliver, history
    <2>2. CASE PeerReads
        <3>1. IsConcat(got', got, outbox, Bytes)
            BY <1>3, <2>2, ConcatIs DEF PeerReads
        <3>2. got' \in Seq(Bytes)
            BY <3>1 DEF IsConcat
        <3>3. QED
            BY <2>2, <3>2, TuplesAre DEF PeerReads
    <2>3. QED
        BY <2>1, <2>2
<1>4. QED
    BY <1>1, <1>2, <1>3 DEF Stages, StreamTypes, Idle, Answering, Sending

LEMMA ReadingStages ==
    ASSUME Types, Stages, Receive \/ NextLine
    PROVE  Stages'
<1>1. /\ results' = results /\ send_buf' = send_buf /\ iov' = iov
      /\ outbox' = outbox /\ got' = got
    BY DEF Receive, NextLine, sender, history
<1>2. (Closed' <=> Closed) /\ (InRange' <=> InRange) /\ Last' = Last
    BY <1>1, SameAnswer
<1>3. CASE Receive
    <2>1. stage = "wait" /\ armed = "in" /\ armed' = "off" /\ stage' = "parse"
        BY <1>3 DEF Receive
    <2>2. "closed" \notin faults' => "closed" \notin faults /\ ~Closed
        BY <1>3 DEF Receive
    <2>3. QED
        BY <1>1, <1>2, <2>1, <2>2 DEF Stages, StreamTypes, Idle, Answering, Sending
<1>4. CASE NextLine
    <2>1. stage = "parse" /\ faults' = faults
        BY <1>4 DEF NextLine, history
    <2>2. stage' = "line" \/ (stage' = "wait" /\ armed' = "in")
        BY <1>4 DEF NextLine, ParseLine, NoRequest, FoundLine
    <2>3. QED
        BY <1>1, <1>2, <2>1, <2>2 DEF Stages, StreamTypes, Idle, Answering, Sending
<1>5. QED
    BY <1>3, <1>4

(* The entries of an answer of which nothing is sent. *)
Begun ==
    /\ iov \in Iov /\ iov.count \in {1, 2} /\ iov.have_sent = 0
    /\ send_buf \in Seq(Bytes) /\ Len(send_buf) \in Nat \ {0}
    /\ iov.to_send = Len(send_buf) + (IF iov.count = 2 THEN FileLen ELSE 0)
    /\ iov.vec[1].base = "send" /\ iov.vec[1].at = 0 /\ iov.vec[1].len = Len(send_buf)
    /\ iov.count = 2 =>
         iov.vec[2].base = "file" /\ iov.vec[2].at = 0 /\ iov.vec[2].len = FileLen

LEMMA RespondIs ==
    ASSUME Types, StreamTypes, Idle, stage = "line",
           NEW code \in Codes, NEW t \in Task, Respond(code, t)
    PROVE  /\ iov.to_send = 0
           /\ results' = Append(results, [code |-> code, linger |-> t.linger])
           /\ task' = t /\ armed' = "out" /\ stage' = "wait" /\ faults' = faults
           /\ code \in Answered =>
                /\ Begun'
                /\ promised' = promised \o send_buf'
                     \o (IF iov'.count = 2 THEN FileBytes(Len(results) + 1) ELSE <<>>)
           /\ code \notin Answered => UNCHANGED <<send_buf, iov, promised>>
<1>1. PICK n : n = Len(results) + 1
    OBVIOUS
<1>2. n \in Nat
    BY <1>1 DEF Types, OutTypes
<1>3. send_buf = <<>> /\ iov.have_sent = 0 /\ iov.to_send = 0 /\ iov \in Iov
    BY DEF Idle, StreamTypes
<1>4. PICK c : c = Composed(n, code)
    OBVIOUS
<1>5. c \in Seq(Bytes) /\ Len(c) \in Nat \ {0}
    BY <1>2, <1>4, ComposedIs
<1>6. PICK buf : buf = send_buf \o Composed(n, code)
    OBVIOUS
<1>7. buf = c
    BY <1>3, <1>4, <1>5, <1>6, EmptyConcat
<1>8. PICK page : page = (code = "FILE_REQUEST" /\ mode.site = "page")
    OBVIOUS
<1>9. ASSUME code \in Answered
      PROVE  /\ Begun'
             /\ promised' = promised \o send_buf'
                     \o (IF iov'.count = 2 THEN FileBytes(Len(results) + 1) ELSE <<>>)
    <2>1. PICK first : first = [base |-> "send", at |-> 0, len |-> Len(buf)]
        OBVIOUS
    <2>2. PICK second : second = IF page THEN [base |-> "file", at |-> 0, len |-> FileLen]
                                 ELSE iov.vec[2]
        OBVIOUS
    <2>3. PICK v : v = [iov EXCEPT !.vec = <<first, second>>,
                                   !.count = IF page THEN 2 ELSE 1,
                                   !.to_send = ToSend(buf, page)]
        OBVIOUS
    <2>4. send_buf' = buf /\ iov' = v
        BY <1>1, <1>6, <1>8, <1>9, <2>1, <2>2, <2>3 DEF Respond
    <2>5. /\ first \in Entry /\ second \in Entry
          /\ first.base = "send" /\ first.at = 0 /\ first.len = Len(c)
          /\ page => second.base = "file" /\ second.at = 0 /\ second.len = FileLen
        BY <1>3, <1>5, <1>7, <2>1, <2>2, Lengths DEF Entry, Iov
    <2>6. ToSend(buf, page) = Len(c) + (IF page THEN FileLen ELSE 0)
        BY <1>7 DEF ToSend
    <2>7. /\ v \in Iov /\ v.count = (IF page THEN 2 ELSE 1) /\ v.have_sent = 0
          /\ v.to_send = Len(c) + (IF page THEN FileLen ELSE 0)
          /\ v.vec[1] = first /\ v.vec[2] = second
        <3>1. PICK total : total = Len(c) + (IF page THEN FileLen ELSE 0)
            OBVIOUS
        <3>2. PICK count : count = IF page THEN 2 ELSE 1
            OBVIOUS
        <3>3. PICK vec : vec = <<first, second>>
            OBVIOUS
        <3>4. total \in Int
            BY <1>5, <3>1, Lengths
        <3>5. count \in 0 .. 2
            BY <3>2
        <3>6. vec \in Entry \X Entry /\ vec[1] = first /\ vec[2] = second
            BY <2>5, <3>3
        <3>7. v = [iov EXCEPT !.vec = vec, !.count = count, !.to_send = total]
            BY <2>3, <2>6, <3>1, <3>2, <3>3
        <3>8. /\ v \in Iov /\ v.count = count /\ v.have_sent = 0 /\ v.to_send = total
              /\ v.vec = vec
            BY <1>3, <3>4, <3>5, <3>6, <3>7 DEF Iov
        <3>9. QED
            BY <3>1, <3>2, <3>6, <3>8
    <2>8. Begun'
        BY <1>5, <1>7, <2>4, <2>5, <2>7 DEF Begun
    <2>9. promised' = promised \o c \o (IF page THEN FileBytes(n) ELSE <<>>)
        BY <1>1, <1>4, <1>8, <1>9 DEF Respond
    <2>10. page <=> iov'.count = 2
        BY <2>4, <2>7
    <2>11. QED
        BY <1>1, <1>7, <2>4, <2>8, <2>9, <2>10
<1>10. QED
    BY <1>1, <1>3, <1>9 DEF Respond

LEMMA BegunInRange == Begun => InRange
BY Lengths DEF Begun, InRange

LEMMA RespondStages ==
    ASSUME Types, Stages, stage = "line", outbox' = outbox, got' = got,
           NEW code \in Codes, NEW t \in Task, Respond(code, t)
    PROVE  Stages'
<1>1. SUFFICES ASSUME "closed" \notin faults' PROVE StreamTypes' /\ Idle' /\ Answering'
    BY DEF Stages
<1>2. "closed" \notin faults
    BY <1>1 DEF Respond
<1>3. StreamTypes /\ Idle
    BY <1>2 DEF Stages
<1>4. /\ iov.to_send = 0
      /\ results' = Append(results, [code |-> code, linger |-> t.linger])
      /\ task' = t /\ armed' = "out" /\ stage' = "wait"
      /\ code \in Answered => Begun'
      /\ code \notin Answered => UNCHANGED <<send_buf, iov>>
    BY <1>3, RespondIs
<1>5. /\ results' # <<>> /\ Last'.code = code /\ Last'.linger = t.linger
    <2>1. PICK x : x = [code |-> code, linger |-> t.linger]
        OBVIOUS
    <2>2. x \in Result /\ x.code = code /\ x.linger = t.linger
        BY <2>1 DEF Result, Task
    <2>3. PICK u : u = Append(results, x)
        OBVIOUS
    <2>4. /\ u \in Seq(Result) /\ Len(results) \in Nat /\ Len(u) = Len(results) + 1
          /\ u[Len(results) + 1] = x
        BY <2>2, <2>3, AppendIs DEF Types, OutTypes
    <2>5. u # <<>> /\ u[Len(u)] = x
        BY <2>4, TuplesAre
    <2>6. QED
        BY <1>4, <2>1, <2>2, <2>3, <2>5 DEF Last
<1>6. CASE code \in Answered
    <2>1. InRange' /\ iov' \in Iov /\ iov'.to_send # 0
        <3>1. (Begun => InRange)'
            BY BegunInRange, PTL
        <3>2. iov'.to_send # 0
            BY <1>4, <1>6, Lengths DEF Begun
        <3>3. QED
            BY <1>4, <1>6, <3>1, <3>2 DEF Begun
    <2>2. QED
        BY <1>3, <1>4, <1>5, <1>6, <2>1 DEF StreamTypes, Idle, Answering, Sending
<1>7. CASE code \notin Answered
    <2>1. send_buf = <<>> /\ iov.have_sent = 0 
        BY <1>3, <1>4 DEF Idle
    <2>2. QED
        BY <1>3, <1>4, <1>5, <1>7, <2>1 DEF StreamTypes, Idle, Answering, Sending
<1>8. QED
    BY <1>6, <1>7

LEMMA DiesStages ==
    ASSUME Types, Stages, stage = "line", outbox' = outbox, got' = got, NEW t, Dies(t)
    PROVE  Stages'
BY DEF Dies, Stages, StreamTypes, Idle, Answering, Sending, sender

LEMMA DealRequestStages ==
    ASSUME Types, Stages, stage = "line", outbox' = outbox, got' = got,
           NEW t \in Task, NEW buf, DealRequest(t, buf)
    PROVE  Stages'
<1>1. PICK target : target = LastSlash(StringAt(buf, t.url))
    OBVIOUS
<1>2. CASE Respond("GET_REQUEST", t)
    BY <1>2, RespondStages, CodesAre
<1>3. CASE Respond(CodeOf(target), t)
    BY <1>3, RespondStages, CodesAre
<1>4. CASE Dies(t)
    BY <1>4, DiesStages
<1>5. QED
    BY <1>1, <1>2, <1>3, <1>4 DEF DealRequest

LEMMA ContinueStages ==
    ASSUME Types, Stages, stage = "line", outbox' = outbox, got' = got,
           NEW t, Continue(t)
    PROVE  Stages'
<1>1. /\ results' = results /\ send_buf' = send_buf /\ iov' = iov
      /\ faults' = faults /\ stage' = "parse"
    BY DEF Continue, sender
<1>2. Closed' <=> Closed
    BY <1>1, SameAnswer
<1>3. QED
    BY <1>1, <1>2 DEF Stages, StreamTypes, Idle, Answering, Sending

(* The cases of TakeLine. *)
LEMMA TakeLineIs ==
    ASSUME Types, TakeLine
    PROVE  /\ UNCHANGED <<mode, wire, inbox, outbox, asked, got>> /\ stage = "line"
           /\ \/ \E t \in Task : Continue(t)
              \/ \E t \in Task : Respond("BAD_REQUEST", t)
              \/ \E t \in Task : Dies(t)
              \/ \E t \in Task : \E buf \in {recv_buf, recv_buf'} : DealRequest(t, buf)
<1>1. task.start_line \in 0 .. BufSize /\ Passed \in Task
    BY PassedIs
<1>2. PICK at \in 0 .. BufSize : at = task.start_line
    BY <1>1
<1>3. PICK p \in Task : p = Passed
    BY <1>1
<1>4. RequestLine(at, p) \/ Header(at, p) \/ Content(at, p)
    BY <1>2, <1>3 DEF TakeLine, Passed, Types, InTypes, Task
<1>5. PICK text : text = StringAt(recv_buf, at)
    OBVIOUS
<1>6. ASSUME RequestLine(at, p)
      PROVE  \E t \in Task : Continue(t) \/ Dies(t) \/ Respond("BAD_REQUEST", t)
    BY <1>6, RequestLineIs DEF RequestLineEnds
<1>7. ASSUME Header(at, p)
      PROVE  (\E t \in Task : Continue(t)) \/ DealRequest(p, recv_buf)
    <2>1. PICK u : u = [p EXCEPT !.check_state = "CONTENT"]
        OBVIOUS
    <2>2. PICK v : v = [p EXCEPT !.linger = @ \/ text = <<"keep">>,
                                 !.content_length = IF text = <<"length">> THEN BodyLen ELSE @]
        OBVIOUS
    <2>3. u \in Task /\ v \in Task
        BY <2>1, <2>2 DEF Task
    <2>4. Continue(u) \/ DealRequest(p, recv_buf) \/ Continue(v)
        BY <1>5, <1>7, <2>1, <2>2 DEF Header
    <2>5. QED
        BY <2>3, <2>4
<1>8. ASSUME Content(at, p)
      PROVE  (\E t \in Task : Continue(t)) \/ DealRequest(p, recv_buf')
    <2>1. PICK u : u = [p EXCEPT !.line_status = "OPEN"]
        OBVIOUS
    <2>2. u \in Task
        BY <2>1 DEF Task
    <2>3. Continue(u) \/ DealRequest(p, recv_buf')
        BY <1>8, <2>1 DEF Content
    <2>4. QED
        BY <2>2, <2>3
<1>9. QED
    BY <1>4, <1>6, <1>7, <1>8 DEF TakeLine

LEMMA TakeLineStages ==
    ASSUME Types, Stages, TakeLine
    PROVE  Stages'
<1>1. outbox' = outbox /\ got' = got /\ stage = "line"
    BY TakeLineIs
<1>2. ASSUME NEW t \in Task, Continue(t) PROVE Stages'
    BY <1>1, <1>2, ContinueStages
<1>3. ASSUME NEW t \in Task, Respond("BAD_REQUEST", t) PROVE Stages'
    BY <1>1, <1>3, RespondStages, CodesAre
<1>4. ASSUME NEW t \in Task, Dies(t) PROVE Stages'
    BY <1>1, <1>4, DiesStages
<1>5. ASSUME NEW t \in Task, NEW buf, DealRequest(t, buf) PROVE Stages'
    BY <1>1, <1>5, DealRequestStages
<1>6. QED
    BY <1>2, <1>3, <1>4, <1>5, TakeLineIs

-----------------------------------------------------------------------------
(* writev *)

LEMMA EmptySub ==
    ASSUME NEW S, NEW s \in Seq(S), NEW m \in Int, NEW n \in Int, n < m
    PROVE  SubSeq(s, m, n) = <<>>
OBVIOUS

(* What is asked of the kernel is part of the answer. *)
LEMMA GatheredIs ==
    ASSUME Types, iov \in Iov, InRange, ~Astray
    PROVE  Gathered \in Seq(Bytes) /\ Len(Gathered) \in Nat
<1>1. PICK v : v = iov.vec[1]
    OBVIOUS
<1>2. PICK w : w = iov.vec[2]
    OBVIOUS
<1>3. v \in Entry /\ w \in Entry /\ iov.count \in 0 .. 2
    BY <1>1, <1>2 DEF Iov
<1>4. /\ v.at \in Int /\ v.len \in Int /\ v.len >= 0
      /\ w.at \in Int /\ w.len \in Int /\ send_buf \in Seq(Bytes)
    BY <1>1, <1>3 DEF Entry, Astray, Types, OutTypes
<1>5. PICK f : f = FileBytes(Len(results))
    OBVIOUS
<1>6. f \in Seq(Bytes) /\ Len(f) = FileLen
    BY <1>5, ComposedIs DEF Types, OutTypes
<1>7. ASSUME NEW s \in Seq(Bytes), NEW at \in Int, NEW len \in Int,
             len <= 0 \/ (at >= 0 /\ at + len <= Len(s))
      PROVE  SubSeq(s, at + 1, at + len) \in Seq(Bytes)
    <2>1. CASE len <= 0
        <3>1. at + 1 \in Int /\ at + len \in Int /\ at + len < at + 1
            BY <2>1
        <3>2. SubSeq(s, at + 1, at + len) = <<>>
            BY <3>1, EmptySub
        <3>3. QED
            BY <3>2, TuplesAre
    <2>2. CASE len > 0
        <3>1. at + 1 \in 1 .. Len(s) + 1 /\ at + len \in (at + 1) - 1 .. Len(s)
            BY <1>7, <2>2
        <3>2. PICK u : u = SubSeq(s, at + 1, at + len)
            OBVIOUS
        <3>3. IsSub(u, s, at + 1, at + len, Bytes)
            BY <3>1, <3>2, SubIs
        <3>4. QED
            BY <3>2, <3>3 DEF IsSub
    <2>3. QED
        BY <2>1, <2>2
<1>8. PICK a : a = Slice(v)
    OBVIOUS
<1>9. a \in Seq(Bytes)
    <2>1. v.base = "send" /\ (v.len > 0 => v.at >= 0 /\ v.at + v.len <= Len(send_buf))
        BY <1>1 DEF InRange
    <2>2. a = SubSeq(send_buf, v.at + 1, v.at + v.len)
        BY <1>8, <2>1 DEF Slice
    <2>3. v.len <= 0 \/ (v.at >= 0 /\ v.at + v.len <= Len(send_buf))
        BY <1>4, <2>1
    <2>4. QED
        BY <1>4, <1>7, <2>2, <2>3
<1>10. PICK b : b = Slice(w)
    OBVIOUS
<1>11. iov.count = 2 => b \in Seq(Bytes)
    <2>1. SUFFICES ASSUME iov.count = 2 PROVE b \in Seq(Bytes)
        OBVIOUS
    <2>2. w.base = "file" /\ (w.len <= 0 \/ w.at >= 0)
        BY <1>2, <1>4, <2>1 DEF InRange, Astray
    <2>3. w.at + w.len = FileLen
        <3>1. iov.to_send \in Int /\ iov.have_sent \in Int /\ Len(send_buf) \in Int
            BY <1>4 DEF Iov
        <3>2. FileLen \in Int
            BY Lengths
        <3>3. \/ w.at = 0 /\ w.len = FileLen
              \/ /\ w.at = iov.have_sent - Len(send_buf) /\ w.len = iov.to_send
                 /\ iov.to_send + iov.have_sent = Len(send_buf) + FileLen
            BY <1>2, <2>1 DEF InRange
        <3>4. QED
            BY <3>1, <3>2, <3>3
    <2>4. b = SubSeq(f, w.at + 1, w.at + w.len)
        BY <1>5, <1>10, <2>2 DEF Slice
    <2>5. w.len <= 0 \/ (w.at >= 0 /\ w.at + w.len <= Len(f))
        BY <1>4, <1>6, <2>2, <2>3, Lengths
    <2>6. QED
        BY <1>4, <1>6, <1>7, <2>4, <2>5
<1>12. PICK c : c = IF iov.count = 2 THEN b ELSE <<>>
    OBVIOUS
<1>13. c \in Seq(Bytes)
    BY <1>11, <1>12, TuplesAre
<1>14. PICK g : g = a \o c
    OBVIOUS
<1>15. Gathered = g
    BY <1>1, <1>2, <1>8, <1>10, <1>12, <1>14 DEF Gathered
<1>16. IsConcat(g, a, c, Bytes)
    BY <1>9, <1>13, <1>14, ConcatIs
<1>17. QED
    BY <1>15, <1>16 DEF IsConcat

(* The head is counted as sent. *)
Over(n) == AtLeast(iov.have_sent + n, iov.vec[1].len)

(* The entries after writev has returned n. *)
IsSent(s, n) ==
    /\ s \in Iov /\ s.count = iov.count
    /\ s.to_send = iov.to_send - n /\ s.have_sent = iov.have_sent + n
    /\ s.vec[1].base = iov.vec[1].base
    /\ Over(n) =>
         /\ s.vec[1].len = 0
         /\ s.vec[2].base = "file" /\ s.vec[2].len = iov.to_send - n
         /\ s.vec[2].at = iov.have_sent + n - Len(send_buf)
    /\ ~Over(n) =>
         /\ s.vec[1].at = iov.have_sent + n
         /\ s.vec[1].len = iov.vec[1].len - (iov.have_sent + n)
         /\ s.vec[2] = iov.vec[2]

LEMMA SentIs ==
    ASSUME Types, iov \in Iov, NEW n \in Int, NEW s, s = Sent(n)
    PROVE  IsSent(s, n)
<1>1. PICK v : v = iov.vec[1]
    OBVIOUS
<1>2. PICK w : w = iov.vec[2]
    OBVIOUS
<1>3. PICK have : have = iov.have_sent + n
    OBVIOUS
<1>4. /\ v \in Entry /\ w \in Entry /\ have \in Int /\ iov.to_send - n \in Int
      /\ iov.have_sent \in Int /\ Len(send_buf) \in Int
    BY <1>1, <1>2, <1>3 DEF Iov, Types, OutTypes
<1>5. PICK rest : rest = Rest(n)
    OBVIOUS
<1>6. CASE Over(n)
    <2>1. PICK v2 : v2 = [v EXCEPT !.len = 0]
        OBVIOUS
    <2>2. PICK w2 : w2 = [base |-> "file", at |-> have - Len(send_buf),
                          len |-> iov.to_send - n]
        OBVIOUS
    <2>3. rest = <<v2, w2>>
        BY <1>1, <1>3, <1>5, <1>6, <2>1, <2>2 DEF Rest, Over
    <2>4. v2 \in Entry /\ w2 \in Entry /\ v2.base = v.base /\ v2.len = 0
        BY <1>4, <2>1, <2>2 DEF Entry
    <2>5. rest \in Entry \X Entry /\ rest[1] = v2 /\ rest[2] = w2
        BY <2>3, <2>4
    <2>6. s = [iov EXCEPT !.vec = rest, !.to_send = @ - n, !.have_sent = @ + n]
        BY <1>5 DEF Sent
    <2>7. /\ s \in Iov /\ s.count = iov.count /\ s.vec = rest
          /\ s.to_send = iov.to_send - n /\ s.have_sent = have
        BY <1>3, <1>4, <2>5, <2>6 DEF Iov
    <2>8. /\ w2.base = "file" /\ w2.at = have - Len(send_buf)
          /\ w2.len = iov.to_send - n
        BY <2>2
    <2>9. w2.at = iov.have_sent + n - Len(send_buf)
        BY <1>3, <1>4, <2>8
    <2>10. QED
        BY <1>1, <1>3, <1>6, <2>4, <2>5, <2>7, <2>8, <2>9 DEF IsSent
<1>7. CASE ~Over(n)
    <2>1. PICK v2 : v2 = [v EXCEPT !.at = have, !.len = v.len - have]
        OBVIOUS
    <2>2. rest = <<v2, w>>
        BY <1>1, <1>2, <1>3, <1>5, <1>7, <2>1 DEF Rest, Over
    <2>3. v2 \in Entry /\ v2.base = v.base /\ v2.at = have /\ v2.len = v.len - have
        <3>1. v.len - have \in Int
            BY <1>4 DEF Entry
        <3>2. QED
            BY <1>4, <2>1, <3>1 DEF Entry
    <2>4. rest \in Entry \X Entry /\ rest[1] = v2 /\ rest[2] = w
        BY <1>4, <2>2, <2>3
    <2>5. s = [iov EXCEPT !.vec = rest, !.to_send = @ - n, !.have_sent = @ + n]
        BY <1>5 DEF Sent
    <2>6. /\ s \in Iov /\ s.count = iov.count /\ s.vec = rest
          /\ s.to_send = iov.to_send - n /\ s.have_sent = have
        BY <1>3, <1>4, <2>4, <2>5 DEF Iov
    <2>7. QED
        BY <1>1, <1>2, <1>3, <1>7, <2>3, <2>4, <2>6 DEF IsSent
<1>8. QED
    BY <1>6, <1>7

LEMMA SentInRange ==
    ASSUME Types, iov \in Iov, InRange, NEW n \in Int,
           iov' = Sent(n), send_buf' = send_buf
    PROVE  iov' \in Iov /\ InRange'
<1>1. PICK s : s = Sent(n)
    OBVIOUS
<1>2. /\ s \in Iov /\ s.count = iov.count
      /\ s.to_send = iov.to_send - n /\ s.have_sent = iov.have_sent + n
      /\ s.vec[1].base = iov.vec[1].base
      /\ Over(n) =>
                /\ s.vec[1].len = 0
                /\ s.vec[2].base = "file" /\ s.vec[2].len = iov.to_send - n
                /\ s.vec[2].at = iov.have_sent + n - Len(send_buf)
      /\ ~Over(n) =>
                /\ s.vec[1].at = iov.have_sent + n
                /\ s.vec[1].len = iov.vec[1].len - (iov.have_sent + n)
                /\ s.vec[2] = iov.vec[2]
    <2>1. IsSent(s, n)
        BY <1>1, SentIs
    <2>2. QED
        BY <2>1 DEF IsSent
<1>3. PICK v : v = iov.vec[1]
    OBVIOUS
<1>4. PICK w : w = iov.vec[2]
    OBVIOUS
<1>5. /\ v.at \in Int /\ v.len \in Int /\ w.at \in Int /\ w.len \in Int
      /\ iov.to_send \in Int /\ iov.have_sent \in Int /\ Len(send_buf) \in Int
      /\ FileLen \in Int
    BY <1>3, <1>4, Lengths DEF Iov, Entry, Types, OutTypes
<1>6. CASE Over(n)
    <2>1. PICK sv : sv = s.vec[1]
        OBVIOUS
    <2>2. PICK sw : sw = s.vec[2]
        OBVIOUS
    <2>3. iov' = s /\ iov'.vec[1] = sv /\ iov'.vec[2] = sw /\ iov'.count = iov.count
        BY <1>1, <1>2, <2>1, <2>2
    <2>4. /\ sv.len = 0 /\ sv.base = "send" /\ sw.base = "file"
          /\ sw.at = s.have_sent - Len(send_buf) /\ sw.len = s.to_send
        <3>1. iov.vec[1].base = "send"
            BY DEF InRange
        <3>2. QED
            BY <1>2, <1>5, <1>6, <2>1, <2>2, <3>1
    <2>5. iov.count = 2 => s.to_send + s.have_sent = Len(send_buf) + FileLen
        <3>1. iov.count = 2 => iov.to_send + iov.have_sent = Len(send_buf) + FileLen
            BY DEF InRange
        <3>2. s.to_send + s.have_sent = iov.to_send + iov.have_sent
            BY <1>2, <1>5
        <3>3. QED
            BY <3>1, <3>2
    <2>6. QED
        BY <1>2, <2>3, <2>4, <2>5 DEF InRange
<1>7. CASE ~Over(n)
    <2>1. iov.have_sent + n >= 0 /\ iov.have_sent + n < v.len
        BY <1>3, <1>5, <1>7 DEF AtLeast, Over
    <2>2. v.len > 0 /\ v.len <= Len(send_buf)
        <3>1. v.len > 0
            BY <1>5, <2>1
        <3>2. v.at >= 0 /\ v.at + v.len <= Len(send_buf)
            BY <1>3, <3>1 DEF InRange
        <3>3. QED
            BY <1>5, <3>1, <3>2
    <2>3. iov.count = 2 => w.base = "file" /\ w.at = 0 /\ w.len = FileLen
        BY <1>3, <1>4, <2>2 DEF InRange
    <2>4. QED
        <3>1. PICK sv : sv = s.vec[1]
            OBVIOUS
        <3>2. iov' = s /\ iov'.vec[1] = sv /\ iov'.vec[2] = w /\ iov'.count = iov.count
            BY <1>1, <1>2, <1>4, <1>7, <3>1
        <3>3. sv.at = iov.have_sent + n /\ sv.len = v.len - (iov.have_sent + n)
            BY <1>2, <1>3, <1>7, <3>1
        <3>4. sv.at >= 0 /\ sv.at + sv.len <= Len(send_buf)
            BY <1>5, <2>1, <2>2, <3>3
        <3>5. sv.base = "send"
            BY <1>2, <3>1 DEF InRange
        <3>6. iov.count = 2 => s.to_send + s.have_sent = Len(send_buf) + FileLen
            <4>1. iov.count = 2 => iov.to_send + iov.have_sent = Len(send_buf) + FileLen
                BY DEF InRange
            <4>2. s.to_send + s.have_sent = iov.to_send + iov.have_sent
                BY <1>2, <1>5
            <4>3. QED
                BY <4>1, <4>2
        <3>7. QED
            BY <1>2, <2>3, <3>2, <3>4, <3>5, <3>6 DEF InRange
<1>8. QED
    BY <1>3, <1>6, <1>7

(* What is written is the beginning of what was asked, and not more than   *)
(* the kernel has room for.                                                *)
LEMMA WrittenIs ==
    ASSUME Types, StreamTypes, InRange, Writev
    PROVE  /\ Gathered \in Seq(Bytes) /\ Written \in 1 .. Len(Gathered)
           /\ SubSeq(Gathered, 1, Written) \in Seq(Bytes)
           /\ SubSeq(Gathered, Written + 1, Len(Gathered)) \in Seq(Bytes)
           /\ SubSeq(Gathered, 1, Written) \o SubSeq(Gathered, Written + 1, Len(Gathered))
                = Gathered
<1>1. Gathered \in Seq(Bytes) /\ Len(Gathered) \in Nat /\ Gathered # <<>>
    BY GatheredIs DEF StreamTypes, Writev
<1>2. PICK g : g = Gathered
    OBVIOUS
<1>3. g \in Seq(Bytes) /\ Len(g) \in Nat /\ Len(g) # 0
    <2>1. g \in Seq(Bytes) /\ g # <<>>
        BY <1>1, <1>2
    <2>2. QED
        BY <2>1
<1>4. PICK free : free = mode.room - Len(outbox)
    OBVIOUS
<1>5. free \in Nat \ {0}
    <2>1. mode.room \in Nat \ {0}
        BY HttpAssumption DEF Types, InTypes, ModeType
    <2>2. Len(outbox) \in Nat /\ Len(outbox) < mode.room
        BY DEF StreamTypes, Writev
    <2>3. QED
        BY <1>4, <2>1, <2>2
<1>6. PICK n : n = IF Len(g) < free THEN Len(g) ELSE free
    OBVIOUS
<1>7. n \in 1 .. Len(g) /\ n \in 0 .. Len(g)
    BY <1>3, <1>5, <1>6
<1>8. Written = n
    BY <1>2, <1>4, <1>6 DEF Written
<1>9. /\ SubSeq(g, 1, n) \in Seq(Bytes) /\ SubSeq(g, n + 1, Len(g)) \in Seq(Bytes)
      /\ SubSeq(g, 1, n) \o SubSeq(g, n + 1, Len(g)) = g
    BY <1>3, <1>7, Split
<1>10. QED
    BY <1>2, <1>3, <1>7, <1>8, <1>9

LEMMA WritevStages ==
    ASSUME Types, Stages, Writev
    PROVE  Stages'
<1>1. SUFFICES ASSUME "closed" \notin faults' PROVE StreamTypes' /\ Idle' /\ Answering'
    BY DEF Stages
<1>2. "closed" \notin faults
    BY <1>1, WritevIs
<1>3. StreamTypes /\ Idle /\ Answering /\ stage = "write"
    BY <1>2 DEF Stages, Writev
<1>4. /\ results # <<>> /\ Last.code \in Answered /\ Last.linger = task.linger /\ InRange
    BY <1>3 DEF Answering, Sending
<1>5. PICK n \in Int : n = Written
    BY <1>3, <1>4, WrittenIs
<1>6. PICK out : out = SubSeq(Gathered, 1, n)
    OBVIOUS
<1>7. outbox' \in Seq(Bytes) /\ got' \in Seq(Bytes)
    <2>1. out \in Seq(Bytes)
        BY <1>3, <1>4, <1>5, <1>6, WrittenIs
    <2>2. IsConcat(outbox', outbox, out, Bytes)
        BY <1>3, <1>5, <1>6, <2>1, ConcatIs, WritevIs DEF StreamTypes
    <2>3. QED
        BY <1>3, <2>2, WritevIs DEF StreamTypes, IsConcat
<1>8. results' = results /\ (Closed' <=> Closed) /\ Last' = Last
    BY WritevIs DEF Closed, Last
<1>9. CASE iov.to_send = n /\ (GoesOn(n) \/ DiesAtUnmap(n))
    <2>1. PICK s : s = Sent(n)
        OBVIOUS
    <2>2. s \in Iov /\ s.to_send = 0
        <3>1. iov \in Iov /\ iov.to_send \in Int
            BY <1>3 DEF StreamTypes, Iov
        <3>2. s \in Iov /\ s.to_send = iov.to_send - n
            <4>1. IsSent(s, n)
                BY <2>1, <3>1, SentIs
            <4>2. QED
                BY <4>1 DEF IsSent
        <3>3. QED
            BY <1>9, <3>1, <3>2
    <2>3. CASE GoesOn(n) /\ task.linger
        <3>1. /\ send_buf' = <<>> /\ iov' = [s EXCEPT !.to_send = 0, !.have_sent = 0]
            BY <2>1, <2>3 DEF GoesOn, Linger
        <3>2. iov' \in Iov /\ iov'.to_send = 0 /\ iov'.have_sent = 0
            BY <2>2, <3>1 DEF Iov
        <3>3. QED
            BY <1>7, <2>3, <3>1, <3>2 DEF GoesOn, StreamTypes, Idle, Answering, Sending
    <2>4. CASE GoesOn(n) /\ ~task.linger
        <3>1. Closed
            BY <1>4, <2>4 DEF Closed, Last
        <3>2. iov' = s
            BY <2>1, <2>4 DEF GoesOn, Linger
        <3>3. QED
            BY <1>7, <1>8, <2>2, <2>4, <3>1, <3>2
               DEF GoesOn, StreamTypes, Idle, Answering, Sending
    <2>5. CASE DiesAtUnmap(n)
        BY <1>7, <2>1, <2>2, <2>5 DEF DiesAtUnmap, StreamTypes, Idle, Answering, Sending
    <2>6. QED
        BY <1>9, <2>3, <2>4, <2>5
<1>10. CASE /\ iov' = Sent(n)
            /\ UNCHANGED <<parser, send_buf, map, armed, stage>>
    <2>1. iov' \in Iov /\ InRange'
        BY <1>3, <1>4, <1>10, SentInRange DEF StreamTypes
    <2>2. QED
        BY <1>3, <1>4, <1>7, <1>8, <1>10, <2>1
           DEF StreamTypes, Idle, Answering, Sending, parser
<1>11. QED
    BY <1>5, <1>9, <1>10, WritevIs, FinishedIs

LEMMA ClearedIs ==
    ASSUME NEW v \in Iov, NEW w, w = [v EXCEPT !.to_send = 0, !.have_sent = 0]
    PROVE  w \in Iov /\ w.to_send = 0 /\ w.have_sent = 0
<1>1. PICK E : E = Entry \X Entry
    OBVIOUS
<1>2. v \in [vec : E, count : 0 .. 2, to_send : Int, have_sent : Int]
    BY <1>1 DEF Iov
<1>3. w \in [vec : E, count : 0 .. 2, to_send : Int, have_sent : Int]
    <2>1. v.vec \in E /\ v.count \in 0 .. 2
        BY <1>2
    <2>2. w = [vec |-> v.vec, count |-> v.count, to_send |-> 0, have_sent |-> 0]
        BY <1>2
    <2>3. QED
        BY <2>1, <2>2
<1>4. w.to_send = 0 /\ w.have_sent = 0
    BY <1>2
<1>5. QED
    BY <1>1, <1>3, <1>4 DEF Iov

LEMMA WritingStages ==
    ASSUME Types, Stages, NothingToWrite \/ StartWriting \/ WouldBlock \/ GoesAstray
    PROVE  Stages'
<1>1. SUFFICES ASSUME "closed" \notin faults' PROVE StreamTypes' /\ Idle' /\ Answering'
    BY DEF Stages
<1>2. "closed" \notin faults
    BY <1>1 DEF NothingToWrite, StartWriting, WouldBlock, GoesAstray, history
<1>3. StreamTypes /\ Idle /\ Answering
    BY <1>2 DEF Stages
<1>4. /\ results' = results /\ (Closed' <=> Closed) /\ Last' = Last
      /\ outbox' = outbox /\ got' = got
    BY DEF NothingToWrite, StartWriting, WouldBlock, GoesAstray, history, Closed, Last
<1>5. CASE NothingToWrite
    <2>1. /\ stage' = "wait" /\ armed' = "in" /\ send_buf' = <<>>
          /\ iov' = [iov EXCEPT !.to_send = 0, !.have_sent = 0]
        BY <1>5 DEF NothingToWrite, InitData
    <2>2. iov' \in Iov /\ iov'.to_send = 0 /\ iov'.have_sent = 0
        <3>1. PICK v : v = iov
            OBVIOUS
        <3>2. PICK w : w = [v EXCEPT !.to_send = 0, !.have_sent = 0]
            OBVIOUS
        <3>3. v \in Iov
            BY <1>3, <3>1 DEF StreamTypes
        <3>4. w \in Iov /\ w.to_send = 0 /\ w.have_sent = 0
            BY <3>2, <3>3, ClearedIs
        <3>5. iov' = w
            BY <2>1, <3>1, <3>2
        <3>6. QED
            BY <3>4, <3>5
    <2>3. QED
        BY <1>3, <1>4, <2>1, <2>2 DEF StreamTypes, Idle, Answering, Sending
<1>6. CASE StartWriting
    <2>1. /\ stage = "wait" /\ armed = "out" /\ iov.to_send # 0 /\ stage' = "write"
          /\ iov' = iov /\ send_buf' = send_buf /\ task' = task
        BY <1>6 DEF StartWriting, sender, parser
    <2>2. InRange' <=> InRange
        BY <1>4, <2>1, SameAnswer
    <2>3. QED
        BY <1>3, <1>4, <2>1, <2>2 DEF StreamTypes, Idle, Answering, Sending
<1>7. CASE WouldBlock
    <2>1. /\ stage = "write" /\ stage' = "write" /\ iov' = Sent(-1)
          /\ send_buf' = send_buf /\ task' = task
        BY <1>7 DEF WouldBlock, parser
    <2>2. results # <<>> /\ Last.code \in Answered /\ Last.linger = task.linger /\ InRange
        BY <1>3, <2>1 DEF Answering, Sending
    <2>3. -1 \in Int
        OBVIOUS
    <2>4. iov' \in Iov /\ InRange'
        BY <1>3, <2>1, <2>2, <2>3, SentInRange DEF StreamTypes
    <2>5. QED
        BY <1>3, <1>4, <2>1, <2>2, <2>4 DEF StreamTypes, Idle, Answering, Sending
<1>8. CASE GoesAstray
    BY <1>3, <1>4, <1>8 DEF GoesAstray, sender, StreamTypes, Idle, Answering, Sending
<1>9. QED
    BY <1>5, <1>6, <1>7, <1>8

LEMMA StagesStep == Types /\ Stages /\ [Next]_vars => Stages'
<1>1. SUFFICES ASSUME Types, Stages, [Next]_vars PROVE Stages'
    OBVIOUS
<1>2. CASE UNCHANGED vars
    <2>1. /\ results' = results /\ send_buf' = send_buf /\ iov' = iov /\ task' = task
          /\ armed' = armed /\ stage' = stage /\ faults' = faults
          /\ outbox' = outbox /\ got' = got
        BY <1>2 DEF vars, sender, parser, history
    <2>2. (Closed' <=> Closed) /\ (InRange' <=> InRange) /\ Last' = Last
        BY <2>1, SameAnswer
    <2>3. QED
        BY <1>1, <2>1, <2>2 DEF Stages, StreamTypes, Idle, Answering, Sending
<1>3. CASE Next
    BY <1>1, <1>3, PeerStages, ReadingStages, TakeLineStages, WritingStages, WritevStages
       DEF Next, ServerStep
<1>4. QED
    BY <1>1, <1>2, <1>3

-----------------------------------------------------------------------------
(* The entries describe what is left of the answer, while writev stops     *)
(* inside a head once at most.                                             *)

LEMMA RestOfRest ==
    ASSUME NEW S, NEW s \in Seq(S), NEW h \in 0 .. Len(s), NEW n \in 0 .. Len(s) - h
    PROVE  /\ Len(SubSeq(s, h + 1, Len(s))) = Len(s) - h
           /\ SubSeq(SubSeq(s, h + 1, Len(s)), n + 1, Len(s) - h)
                = SubSeq(s, h + n + 1, Len(s))
<1>1. PICK a : a = SubSeq(s, h + 1, Len(s))
    OBVIOUS
<1>2. IsSub(a, s, h + 1, Len(s), S)
    <2>1. h + 1 \in 1 .. Len(s) + 1 /\ Len(s) \in (h + 1) - 1 .. Len(s)
        OBVIOUS
    <2>2. QED
        BY <1>1, <2>1, SubIs
<1>3. a \in Seq(S) /\ Len(a) = Len(s) - h /\ \A i \in 1 .. Len(a) : a[i] = s[h + i]
    BY <1>2 DEF IsSub
<1>4. PICK b : b = SubSeq(a, n + 1, Len(a))
    OBVIOUS
<1>5. IsSub(b, a, n + 1, Len(a), S)
    <2>1. n + 1 \in 1 .. Len(a) + 1 /\ Len(a) \in (n + 1) - 1 .. Len(a)
        BY <1>3
    <2>2. QED
        BY <1>3, <1>4, <2>1, SubIs
<1>6. b \in Seq(S) /\ Len(b) = Len(s) - h - n /\ \A i \in 1 .. Len(b) : b[i] = a[n + i]
    BY <1>3, <1>5 DEF IsSub
<1>7. PICK c : c = SubSeq(s, h + n + 1, Len(s))
    OBVIOUS
<1>8. IsSub(c, s, h + n + 1, Len(s), S)
    <2>1. h + n + 1 \in 1 .. Len(s) + 1 /\ Len(s) \in (h + n + 1) - 1 .. Len(s)
        OBVIOUS
    <2>2. QED
        BY <1>7, <2>1, SubIs
<1>9. c \in Seq(S) /\ Len(c) = Len(s) - h - n /\ \A i \in 1 .. Len(c) : c[i] = s[h + n + i]
    BY <1>8 DEF IsSub
<1>10. ASSUME NEW i \in 1 .. Len(b) PROVE b[i] = c[i]
    <2>1. n + i \in 1 .. Len(a) /\ h + (n + i) = h + n + i /\ i \in 1 .. Len(c)
        BY <1>3, <1>6, <1>9
    <2>2. b[i] = a[n + i] /\ a[n + i] = s[h + (n + i)] /\ c[i] = s[h + n + i]
        BY <1>3, <1>6, <1>9, <2>1
    <2>3. QED
        BY <2>1, <2>2
<1>11. b = c
    BY <1>6, <1>9, <1>10, SameSeq
<1>12. QED
    BY <1>1, <1>3, <1>4, <1>7, <1>11

(* What is left of u, which is s \o t, behind its first h members. *)
IsRest(u, h, s, t) ==
    /\ h <= Len(s) => SubSeq(u, h + 1, Len(u)) = SubSeq(s, h + 1, Len(s)) \o t
    /\ h >= Len(s) => SubSeq(u, h + 1, Len(u)) = SubSeq(t, h - Len(s) + 1, Len(t))

LEMMA RestOfConcat ==
    ASSUME NEW S, NEW s \in Seq(S), NEW t \in Seq(S), NEW h \in 0 .. Len(s) + Len(t),
           NEW u, u = s \o t
    PROVE  IsRest(u, h, s, t)
<1>1. PICK a : a = Len(s)
    OBVIOUS
<1>2. PICK b : b = Len(t)
    OBVIOUS
<1>3. /\ a \in Nat /\ b \in Nat /\ u \in Seq(S) /\ Len(u) = a + b
      /\ \A i \in 1 .. a : u[i] = s[i]
      /\ \A i \in 1 .. b : u[a + i] = t[i]
    <2>1. IsConcat(u, s, t, S)
        BY ConcatIs
    <2>2. QED
        BY <1>1, <1>2, <2>1 DEF IsConcat
<1>4. PICK c : c = SubSeq(u, h + 1, Len(u))
    OBVIOUS
<1>5. c \in Seq(S) /\ Len(c) = a + b - h /\ \A i \in 1 .. Len(c) : c[i] = u[h + i]
    <2>1. h + 1 \in 1 .. Len(u) + 1 /\ Len(u) \in (h + 1) - 1 .. Len(u)
        BY <1>1, <1>2, <1>3
    <2>2. IsSub(c, u, h + 1, Len(u), S)
        BY <1>3, <1>4, <2>1, SubIs
    <2>3. h \in Nat /\ Len(u) - (h + 1) + 1 = a + b - h
        BY <1>1, <1>2, <1>3
    <2>4. /\ c \in Seq(S) /\ Len(c) = a + b - h
          /\ \A i \in 1 .. a + b - h : c[i] = u[(h + 1) + i - 1]
        BY <2>2, <2>3 DEF IsSub
    <2>5. \A i \in 1 .. a + b - h : (h + 1) + i - 1 = h + i
        BY <1>3, <2>3
    <2>6. QED
        BY <2>4, <2>5
<1>6. ASSUME h <= a PROVE c = SubSeq(s, h + 1, a) \o t
    <2>1. PICK d : d = SubSeq(s, h + 1, a)
        OBVIOUS
    <2>2. d \in Seq(S) /\ Len(d) = a - h /\ \A i \in 1 .. Len(d) : d[i] = s[h + i]
        <3>1. h + 1 \in 1 .. Len(s) + 1 /\ a \in (h + 1) - 1 .. Len(s)
            BY <1>1, <1>3, <1>6
        <3>2. IsSub(d, s, h + 1, a, S)
            BY <2>1, <3>1, SubIs
        <3>3. QED
            BY <1>3, <1>6, <3>2 DEF IsSub
    <2>3. PICK e : e = d \o t
        OBVIOUS
    <2>4. /\ e \in Seq(S) /\ Len(e) = a - h + b
          /\ \A i \in 1 .. a - h : e[i] = d[i]
          /\ \A i \in 1 .. b : e[(a - h) + i] = t[i]
        <3>1. IsConcat(e, d, t, S)
            BY <2>2, <2>3, ConcatIs
        <3>2. QED
            BY <1>2, <2>2, <3>1 DEF IsConcat
    <2>5. Len(c) = Len(e)
        BY <1>1, <1>3, <1>5, <1>6, <2>4
    <2>6. ASSUME NEW i \in 1 .. Len(c) PROVE c[i] = e[i]
        <3>1. CASE h + i <= a
            <4>1. h + i \in 1 .. a /\ i \in 1 .. a - h
                BY <1>1, <1>3, <1>5, <1>6, <3>1
            <4>2. QED
                BY <1>3, <1>5, <2>2, <2>4, <4>1
        <3>2. CASE h + i > a
            <4>1. h + i - a \in 1 .. b /\ a + (h + i - a) = h + i /\ (a - h) + (h + i - a) = i
                BY <1>1, <1>3, <1>5, <1>6, <3>2
            <4>2. u[a + (h + i - a)] = t[h + i - a] /\ e[(a - h) + (h + i - a)] = t[h + i - a]
                BY <1>3, <2>4, <4>1
            <4>3. QED
                BY <1>5, <4>1, <4>2
        <3>3. QED
            BY <1>1, <1>3, <1>5, <3>1, <3>2
    <2>7. c = e
        BY <1>5, <2>4, <2>5, <2>6, SameSeq
    <2>8. QED
        BY <2>1, <2>3, <2>7
<1>7. ASSUME h >= a PROVE c = SubSeq(t, h - a + 1, b)
    <2>1. PICK d : d = SubSeq(t, h - a + 1, b)
        OBVIOUS
    <2>2. d \in Seq(S) /\ Len(d) = b - (h - a) /\ \A i \in 1 .. Len(d) : d[i] = t[h - a + i]
        <3>1. h - a + 1 \in 1 .. Len(t) + 1 /\ b \in (h - a + 1) - 1 .. Len(t)
            BY <1>1, <1>2, <1>3, <1>7
        <3>2. IsSub(d, t, h - a + 1, b, S)
            BY <2>1, <3>1, SubIs
        <3>3. QED
            BY <1>1, <1>2, <1>3, <1>7, <3>2 DEF IsSub
    <2>3. Len(c) = Len(d)
        BY <1>1, <1>2, <1>3, <1>5, <2>2
    <2>4. ASSUME NEW i \in 1 .. Len(c) PROVE c[i] = d[i]
        <3>1. h - a + i \in 1 .. b /\ a + (h - a + i) = h + i /\ i \in 1 .. Len(d)
            BY <1>1, <1>2, <1>3, <1>5, <1>7, <2>3
        <3>2. u[a + (h - a + i)] = t[h - a + i]
            BY <1>3, <3>1
        <3>3. QED
            BY <1>5, <2>2, <3>1, <3>2
    <2>5. c = d
        BY <1>5, <2>2, <2>3, <2>4, SameSeq
    <2>6. QED
        BY <2>1, <2>5
<1>8. QED
    BY <1>1, <1>2, <1>4, <1>6, <1>7 DEF IsRest

(* The bytes of the last answer. *)
FilePart == IF iov.count = 2 THEN FileBytes(Len(results)) ELSE <<>>

Answer == send_buf \o FilePart

Whole == Len(send_buf) + (IF iov.count = 2 THEN FileLen ELSE 0)

Vectors ==
    /\ iov.count \in {1, 2} /\ iov.have_sent \in 0 .. Whole - 1
    /\ iov.to_send = Whole - iov.have_sent
    /\ iov.vec[1].base = "send"
    /\ iov.count = 2 => iov.vec[2].base = "file"
    /\ iov.have_sent < Len(send_buf) =>
         /\ iov.vec[1].at = iov.have_sent
         /\ iov.vec[1].len = Len(send_buf) - iov.have_sent
         /\ iov.count = 2 => iov.vec[2].at = 0 /\ iov.vec[2].len = FileLen
    /\ iov.have_sent >= Len(send_buf) =>
         /\ iov.vec[1].len = 0
         /\ iov.count = 2 => /\ iov.vec[2].at = iov.have_sent - Len(send_buf)
                             /\ iov.vec[2].len = iov.to_send

LEMMA AnswerIs ==
    ASSUME Types
    PROVE  /\ send_buf \in Seq(Bytes) /\ FilePart \in Seq(Bytes)
           /\ Len(FilePart) = IF iov.count = 2 THEN FileLen ELSE 0
           /\ Answer \in Seq(Bytes) /\ Len(Answer) = Whole /\ Whole \in Nat
<1>1. Len(results) \in Nat /\ send_buf \in Seq(Bytes)
    BY DEF Types, OutTypes
<1>2. PICK f : f = FilePart
    OBVIOUS
<1>3. f \in Seq(Bytes) /\ Len(f) = IF iov.count = 2 THEN FileLen ELSE 0
    BY <1>1, <1>2, ComposedIs, TuplesAre DEF FilePart
<1>4. PICK a : a = send_buf \o f
    OBVIOUS
<1>5. IsConcat(a, send_buf, f, Bytes)
    BY <1>1, <1>3, <1>4, ConcatIs
<1>6. Answer = a
    BY <1>2, <1>4 DEF Answer
<1>7. QED
    BY <1>1, <1>2, <1>3, <1>5, <1>6, Lengths DEF IsConcat, Whole

(* writev is asked to send what is left of the answer. *)
LEMMA GatheredExact ==
    ASSUME Types, iov \in Iov, Vectors
    PROVE  /\ ~Astray /\ Gathered = SubSeq(Answer, iov.have_sent + 1, Whole)
           /\ Gathered \in Seq(Bytes) /\ Len(Gathered) = iov.to_send /\ iov.to_send # 0
<1>1. PICK b \in Nat : b = Len(send_buf)
    BY DEF Types, OutTypes
<1>2. PICK h \in Int : h = iov.have_sent
    BY DEF Iov
<1>3. PICK f : f = FilePart
    OBVIOUS
<1>4. PICK total : total = Whole
    OBVIOUS
<1>5. PICK a : a = Answer
    OBVIOUS
<1>6. /\ send_buf \in Seq(Bytes) /\ f \in Seq(Bytes)
      /\ Len(f) = (IF iov.count = 2 THEN FileLen ELSE 0)
      /\ a = send_buf \o f /\ a \in Seq(Bytes) /\ Len(a) = total
      /\ total = b + Len(f) /\ total \in Nat
    BY <1>1, <1>3, <1>4, <1>5, AnswerIs DEF Answer, Whole
<1>7. /\ iov.count \in {1, 2} /\ h \in 0 .. total - 1 /\ iov.to_send = total - h
      /\ iov.to_send \in Int
    BY <1>2, <1>4 DEF Vectors, Iov
<1>8. PICK v : v = iov.vec[1]
    OBVIOUS
<1>9. PICK w : w = iov.vec[2]
    OBVIOUS
<1>10. /\ v.base = "send" /\ (iov.count = 2 => w.base = "file")
       /\ h < b => /\ v.at = h /\ v.len = b - h
                   /\ iov.count = 2 => w.at = 0 /\ w.len = FileLen
       /\ h >= b => /\ v.len = 0
                    /\ iov.count = 2 => w.at = h - b /\ w.len = iov.to_send
    BY <1>1, <1>2, <1>8, <1>9 DEF Vectors
<1>11. v.at \in Int /\ v.len \in Int /\ w.at \in Int /\ w.len \in Int
    BY <1>8, <1>9 DEF Iov, Entry
<1>12. iov.count = 2 => f = FileBytes(Len(results))
    BY <1>3 DEF FilePart
<1>13. iov.count # 2 => f = <<>>
    BY <1>3 DEF FilePart
<1>14. PICK rest : rest = SubSeq(a, h + 1, Len(a))
    OBVIOUS
<1>15. /\ h <= b => rest = SubSeq(send_buf, h + 1, b) \o f
       /\ h >= b => rest = SubSeq(f, h - b + 1, Len(f))
    <2>1. h \in 0 .. Len(send_buf) + Len(f)
        BY <1>1, <1>6, <1>7
    <2>2. IsRest(a, h, send_buf, f)
        BY <1>6, <2>1, RestOfConcat
    <2>3. QED
        BY <1>1, <1>14, <2>2 DEF IsRest
<1>16. rest \in Seq(Bytes) /\ Len(rest) = total - h
    <2>1. h \in 0 .. Len(a)
        BY <1>6, <1>7
    <2>2. QED
        BY <1>6, <1>14, <2>1, Split
<1>17. PICK x : x = Slice(v)
    OBVIOUS
<1>18. PICK y : y = IF iov.count = 2 THEN Slice(w) ELSE <<>>
    OBVIOUS
<1>19. Gathered = x \o y
    BY <1>8, <1>9, <1>17, <1>18 DEF Gathered
<1>20. x = SubSeq(send_buf, v.at + 1, v.at + v.len)
    BY <1>10, <1>17 DEF Slice
<1>21. iov.count = 2 => y = SubSeq(f, w.at + 1, w.at + w.len)
    BY <1>10, <1>12, <1>18 DEF Slice
<1>22. ASSUME h < b PROVE Gathered = rest
    <2>1. x = SubSeq(send_buf, h + 1, b)
        <3>1. v.at + 1 = h + 1 /\ v.at + v.len = b
            BY <1>10, <1>11, <1>22
        <3>2. QED
            BY <1>20, <3>1
    <2>2. y = f
        <3>1. CASE iov.count = 2
            <4>1. w.at + 1 = 1 /\ w.at + w.len = Len(f)
                BY <1>6, <1>10, <1>11, <1>22, <3>1
            <4>2. SubSeq(f, 1, Len(f)) = f
                BY <1>6
            <4>3. QED
                BY <1>21, <3>1, <4>1, <4>2
        <3>2. CASE iov.count # 2
            BY <1>13, <1>18, <3>2
        <3>3. QED
            BY <3>1, <3>2
    <2>3. QED
        BY <1>15, <1>19, <1>22, <2>1, <2>2
<1>23. ASSUME h >= b PROVE Gathered = rest
    <2>1. iov.count = 2
        BY <1>6, <1>7, <1>23
    <2>2. x = <<>>
        <3>1. v.at + 1 \in Int /\ v.at + v.len \in Int /\ v.at + v.len < v.at + 1
            BY <1>10, <1>11, <1>23
        <3>2. QED
            BY <1>6, <1>20, <3>1, EmptySub
    <2>3. y = SubSeq(f, h - b + 1, Len(f))
        <3>1. w.at + 1 = h - b + 1 /\ w.at + w.len = Len(f)
            BY <1>6, <1>7, <1>10, <1>11, <1>23, <2>1, Lengths
        <3>2. QED
            BY <1>21, <2>1, <3>1
    <2>4. y = rest
        BY <1>15, <1>23, <2>3
    <2>5. QED
        BY <1>16, <1>19, <2>2, <2>4, EmptyConcat
<1>24. Gathered = rest
    BY <1>7, <1>22, <1>23
<1>25. ~Astray
    <2>1. v.len >= 0
        <3>1. CASE h < b
            BY <1>10, <1>11, <3>1
        <3>2. CASE h >= b
            BY <1>10, <3>2
        <3>3. QED
            BY <3>1, <3>2
    <2>2. iov.count = 2 => w.at >= 0
        <3>1. CASE h < b
            BY <1>10, <3>1
        <3>2. CASE h >= b
            BY <1>10, <3>2
        <3>3. QED
            BY <3>1, <3>2
    <2>3. ~(v.len < 0) /\ (iov.count = 2 => ~(w.at < 0))
        BY <1>11, <2>1, <2>2
    <2>4. QED
        BY <1>8, <1>9, <2>3 DEF Astray
<1>26. SubSeq(Answer, iov.have_sent + 1, Whole) = rest
    BY <1>2, <1>4, <1>5, <1>6, <1>14
<1>27. Gathered \in Seq(Bytes) /\ Len(Gathered) = iov.to_send
    BY <1>7, <1>16, <1>24
<1>28. iov.to_send # 0
    BY <1>6, <1>7
<1>29. QED
    BY <1>24, <1>25, <1>26, <1>27, <1>28

Under == IF iov.to_send = 0 THEN <<>> ELSE Gathered

Exact == (got \o outbox) \o Under = promised

Sender ==
    faults = {} =>
        /\ Sending => Vectors
        /\ stage = "write" => iov.to_send # 0
        /\ stage \notin {"wait", "write"} => iov.to_send = 0
        /\ Exact

LEMMA SenderInit == Init => Sender
<1>1. SUFFICES ASSUME Init PROVE Sender
    OBVIOUS
<1>2. iov.to_send = 0 /\ stage = "wait" /\ armed = "in"
    BY <1>1 DEF Init, NothingToSend
<1>3. (<<>> \o <<>>) \o <<>> = <<>>
    OBVIOUS
<1>4. Exact
    BY <1>1, <1>2, <1>3 DEF Init, Exact, Under
<1>5. QED
    BY <1>2, <1>4 DEF Sender, Sending

(* What the lemmas above say while nothing has gone wrong. *)
LEMMA SenderTypes ==
    ASSUME Types, Stages, Sender, faults = {}
    PROVE  /\ StreamTypes /\ Idle /\ Answering
           /\ iov \in Iov /\ iov.to_send \in Int /\ got \in Seq(Bytes) /\ outbox \in Seq(Bytes)
           /\ Sending => Vectors
           /\ stage = "write" => iov.to_send # 0
           /\ stage \notin {"wait", "write"} => iov.to_send = 0
           /\ Exact
<1>1. StreamTypes /\ Idle /\ Answering
    BY DEF Stages
<1>2. iov \in Iov /\ got \in Seq(Bytes) /\ outbox \in Seq(Bytes)
    BY <1>1 DEF StreamTypes
<1>3. iov.to_send \in Int
    BY <1>2 DEF Iov
<1>4. QED
    BY <1>1, <1>2, <1>3 DEF Sender

LEMMA SameGathered ==
    ASSUME results' = results, send_buf' = send_buf, iov' = iov
    PROVE  Gathered' = Gathered /\ Under' = Under /\ (Vectors' <=> Vectors)
BY DEF Gathered, Slice, Under, Vectors, Whole

(* A step that leaves the answer alone, or that only reads what is written. *)
LEMMA QuietSender ==
    ASSUME Types, Stages, Sender, results' = results, UNCHANGED sender,
           promised' = promised,
           \/ got' = got /\ outbox' = outbox
           \/ got' = got \o outbox /\ outbox' = <<>>,
           faults' = {} => faults = {},
           Sending' => Sending,
           stage' = "write" => stage = "write" \/ iov.to_send # 0,
           stage' \notin {"wait", "write"} => iov.to_send = 0
    PROVE  Sender'
<1>1. SUFFICES ASSUME faults' = {}
               PROVE  /\ Sending' => Vectors'
                      /\ stage' = "write" => iov'.to_send # 0
                      /\ stage' \notin {"wait", "write"} => iov'.to_send = 0
                      /\ Exact'
    BY DEF Sender
<1>2. /\ got \in Seq(Bytes) /\ outbox \in Seq(Bytes)
      /\ Sending => Vectors
      /\ stage = "write" => iov.to_send # 0
      /\ Exact
    BY <1>1, SenderTypes
<1>3. /\ Under' = Under /\ (Vectors' <=> Vectors) /\ iov' = iov
    BY SameGathered DEF sender
<1>4. got' \o outbox' = got \o outbox
    <2>1. CASE got' = got /\ outbox' = outbox
        BY <2>1
    <2>2. CASE got' = got \o outbox /\ outbox' = <<>>
        <3>1. PICK u : u = got \o outbox
            OBVIOUS
        <3>2. IsConcat(u, got, outbox, Bytes)
            BY <1>2, <3>1, ConcatIs
        <3>3. u \in Seq(Bytes)
            BY <3>2 DEF IsConcat
        <3>4. u \o <<>> = u
            BY <3>3, EmptyConcat
        <3>5. QED
            BY <2>2, <3>1, <3>4
    <2>3. QED
        BY <2>1, <2>2
<1>5. Exact'
    BY <1>2, <1>3, <1>4 DEF Exact
<1>6. QED
    BY <1>2, <1>3, <1>5

LEMMA PeerSender ==
    ASSUME Types, Stages, Sender, Ask \/ Deliver \/ PeerReads
    PROVE  Sender'
<1>1. /\ results' = results /\ UNCHANGED sender /\ promised' = promised
      /\ armed' = armed /\ stage' = stage /\ faults' = faults
    BY DEF Ask, Deliver, PeerReads, history
<1>2. \/ got' = got /\ outbox' = outbox
      \/ got' = got \o outbox /\ outbox' = <<>>
    BY DEF Ask, Deliver, PeerReads, history
<1>3. CASE faults = {}
    <2>1. stage \notin {"wait", "write"} => iov.to_send = 0
        BY <1>3 DEF Sender
    <2>2. Sending' => Sending
        BY <1>1 DEF Sending, sender
    <2>3. QED
        BY <1>1, <1>2, <2>1, <2>2, QuietSender
<1>4. CASE faults # {}
    BY <1>1, <1>4 DEF Sender
<1>5. QED
    BY <1>3, <1>4

LEMMA ReadingSender ==
    ASSUME Types, Stages, Sender, Receive \/ NextLine
    PROVE  Sender'
<1>1. /\ results' = results /\ UNCHANGED sender /\ promised' = promised
      /\ got' = got /\ outbox' = outbox
    BY DEF Receive, NextLine, history
<1>2. faults' = {} => faults = {}
    BY DEF Receive, NextLine, history
<1>3. CASE faults' = {}
    <2>1. faults = {}
        BY <1>2, <1>3
    <2>2. Idle
        BY <2>1, SenderTypes
    <2>3. \/ stage = "wait" /\ armed = "in" /\ stage' = "parse"
          \/ stage = "parse" /\ (stage' = "line" \/ (stage' = "wait" /\ armed' = "in"))
        BY DEF Receive, NextLine, ParseLine, NoRequest, FoundLine
    <2>4. iov.to_send = 0 /\ ~Sending' /\ stage' # "write"
        BY <2>2, <2>3 DEF Idle, Sending
    <2>5. QED
        BY <1>1, <1>2, <2>4, QuietSender
<1>4. CASE faults' # {}
    BY <1>4 DEF Sender
<1>5. QED
    BY <1>3, <1>4

(* Of an answer that has just begun, everything is left. *)
LEMMA BegunExact ==
    ASSUME Types, Begun
    PROVE  Vectors /\ iov.to_send # 0 /\ Under = Answer
<1>1. Vectors /\ iov.to_send # 0 /\ iov \in Iov /\ iov.have_sent = 0
    BY Lengths DEF Begun, Vectors, Whole
<1>2. Gathered = SubSeq(Answer, 0 + 1, Whole)
    BY <1>1, GatheredExact
<1>3. PICK a : a = Answer
    OBVIOUS
<1>4. a \in Seq(Bytes) /\ Len(a) = Whole
    BY <1>3, AnswerIs
<1>5. SubSeq(a, 0 + 1, Len(a)) = a
    BY <1>4
<1>6. QED
    BY <1>1, <1>2, <1>3, <1>4, <1>5 DEF Under

LEMMA RespondSender ==
    ASSUME Types, Types', Stages, Sender, stage = "line", outbox' = outbox, got' = got,
           NEW code \in Codes, NEW t \in Task, Respond(code, t)
    PROVE  Sender'
<1>1. SUFFICES ASSUME faults' = {}
               PROVE  /\ Sending' => Vectors'
                      /\ stage' = "write" => iov'.to_send # 0
                      /\ stage' \notin {"wait", "write"} => iov'.to_send = 0
                      /\ Exact'
    BY DEF Sender
<1>2. faults = {}
    BY <1>1 DEF Respond
<1>3. /\ StreamTypes /\ Idle /\ got \in Seq(Bytes) /\ outbox \in Seq(Bytes)
      /\ Exact
    BY <1>2, SenderTypes
<1>4. /\ iov.to_send = 0 /\ stage' = "wait" /\ armed' = "out"
      /\ results' = Append(results, [code |-> code, linger |-> t.linger])
      /\ code \in Answered =>
           /\ Begun'
           /\ promised' = promised \o send_buf'
                  \o (IF iov'.count = 2 THEN FileBytes(Len(results) + 1) ELSE <<>>)
      /\ code \notin Answered => UNCHANGED <<send_buf, iov, promised>>
    BY <1>3, RespondIs
<1>5. PICK p : p = got \o outbox
    OBVIOUS
<1>6. p \in Seq(Bytes)
    <2>1. IsConcat(p, got, outbox, Bytes)
        BY <1>3, <1>5, ConcatIs
    <2>2. QED
        BY <2>1 DEF IsConcat
<1>7. promised = p
    BY <1>3, <1>4, <1>5, <1>6, EmptyConcat DEF Exact, Under
<1>8. CASE code \in Answered
    <2>1. (Types /\ Begun => Vectors /\ iov.to_send # 0 /\ Under = Answer)'
        BY BegunExact, PTL
    <2>2. Vectors' /\ iov'.to_send # 0 /\ Under' = Answer'
        BY <1>4, <1>8, <2>1
    <2>3. (Types => send_buf \in Seq(Bytes) /\ FilePart \in Seq(Bytes))'
        BY AnswerIs, PTL
    <2>4. PICK c : c = send_buf'
        OBVIOUS
    <2>5. PICK f : f = FilePart'
        OBVIOUS
    <2>6. c \in Seq(Bytes) /\ f \in Seq(Bytes)
        BY <2>3, <2>4, <2>5
    <2>7. Len(results') = Len(results) + 1
        <3>1. PICK x \in Result : x = [code |-> code, linger |-> t.linger]
            BY DEF Result, Task
        <3>2. PICK u : u = Append(results, x)
            OBVIOUS
        <3>3. Len(u) = Len(results) + 1
            BY <3>2, AppendIs DEF Types, OutTypes
        <3>4. QED
            BY <1>4, <3>1, <3>2, <3>3
    <2>8. f = IF iov'.count = 2 THEN FileBytes(Len(results) + 1) ELSE <<>>
        BY <2>5, <2>7 DEF FilePart
    <2>9. promised' = (p \o c) \o f
        BY <1>4, <1>7, <1>8, <2>4, <2>8
    <2>10. (p \o c) \o f = p \o (c \o f)
        <3>1. Regroups(p, c, f)
            BY <1>6, <2>6, Associative
        <3>2. QED
            BY <3>1 DEF Regroups
    <2>11. Answer' = c \o f
        BY <2>4, <2>5 DEF Answer
    <2>12. got' \o outbox' = p
        BY <1>5
    <2>13. Exact'
        BY <2>2, <2>9, <2>10, <2>11, <2>12 DEF Exact
    <2>14. QED
        BY <1>4, <2>2, <2>13
<1>9. CASE code \notin Answered
    <2>1. iov' = iov /\ iov'.to_send = 0 /\ ~Sending' /\ promised' = promised
        BY <1>4, <1>9 DEF Sending
    <2>2. Exact'
        BY <1>3, <1>4, <2>1 DEF Exact, Under
    <2>3. QED
        BY <1>4, <2>1, <2>2
<1>10. QED
    BY <1>8, <1>9

LEMMA TakeLineSender ==
    ASSUME Types, Types', Stages, Sender, TakeLine
    PROVE  Sender'
<1>1. outbox' = outbox /\ got' = got /\ stage = "line"
    BY TakeLineIs
<1>2. ASSUME results' = results, UNCHANGED sender, promised' = promised, faults' = faults,
             stage' \in {"parse", "dead"}
      PROVE  Sender'
    <2>1. CASE faults = {}
        <3>1. iov.to_send = 0
            BY <1>1, <2>1, SenderTypes
        <3>2. QED
            BY <1>1, <1>2, <3>1, QuietSender DEF Sending
    <2>2. CASE faults # {}
        BY <1>2, <2>2 DEF Sender
    <2>3. QED
        BY <2>1, <2>2
<1>3. ASSUME NEW t \in Task, Continue(t) PROVE Sender'
    BY <1>2, <1>3 DEF Continue
<1>4. ASSUME NEW t \in Task, NEW code \in Codes, Respond(code, t) PROVE Sender'
    BY <1>1, <1>4, RespondSender
<1>5. ASSUME NEW t \in Task, Dies(t) PROVE Sender'
    BY <1>2, <1>5 DEF Dies
<1>6. ASSUME NEW t \in Task, NEW buf, DealRequest(t, buf) PROVE Sender'
    <2>1. PICK target : target = LastSlash(StringAt(buf, t.url))
        OBVIOUS
    <2>2. Respond("GET_REQUEST", t) \/ Respond(CodeOf(target), t) \/ Dies(t)
        BY <1>6, <2>1 DEF DealRequest
    <2>3. QED
        BY <1>4, <1>5, <2>2, CodesAre
<1>7. QED
    BY <1>3, <1>4, <1>5, <1>6, TakeLineIs, CodesAre

LEMMA WritingSender ==
    ASSUME Types, Stages, Sender, NothingToWrite \/ StartWriting \/ WouldBlock \/ GoesAstray
    PROVE  Sender'
<1>1. SUFFICES ASSUME faults' = {} PROVE Sender'
    BY DEF Sender
<1>2. faults = {} /\ ~WouldBlock
    BY <1>1 DEF NothingToWrite, StartWriting, WouldBlock, GoesAstray, history
<1>3. /\ iov \in Iov /\ got \in Seq(Bytes) /\ outbox \in Seq(Bytes)
      /\ Sending => Vectors
      /\ Exact
    BY <1>2, SenderTypes
<1>4. /\ results' = results /\ promised' = promised /\ got' = got /\ outbox' = outbox
    BY DEF NothingToWrite, StartWriting, WouldBlock, GoesAstray, history
<1>5. CASE NothingToWrite
    <2>1. /\ stage' = "wait" /\ armed' = "in" /\ iov.to_send = 0
          /\ iov' = [iov EXCEPT !.to_send = 0, !.have_sent = 0]
        BY <1>5 DEF NothingToWrite, InitData
    <2>2. iov'.to_send = 0
        BY <1>3, <2>1, ClearedIs
    <2>3. Exact'
        BY <1>3, <1>4, <2>1, <2>2 DEF Exact, Under
    <2>4. QED
        BY <2>1, <2>2, <2>3 DEF Sender, Sending
<1>6. CASE StartWriting
    <2>1. Sending /\ iov.to_send # 0 /\ stage' = "write" /\ UNCHANGED sender /\ faults' = faults
        BY <1>6 DEF StartWriting, Sending, history
    <2>2. QED
        BY <1>2, <1>4, <2>1, QuietSender
<1>7. CASE GoesAstray
    <2>1. Vectors
        BY <1>3, <1>7 DEF GoesAstray, Sending
    <2>2. ~Astray /\ Gathered \in Seq(Bytes) /\ Len(Gathered) = iov.to_send /\ iov.to_send # 0
        BY <1>3, <2>1, GatheredExact
    <2>3. Gathered # <<>>
        BY <2>2, TuplesAre
    <2>4. QED
        BY <1>7, <2>2, <2>3 DEF GoesAstray
<1>8. QED
    BY <1>2, <1>5, <1>6, <1>7

(* After a call of writev that does not stop inside the head a second      *)
(* time, the entries describe what is left again.                          *)
LEMMA SentVectors ==
    ASSUME Types, iov \in Iov, Vectors, NEW n \in Int, n >= 1, n < iov.to_send,
           ~CutTwice(n), iov' = Sent(n), UNCHANGED <<send_buf, results>>
    PROVE  iov' \in Iov /\ Vectors' /\ Whole' = Whole
<1>1. PICK s : s = Sent(n)
    OBVIOUS
<1>2. PICK b \in Nat : b = Len(send_buf)
    BY DEF Types, OutTypes
<1>3. PICK h \in Int : h = iov.have_sent
    BY DEF Iov
<1>4. PICK total \in Nat : total = Whole
    BY AnswerIs
<1>5. PICK v : v = iov.vec[1]
    OBVIOUS
<1>6. PICK w : w = iov.vec[2]
    OBVIOUS
<1>7. /\ s \in Iov /\ s.count = iov.count
      /\ s.to_send = iov.to_send - n /\ s.have_sent = h + n
      /\ s.vec[1].base = v.base
      /\ Over(n) =>
                /\ s.vec[1].len = 0
                /\ s.vec[2].base = "file" /\ s.vec[2].len = iov.to_send - n
                /\ s.vec[2].at = h + n - b
      /\ ~Over(n) =>
                /\ s.vec[1].at = h + n
                /\ s.vec[1].len = v.len - (h + n)
                /\ s.vec[2] = w
    <2>1. IsSent(s, n)
        BY <1>1, SentIs
    <2>2. QED
        BY <1>2, <1>3, <1>5, <1>6, <2>1 DEF IsSent
<1>8. /\ iov.count \in {1, 2} /\ h \in 0 .. total - 1 /\ iov.to_send = total - h
      /\ v.base = "send" /\ (iov.count = 2 => w.base = "file")
      /\ h < b => /\ v.at = h /\ v.len = b - h
                  /\ iov.count = 2 => w.at = 0 /\ w.len = FileLen
      /\ h >= b => v.len = 0
    BY <1>2, <1>3, <1>4, <1>5, <1>6 DEF Vectors
<1>9. PICK l : l = v.len
    OBVIOUS
<1>10. (h < b => l = b - h) /\ (h >= b => l = 0) /\ h >= 0 /\ h + n >= 0 /\ n >= 1
    BY <1>8, <1>9
<1>11. h > 0 => h + n >= b
    BY <1>2, <1>3 DEF CutTwice
<1>12. Over(n) <=> h + n >= b
    <2>1. Over(n) <=> (h + n < 0 \/ h + n >= l)
        BY <1>3, <1>5, <1>9 DEF Over, AtLeast
    <2>2. h + n >= l <=> h + n >= b
        <3>1. CASE h < b
            BY <1>10, <1>11, <3>1
        <3>2. CASE h >= b
            BY <1>10, <3>2
        <3>3. QED
            BY <3>1, <3>2
    <2>3. QED
        BY <1>10, <2>1, <2>2
<1>13. Whole' = Whole
    BY <1>1, <1>7 DEF Whole
<1>14. s.have_sent \in 0 .. total - 1 /\ s.to_send = total - s.have_sent
    BY <1>7, <1>8
<1>15. PICK sv : sv = s.vec[1]
    OBVIOUS
<1>16. PICK sw : sw = s.vec[2]
    OBVIOUS
<1>17. /\ sv.base = "send" /\ (s.count = 2 => sw.base = "file")
       /\ s.have_sent < b => /\ sv.at = s.have_sent /\ sv.len = b - s.have_sent
                             /\ s.count = 2 => sw.at = 0 /\ sw.len = FileLen
       /\ s.have_sent >= b => /\ sv.len = 0
                              /\ s.count = 2 => sw.at = s.have_sent - b /\ sw.len = s.to_send
    <2>1. CASE h + n >= b
        <3>1. Over(n)
            BY <1>12, <2>1
        <3>2. QED
            BY <1>7, <1>8, <1>15, <1>16, <2>1, <3>1
    <2>2. CASE h + n < b
        <3>1. ~Over(n) /\ h = 0 /\ h < b /\ l = b
            BY <1>10, <1>11, <1>12, <2>2
        <3>2. h < b /\ v.len = b
            BY <1>9, <3>1
        <3>3. sv.at = s.have_sent /\ sv.len = b - s.have_sent /\ sw = w
            BY <1>7, <1>15, <1>16, <3>1, <3>2
        <3>4. QED
            BY <1>7, <1>8, <1>15, <2>2, <3>2, <3>3
    <2>3. QED
        BY <2>1, <2>2
<1>18. iov' = s /\ iov'.vec[1] = sv /\ iov'.vec[2] = sw /\ Len(send_buf') = b
    BY <1>1, <1>2, <1>15, <1>16
<1>19. QED
    <2>1. /\ s.count \in {1, 2} /\ s.have_sent \in 0 .. Whole' - 1
          /\ s.to_send = Whole' - s.have_sent
        BY <1>4, <1>7, <1>8, <1>13, <1>14
    <2>2. Len(send_buf') = b /\ s.vec[1] = sv /\ s.vec[2] = sw
        BY <1>15, <1>16, <1>18
    <2>3. Vectors'
        BY <1>17, <1>18, <2>1, <2>2 DEF Vectors
    <2>4. QED
        BY <1>7, <1>13, <1>18, <2>3

LEMMA WritevSender ==
    ASSUME Types, Types', Stages, Sender, Writev
    PROVE  Sender'
<1>1. SUFFICES ASSUME faults' = {} PROVE Sender'
    BY DEF Sender
<1>2. stage = "write" /\ results' = results /\ promised' = promised /\ got' = got
    BY WritevIs DEF Writev
<1>3. faults = {} /\ (iov.to_send = Written \/ ~CutTwice(Written))
    BY <1>1, WritevIs
<1>4. /\ StreamTypes /\ iov \in Iov /\ iov.to_send \in Int
      /\ got \in Seq(Bytes) /\ outbox \in Seq(Bytes)
      /\ Vectors /\ Exact /\ Answering
    BY <1>2, <1>3, SenderTypes DEF Sending
<1>5. InRange
    BY <1>2, <1>4 DEF Answering, Sending
<1>6. PICK g : g = Gathered
    OBVIOUS
<1>7. /\ g = SubSeq(Answer, iov.have_sent + 1, Whole)
      /\ g \in Seq(Bytes) /\ Len(g) = iov.to_send /\ iov.to_send # 0
    BY <1>4, <1>6, GatheredExact
<1>8. PICK n \in 1 .. Len(g) : n = Written
    BY <1>4, <1>5, <1>6, WrittenIs
<1>9. PICK a : a = SubSeq(g, 1, n)
    OBVIOUS
<1>10. PICK c : c = SubSeq(g, n + 1, Len(g))
    OBVIOUS
<1>11. a \in Seq(Bytes) /\ c \in Seq(Bytes) /\ a \o c = g
    BY <1>4, <1>5, <1>6, <1>8, <1>9, <1>10, WrittenIs
<1>12. outbox' = outbox \o a
    BY <1>6, <1>8, <1>9, WritevIs
<1>13. promised = (got \o outbox) \o (a \o c)
    BY <1>4, <1>6, <1>7, <1>11 DEF Exact, Under
<1>14. (got' \o outbox') \o c = promised
    <2>1. PICK x : x = got \o outbox
        OBVIOUS
    <2>2. x \in Seq(Bytes)
        <3>1. IsConcat(x, got, outbox, Bytes)
            BY <1>4, <2>1, ConcatIs
        <3>2. QED
            BY <3>1 DEF IsConcat
    <2>3. PICK y : y = got
        OBVIOUS
    <2>4. PICK z : z = outbox
        OBVIOUS
    <2>5. /\ a \in Seq(Bytes) /\ c \in Seq(Bytes) /\ y \in Seq(Bytes) /\ z \in Seq(Bytes)
          /\ x = y \o z
        BY <1>4, <1>11, <2>1, <2>3, <2>4
    <2>6. (y \o z) \o a = y \o (z \o a)
        <3>1. Regroups(y, z, a)
            BY <2>5, Associative
        <3>2. QED
            BY <3>1 DEF Regroups
    <2>7. (x \o a) \o c = x \o (a \o c)
        <3>1. Regroups(x, a, c)
            BY <2>2, <2>5, Associative
        <3>2. QED
            BY <3>1 DEF Regroups
    <2>8. got' \o outbox' = x \o a
        BY <1>2, <1>12, <2>3, <2>4, <2>5, <2>6
    <2>9. QED
        BY <1>13, <2>1, <2>7, <2>8
<1>15. CASE iov.to_send = n /\ (GoesOn(n) \/ DiesAtUnmap(n))
    <2>1. c = <<>>
        BY <1>7, <1>10, <1>15
    <2>2. PICK s : s = Sent(n)
        OBVIOUS
    <2>3. n \in Int
        BY <1>7
    <2>4. s \in Iov /\ s.to_send = 0
        <3>1. IsSent(s, n)
            BY <1>4, <2>2, <2>3, SentIs
        <3>2. QED
            BY <1>4, <1>15, <3>1 DEF IsSent
    <2>5. iov'.to_send = 0
        <3>1. CASE GoesOn(n) /\ task.linger
            <4>1. iov' = [s EXCEPT !.to_send = 0, !.have_sent = 0]
                BY <2>2, <3>1 DEF GoesOn, Linger
            <4>2. QED
                BY <2>4, <4>1, ClearedIs
        <3>2. CASE GoesOn(n) /\ ~task.linger
            BY <2>2, <2>4, <3>2 DEF GoesOn, Linger
        <3>3. CASE DiesAtUnmap(n)
            BY <2>2, <2>4, <3>3 DEF DiesAtUnmap
        <3>4. QED
            BY <1>15, <3>1, <3>2, <3>3
    <2>6. Under' = <<>>
        BY <2>5 DEF Under
    <2>7. Exact'
        BY <1>2, <1>14, <2>1, <2>6 DEF Exact
    <2>8. stage' # "write" /\ (stage' = "wait" => armed' = "in")
        BY <1>15 DEF GoesOn, DiesAtUnmap
    <2>9. QED
        BY <2>5, <2>7, <2>8 DEF Sender, Sending
<1>16. CASE /\ iov.to_send # n /\ iov' = Sent(n)
            /\ UNCHANGED <<parser, send_buf, map, armed, stage>>
    <2>1. n \in Int /\ n >= 1 /\ n < iov.to_send
        BY <1>4, <1>7, <1>16
    <2>2. iov' \in Iov /\ Vectors' /\ Whole' = Whole
        BY <1>2, <1>3, <1>4, <1>8, <1>16, <2>1, SentVectors
    <2>3. (Types /\ iov \in Iov /\ Vectors =>
             Gathered = SubSeq(Answer, iov.have_sent + 1, Whole) /\ iov.to_send # 0)'
        BY GatheredExact, PTL
    <2>4. Gathered' = SubSeq(Answer', iov'.have_sent + 1, Whole) /\ iov'.to_send # 0
        BY <2>2, <2>3
    <2>5. iov'.have_sent = iov.have_sent + n /\ iov'.count = iov.count
        <3>1. IsSent(iov', n)
            BY <1>4, <1>16, <2>1, SentIs
        <3>2. QED
            BY <3>1 DEF IsSent
    <2>6. Answer' = Answer
        BY <1>2, <1>16, <2>5 DEF Answer, FilePart
    <2>7. PICK answer : answer = Answer
        OBVIOUS
    <2>8. PICK h \in Int : h = iov.have_sent
        BY <1>4 DEF Iov
    <2>9. answer \in Seq(Bytes) /\ Len(answer) = Whole /\ Whole \in Nat
        BY <2>7, AnswerIs
    <2>10. h \in 0 .. Whole - 1 /\ iov.to_send = Whole - h
        BY <1>4, <2>8 DEF Vectors
    <2>11. c = SubSeq(answer, h + n + 1, Len(answer))
        <3>1. h \in 0 .. Len(answer) /\ n \in 0 .. Len(answer) - h
            BY <1>7, <2>1, <2>9, <2>10
        <3>2. SubSeq(SubSeq(answer, h + 1, Len(answer)), n + 1, Len(answer) - h)
                = SubSeq(answer, h + n + 1, Len(answer))
            BY <2>9, <3>1, RestOfRest
        <3>3. g = SubSeq(answer, h + 1, Len(answer)) /\ Len(g) = Len(answer) - h
            BY <1>7, <2>7, <2>8, <2>9, <2>10
        <3>4. QED
            BY <1>10, <3>2, <3>3
    <2>12. Under' = c
        BY <2>4, <2>5, <2>6, <2>7, <2>8, <2>9, <2>11 DEF Under
    <2>13. Exact'
        BY <1>2, <1>14, <2>12 DEF Exact
    <2>14. QED
        BY <1>2, <1>16, <2>2, <2>4, <2>13 DEF Sender
<1>17. QED
    BY <1>8, <1>15, <1>16, WritevIs, FinishedIs

LEMMA SenderStep == Types /\ Types' /\ Stages /\ Sender /\ [Next]_vars => Sender'
<1>1. SUFFICES ASSUME Types, Types', Stages, Sender, [Next]_vars PROVE Sender'
    OBVIOUS
<1>2. CASE UNCHANGED vars
    <2>1. /\ results' = results /\ UNCHANGED sender /\ promised' = promised
          /\ got' = got /\ outbox' = outbox /\ faults' = faults
          /\ stage' = stage /\ armed' = armed
        BY <1>2 DEF vars, history
    <2>2. CASE faults = {}
        <3>1. stage \notin {"wait", "write"} => iov.to_send = 0
            BY <1>1, <2>2 DEF Sender
        <3>2. Sending' => Sending
            BY <2>1 DEF Sending, sender
        <3>3. QED
            BY <1>1, <2>1, <3>1, <3>2, QuietSender
    <2>3. CASE faults # {}
        BY <2>1, <2>3 DEF Sender
    <2>4. QED
        BY <2>2, <2>3
<1>3. CASE Next
    BY <1>1, <1>3, PeerSender, ReadingSender, TakeLineSender, WritingSender, WritevSender
       DEF Next, ServerStep
<1>4. QED
    BY <1>1, <1>2, <1>3

(* Theorem: what the peer has read, what is on the way and what _iv        *)
(* describes are together the answers that were composed, wherever writev  *)
(* stopped, while it stops inside one head once at most.                   *)
THEOREM StreamStaysExact == Spec => []StreamIsExact
<1>1. Init => Types /\ Stages /\ Sender
    BY TypesInit, StagesInit, SenderInit
<1>2. Types /\ Stages /\ Sender /\ [Next]_vars => (Types /\ Stages /\ Sender)'
    BY TypesStep, StagesStep, SenderStep
<1>3. Sender => StreamIsExact
    BY DEF Sender, Exact, Under, StreamIsExact
<1>4. QED
    BY <1>1, <1>2, <1>3, PTL DEF Spec

-----------------------------------------------------------------------------
(* The parser: where it is in the text of the request that was asked last. *)

Request == asked[Len(asked)]

(* The words of the line that begins at p, behind which CR and LF stand. *)
LineStarts(r) == {0, 8, LengthAt(r), BlankAt(r)}

WordsAt(r, p) == IF p = 0 THEN 6 ELSE IF p = BlankAt(r) THEN 0 ELSE 1

IsLineAt(t, p, w) ==
    /\ t[p + w + 1] = CR /\ t[p + w + 2] = LF
    /\ \A i \in 1 .. w : t[p + i] \notin {CR, LF, Nul}

LEMMA LineOf ==
    ASSUME NEW r \in RequestType, NEW p \in LineStarts(r)
    PROVE  /\ p \in Nat /\ WordsAt(r, p) \in 0 .. 6
           /\ p + WordsAt(r, p) + 2 <= BodyAt(r)
           /\ IsLineAt(Text(r), p, WordsAt(r, p))
<1>1. PICK t : t = Text(r)
    OBVIOUS
<1>2. IsText(t, r)
    BY <1>1, TextIs
<1>3. /\ r.method \in {"GET", "POST", "BREW"} /\ r.keep \in BOOLEAN /\ r.body \in BOOLEAN
    BY DEF RequestType
<1>4. PICK k : k = LengthAt(r)
    OBVIOUS
<1>5. PICK b : b = BlankAt(r)
    OBVIOUS
<1>6. /\ k = (IF r.keep THEN 11 ELSE 8) /\ b = (IF r.body THEN k + 3 ELSE k)
      /\ BodyAt(r) = b + 2
    BY <1>4, <1>5, TextLenIs
<1>7. PICK w : w = WordsAt(r, p)
    OBVIOUS
<1>8. /\ p \in {0, 8, k, b} /\ w = IF p = 0 THEN 6 ELSE IF p = b THEN 0 ELSE 1
    BY <1>4, <1>5, <1>7 DEF LineStarts, WordsAt
<1>9. k \in {8, 11} /\ b \in {8, 11, 14}
    BY <1>6
<1>10. p \in Nat /\ w \in 0 .. 6 /\ p + w + 2 <= b + 2
    BY <1>3, <1>6, <1>8, <1>9
<1>11. /\ t[1] = r.method /\ t[2] = SP /\ t[3] = r.target[1] /\ t[4] = r.target[2]
       /\ t[5] = SP /\ t[6] = "HTTP/1.1" /\ t[7] = CR /\ t[8] = LF
       /\ r.keep => t[9] = "keep" /\ t[10] = CR /\ t[11] = LF
       /\ r.body => t[k + 1] = "length" /\ t[k + 2] = CR /\ t[k + 3] = LF
       /\ t[b + 1] = CR /\ t[b + 2] = LF
    BY <1>2, <1>4, <1>5 DEF IsText
<1>12. \A x \in {"GET", "POST", "BREW", SP, "/", "http://", "https://", "page", "HTTP/1.1",
                  "keep", "length"} :
          x \notin {CR, LF, Nul}
    BY DEF CR, LF, Nul, SP
<1>a. r.target[1] \in {"/", "http://", "https://"} /\ r.target[2] \in {"page", "/"}
    BY TargetIs DEF RequestType
<1>13. IsLineAt(t, p, w)
    <2>1. CASE p = 0
        <3>1. w = 6
            BY <1>8, <2>1
        <3>2. \A i \in 1 .. 6 : t[0 + i] \notin {CR, LF, Nul}
            <4>1. \A i \in 1 .. 6 : i = 1 \/ i = 2 \/ i = 3 \/ i = 4 \/ i = 5 \/ i = 6
                OBVIOUS
            <4>2. t[1] \notin {CR, LF, Nul} /\ t[2] \notin {CR, LF, Nul}
                BY <1>3, <1>11, <1>12
            <4>3. t[3] \notin {CR, LF, Nul} /\ t[4] \notin {CR, LF, Nul}
                BY <1>a, <1>11, <1>12
            <4>4. t[5] \notin {CR, LF, Nul} /\ t[6] \notin {CR, LF, Nul}
                BY <1>11, <1>12
            <4>5. \A i \in 1 .. 6 : 0 + i = i
                OBVIOUS
            <4>6. QED
                BY <4>1, <4>2, <4>3, <4>4, <4>5
        <3>3. t[0 + 6 + 1] = CR /\ t[0 + 6 + 2] = LF
            BY <1>11
        <3>4. QED
            BY <2>1, <3>1, <3>2, <3>3 DEF IsLineAt
    <2>2. CASE p # 0 /\ p = b
        <3>1. w = 0 /\ b + 0 + 1 = b + 1 /\ b + 0 + 2 = b + 2
            BY <1>8, <1>9, <2>2
        <3>2. QED
            BY <1>11, <2>2, <3>1 DEF IsLineAt
    <2>3. CASE p # 0 /\ p # b
        <3>1. w = 1
            BY <1>8, <2>3
        <3>2. PICK x \in {"keep", "length"} : t[p + 1] = x /\ t[p + 2] = CR /\ t[p + 3] = LF
            <4>1. CASE p = k
                BY <1>6, <1>11, <2>3, <4>1
            <4>2. CASE p # k
                <5>1. p = 8 /\ r.keep
                    BY <1>3, <1>6, <1>8, <2>3, <4>2
                <5>2. QED
                    BY <1>11, <5>1
            <4>3. QED
                BY <4>1, <4>2
        <3>3. p + 1 + 1 = p + 2 /\ p + 1 + 2 = p + 3
            BY <1>10
        <3>4. t[p + 1] \notin {CR, LF, Nul}
            BY <1>12, <3>2
        <3>5. \A i \in 1 .. 1 : t[p + i] \notin {CR, LF, Nul}
            <4>1. \A i \in 1 .. 1 : i = 1
                OBVIOUS
            <4>2. QED
                BY <3>4, <4>1
        <3>6. QED
            BY <3>1, <3>2, <3>3, <3>5 DEF IsLineAt
    <2>4. QED
        BY <2>1, <2>2, <2>3
<1>14. QED
    BY <1>1, <1>6, <1>5, <1>7, <1>10, <1>13

(* The line that follows. *)
LEMMA LineAfter ==
    ASSUME NEW r \in RequestType, NEW p \in LineStarts(r)
    PROVE  /\ p = 0 => p + WordsAt(r, p) + 2 = 8
           /\ p # 0 /\ p = BlankAt(r) => p + WordsAt(r, p) + 2 = BodyAt(r)
           /\ p # 0 /\ p # BlankAt(r) /\ p = LengthAt(r) =>
                /\ p + WordsAt(r, p) + 2 = BlankAt(r) /\ r.body
                /\ Text(r)[p + 1] = "length"
           /\ p # 0 /\ p # BlankAt(r) /\ p # LengthAt(r) =>
                /\ p = 8 /\ p + WordsAt(r, p) + 2 = LengthAt(r) /\ r.keep
                /\ Text(r)[p + 1] = "keep"
<1>1. IsText(Text(r), r)
    BY TextIs
<1>2. r.keep \in BOOLEAN /\ r.body \in BOOLEAN
    BY DEF RequestType
<1>3. PICK k : k = LengthAt(r)
    OBVIOUS
<1>4. PICK b : b = BlankAt(r)
    OBVIOUS
<1>5. /\ k = (IF r.keep THEN 11 ELSE 8) /\ b = (IF r.body THEN k + 3 ELSE k)
      /\ BodyAt(r) = b + 2 /\ k \in Nat /\ b \in Nat
    BY <1>3, <1>4, TextLenIs
<1>6. PICK w : w = WordsAt(r, p)
    OBVIOUS
<1>7. p \in {0, 8, k, b} /\ w = IF p = 0 THEN 6 ELSE IF p = b THEN 0 ELSE 1
    BY <1>3, <1>4, <1>6 DEF LineStarts, WordsAt
<1>8. (r.keep => Text(r)[8 + 1] = "keep") /\ (r.body => Text(r)[k + 1] = "length")
    BY <1>1, <1>3 DEF IsText
<1>9. p = 0 => p + w + 2 = 8
    BY <1>7
<1>10. p # 0 /\ p = b => p + w + 2 = b + 2
    BY <1>5, <1>7
<1>11. p # 0 /\ p # b /\ p = k => p + w + 2 = b /\ r.body
    BY <1>2, <1>5, <1>7
<1>12. p # 0 /\ p # b /\ p # k => p = 8 /\ p + w + 2 = k /\ r.keep
    BY <1>2, <1>5, <1>7
<1>13. QED
    BY <1>3, <1>4, <1>5, <1>6, <1>8, <1>9, <1>10, <1>11, <1>12

(* From p on, the buffer holds what has come of the text t, of which n     *)
(* symbols have; and the same behind a line whose end, at e, is blanked.   *)
Arrives(buf, p, n, t) ==
    \A i \in p .. BufSize : buf[i] = IF i < n THEN t[i + 1] ELSE Nul

LineArrives(buf, p, e, n, t) ==
    \A i \in p .. BufSize : buf[i] = IF i \notin {e, e + 1} /\ i < n THEN t[i + 1] ELSE Nul

(* What the parser knows at the beginning of a line. *)
AtLine(tk, r) ==
    /\ tk.check_state = "REQUESTLINE" =>
         tk.start_line = 0 /\ tk.content_length = 0 /\ ~tk.linger
    /\ tk.check_state = "HEADER" =>
         /\ tk.start_line \in {8, LengthAt(r), BlankAt(r)}
         /\ tk.content_length = IF r.body /\ tk.start_line >= BlankAt(r) THEN BodyLen ELSE 0
         /\ tk.linger <=> r.keep /\ tk.start_line >= LengthAt(r)
    /\ tk.check_state = "CONTENT" =>
         /\ tk.start_line = BodyAt(r) /\ r.body /\ tk.content_length = BodyLen
         /\ tk.linger <=> r.keep

(* A target with a path: it begins with the first slash that is not part of *)
(* a scheme, and a NUL is behind it.                                        *)
UrlOf(r) == IF r.target[1] = "/" THEN 2 ELSE 3

TargetAt(buf, r) ==
    /\ r.target[1] = "/" \/ r.target[2] = "/"
    /\ buf[2] = r.target[1] /\ buf[3] = r.target[2] /\ buf[4] = Nul

Target(tk, buf, r) ==
    tk.check_state # "REQUESTLINE" =>
        /\ r.method # "BREW" /\ tk.method = r.method
        /\ tk.url = UrlOf(r) /\ TargetAt(buf, r)

LEMMA SameTarget ==
    ASSUME NEW buf, NEW buf2, NEW r, buf2[2] = buf[2], buf2[3] = buf[3], buf2[4] = buf[4],
           TargetAt(buf, r)
    PROVE  TargetAt(buf2, r)
BY DEF TargetAt

(* Before a line is cut off, and when it is. *)
Before(tk, buf, r) ==
    /\ tk.checked_idx = tk.start_line
    /\ Arrives(buf, tk.start_line, tk.read_idx, Text(r))

Behind(tk, buf, r) ==
    LET e == tk.start_line + WordsAt(r, tk.start_line)
    IN  /\ tk.checked_idx = e + 2 /\ e + 2 <= tk.read_idx
        /\ LineArrives(buf, tk.start_line, e, tk.read_idx, Text(r))

InLine(parse, tk, buf, r) ==
    /\ tk.read_idx \in 1 .. TextLen(r)
    /\ AtLine(tk, r) /\ Target(tk, buf, r)
    /\ IF parse \/ tk.check_state = "CONTENT" THEN Before(tk, buf, r) ELSE Behind(tk, buf, r)

(* parse_line finds the end of the line the parser is in, or asks for more. *)
LEMMA ParseLineExact ==
    ASSUME Types, NEW r \in RequestType, InLine(TRUE, task, recv_buf, r), ParseLine
    PROVE  \/ \E c \in 0 .. BufSize, status \in {"OPEN", "BAD"} : NoRequest(c, status)
           \/ /\ task.check_state # "CONTENT"
              /\ task.start_line + WordsAt(r, task.start_line) + 2 <= task.read_idx
              /\ FoundLine(task.start_line + WordsAt(r, task.start_line) + 2,
                           task.start_line + WordsAt(r, task.start_line))
<1>1. PICK p : p = task.start_line
    OBVIOUS
<1>2. PICK n : n = task.read_idx
    OBVIOUS
<1>3. PICK t : t = Text(r)
    OBVIOUS
<1>4. /\ task.checked_idx = p /\ n \in 1 .. TextLen(r) /\ TextLen(r) \in Nat
      /\ TextLen(r) < BufSize /\ Arrives(recv_buf, p, n, t)
    BY <1>1, <1>2, <1>3, TextLenIs DEF InLine, Before
<1>5. ASSUME NEW at \in Nat, Found(at)
      PROVE  /\ task.check_state # "CONTENT" /\ recv_buf[at] = CR
             /\ at = p + WordsAt(r, p)
    <2>1. /\ at \in p .. n - 1 /\ recv_buf[at] \in {CR, LF}
          /\ \A i \in p .. at - 1 : recv_buf[i] \notin {CR, LF}
        BY <1>2, <1>4, <1>5 DEF Found
    <2>2. p \in Nat
        BY <1>1 DEF Types, InTypes, Task
    <2>3. ASSUME NEW i \in p .. n - 1 PROVE recv_buf[i] = t[i + 1]
        <3>1. i \in p .. BufSize /\ i < n
            BY <1>4, <2>2, Lengths
        <3>2. QED
            BY <1>4, <3>1 DEF Arrives
    <2>4. task.check_state # "CONTENT"
        <3>1. SUFFICES ASSUME task.check_state = "CONTENT" PROVE FALSE
            OBVIOUS
        <3>2. p = BodyAt(r)
            BY <1>1, <3>1 DEF InLine, AtLine
        <3>3. at + 1 \in BodyAt(r) + 1 .. TextLen(r)
            BY <1>4, <2>1, <2>2, <3>2
        <3>4. t[at + 1] = "x"
            BY <1>3, <3>3, TextIs DEF IsText
        <3>5. "x" \notin {CR, LF}
            BY DEF CR, LF
        <3>6. QED
            BY <2>1, <2>3, <3>4, <3>5
    <2>5. p \in LineStarts(r)
        <3>1. task.check_state \in {"REQUESTLINE", "HEADER"}
            BY <2>4 DEF Types, InTypes, Task
        <3>2. QED
            BY <1>1, <3>1 DEF InLine, AtLine, LineStarts
    <2>6. PICK w : w = WordsAt(r, p)
        OBVIOUS
    <2>7. /\ w \in 0 .. 6 /\ t[p + w + 1] = CR
          /\ \A i \in 1 .. w : t[p + i] \notin {CR, LF, Nul}
        BY <1>3, <2>5, <2>6, LineOf DEF IsLineAt
    <2>8. ~(at < p + w)
        <3>1. SUFFICES ASSUME at < p + w PROVE FALSE
            OBVIOUS
        <3>2. at - p + 1 \in 1 .. w /\ p + (at - p + 1) = at + 1
            BY <2>1, <2>2, <2>7, <3>1
        <3>3. t[at + 1] \notin {CR, LF}
            BY <2>7, <3>2
        <3>4. QED
            BY <2>1, <2>3, <3>3
    <2>9. ~(at > p + w)
        <3>1. SUFFICES ASSUME at > p + w PROVE FALSE
            OBVIOUS
        <3>2. p + w \in p .. at - 1 /\ p + w \in p .. n - 1
            BY <1>4, <2>1, <2>2, <2>7, <3>1
        <3>3. recv_buf[p + w] = CR
            BY <2>3, <2>7, <3>2
        <3>4. QED
            BY <2>1, <3>2, <3>3
    <2>10. at = p + w
        BY <2>1, <2>2, <2>7, <2>8, <2>9
    <2>11. recv_buf[at] = CR
        BY <2>1, <2>3, <2>7, <2>10
    <2>12. QED
        BY <2>4, <2>6, <2>10, <2>11
<1>6. CR # LF
    BY DEF CR, LF
<1>7. ASSUME NEW at \in Nat, Found(at), recv_buf[at] = CR, at + 2 <= task.read_idx,
             FoundLine(at + 2, at)
      PROVE  /\ task.check_state # "CONTENT"
             /\ task.start_line + WordsAt(r, task.start_line) + 2 <= task.read_idx
             /\ FoundLine(task.start_line + WordsAt(r, task.start_line) + 2,
                           task.start_line + WordsAt(r, task.start_line))
    BY <1>1, <1>5, <1>7
<1>8. ASSUME NEW at \in Nat, Found(at), recv_buf[at] = LF PROVE FALSE
    BY <1>5, <1>6, <1>8
<1>9. QED
    BY <1>7, <1>8, ParseLineIs

LEMMA StartsAre ==
    ASSUME NEW r \in RequestType, NEW tk, AtLine(tk, r),
           tk.check_state \in {"REQUESTLINE", "HEADER"}
    PROVE  tk.start_line \in LineStarts(r)
BY DEF AtLine, LineStarts

LEMMA FoundLineKeeps ==
    ASSUME Types, NEW r \in RequestType, InLine(TRUE, task, recv_buf, r),
           task.check_state # "CONTENT",
           NEW e, e = task.start_line + WordsAt(r, task.start_line),
           e + 2 <= task.read_idx, FoundLine(e + 2, e)
    PROVE  InLine(FALSE, task', recv_buf', r)
<1>1. PICK tk : tk = task
    OBVIOUS
<1>2. PICK buf : buf = recv_buf
    OBVIOUS
<1>3. PICK tk2 : tk2 = [tk EXCEPT !.checked_idx = e + 2, !.line_status = "OK"]
    OBVIOUS
<1>4. PICK buf2 : buf2 = [buf EXCEPT ![e] = Nul, ![e + 1] = Nul]
    OBVIOUS
<1>5. task' = tk2 /\ recv_buf' = buf2
    BY <1>1, <1>2, <1>3, <1>4 DEF FoundLine
<1>6. tk \in Task /\ buf \in [0 .. BufSize -> Symbols]
    BY <1>1, <1>2 DEF Types, InTypes
<1>7. /\ tk2.check_state = tk.check_state /\ tk2.start_line = tk.start_line
      /\ tk2.read_idx = tk.read_idx /\ tk2.checked_idx = e + 2 /\ tk2.method = tk.method
      /\ tk2.url = tk.url /\ tk2.content_length = tk.content_length /\ tk2.linger = tk.linger
    BY <1>3, <1>6 DEF Task
<1>8. InLine(TRUE, tk, buf, r) /\ tk.check_state # "CONTENT"
    BY <1>1, <1>2
<1>9. /\ tk.read_idx \in 1 .. TextLen(r) /\ AtLine(tk, r) /\ Target(tk, buf, r)
      /\ Before(tk, buf, r)
    BY <1>8 DEF InLine
<1>10. PICK p : p = tk.start_line
    OBVIOUS
<1>11. PICK n : n = tk.read_idx
    OBVIOUS
<1>12. p \in LineStarts(r) /\ p \in Nat /\ e = p + WordsAt(r, p) /\ e \in Nat /\ p <= e
    <2>1. p \in LineStarts(r)
        <3>1. tk.check_state \in {"REQUESTLINE", "HEADER"}
            BY <1>6, <1>8 DEF Task
        <3>2. QED
            BY <1>9, <1>10, <3>1, StartsAre
    <2>2. p \in Nat /\ WordsAt(r, p) \in 0 .. 6
        BY <2>1, LineOf
    <2>3. QED
        BY <1>1, <1>10, <2>1, <2>2
<1>13. n \in Nat /\ n <= TextLen(r) /\ TextLen(r) \in Nat /\ TextLen(r) < BufSize /\ e + 2 <= n
    BY <1>1, <1>9, <1>11, TextLenIs
<1>14. AtLine(tk2, r)
    BY <1>7, <1>9 DEF AtLine
<1>15. Target(tk2, buf2, r)
    <2>1. SUFFICES ASSUME tk.check_state # "REQUESTLINE"
                   PROVE  buf2[2] = buf[2] /\ buf2[3] = buf[3] /\ buf2[4] = buf[4]
        BY <1>7, <1>9, SameTarget DEF Target
    <2>2. p \in {8, LengthAt(r), BlankAt(r)}
        BY <1>6, <1>8, <1>9, <1>10, <2>1 DEF AtLine, Task
    <2>3. p >= 8
        <3>1. LengthAt(r) >= 8 /\ BlankAt(r) >= 8
            BY TextLenIs
        <3>2. QED
            BY <2>2, <3>1
    <2>4. e # 2 /\ e # 3 /\ e # 4 /\ e + 1 # 2 /\ e + 1 # 3 /\ e + 1 # 4
        BY <1>12, <2>3
    <2>5. 2 \in 0 .. BufSize /\ 3 \in 0 .. BufSize /\ 4 \in 0 .. BufSize
        BY Lengths
    <2>6. QED
        BY <1>4, <1>6, <2>4, <2>5
<1>16. Behind(tk2, buf2, r)
    <2>1. Arrives(buf, p, n, Text(r))
        BY <1>9, <1>10, <1>11 DEF Before
    <2>2. ASSUME NEW i \in p .. BufSize
          PROVE  buf2[i] = IF i \notin {e, e + 1} /\ i < n THEN Text(r)[i + 1] ELSE Nul
        <3>1. i \in 0 .. BufSize
            BY <1>12, Lengths
        <3>2. buf2[i] = IF i \in {e, e + 1} THEN Nul ELSE buf[i]
            BY <1>4, <1>6, <1>12, <3>1
        <3>3. buf[i] = IF i < n THEN Text(r)[i + 1] ELSE Nul
            BY <2>1 DEF Arrives
        <3>4. QED
            BY <3>2, <3>3
    <2>3. LineArrives(buf2, p, e, n, Text(r))
        BY <2>2 DEF LineArrives
    <2>4. QED
        BY <1>7, <1>10, <1>11, <1>12, <1>13, <2>3 DEF Behind
<1>17. QED
    BY <1>5, <1>7, <1>8, <1>9, <1>14, <1>15, <1>16 DEF InLine

(* The w symbols at a place of the buffer, and behind a place of a text. *)
Cut(buf, at, w) == [i \in 1 .. w |-> buf[at + i - 1]]

Words(t, p, w) == [i \in 1 .. w |-> t[p + i]]

(* The string at a place: what stands before a NUL. *)
LEMMA StringExact ==
    ASSUME NEW buf, NEW at \in Nat, NEW w \in Nat, at + w <= BufSize,
           \A i \in 1 .. w : buf[at + i - 1] # Nul, buf[at + w] = Nul
    PROVE  StringAt(buf, at) = Cut(buf, at, w)
<1>1. PICK before : before = {n \in 1 .. BufSize + 1 - at :
                                  \A i \in 1 .. n : buf[at + i - 1] # Nul}
    OBVIOUS
<1>2. ASSUME NEW n \in 1 .. w PROVE n \in before
    <2>1. n \in 1 .. BufSize + 1 - at
        BY Lengths
    <2>2. \A i \in 1 .. n : buf[at + i - 1] # Nul
        OBVIOUS
    <2>3. QED
        BY <1>1, <2>1, <2>2
<1>3. ASSUME NEW n \in before PROVE n \in 1 .. w
    <2>1. n \in Int /\ n >= 1 /\ \A i \in 1 .. n : buf[at + i - 1] # Nul
        BY <1>1, Lengths
    <2>2. CASE n > w
        <3>1. w + 1 \in 1 .. n /\ at + (w + 1) - 1 = at + w
            BY <2>1, <2>2
        <3>2. QED
            BY <2>1, <3>1
    <2>3. CASE n <= w
        BY <2>1, <2>3
    <2>4. QED
        BY <2>1, <2>2, <2>3
<1>4. before = 1 .. w
    BY <1>2, <1>3
<1>5. StringAt(buf, at) = [i \in before |-> buf[at + i - 1]]
    BY <1>1 DEF StringAt
<1>6. QED
    BY <1>4, <1>5 DEF Cut

(* The string of a line that is cut off: its words. *)
LEMMA LineString ==
    ASSUME NEW r \in RequestType, NEW tk \in Task, NEW buf, InLine(FALSE, tk, buf, r),
           tk.check_state # "CONTENT"
    PROVE  StringAt(buf, tk.start_line)
             = Words(Text(r), tk.start_line, WordsAt(r, tk.start_line))
<1>1. PICK p : p = tk.start_line
    OBVIOUS
<1>2. PICK n : n = tk.read_idx
    OBVIOUS
<1>3. PICK t : t = Text(r)
    OBVIOUS
<1>4. PICK w : w = WordsAt(r, p)
    OBVIOUS
<1>5. /\ n \in 1 .. TextLen(r) /\ AtLine(tk, r) /\ p + w + 2 <= n
      /\ LineArrives(buf, p, p + w, n, t)
    BY <1>1, <1>2, <1>3, <1>4 DEF InLine, Behind
<1>6. p \in LineStarts(r)
    <2>1. tk.check_state \in {"REQUESTLINE", "HEADER"}
        BY DEF Task
    <2>2. QED
        BY <1>1, <1>5, <2>1, StartsAre
<1>7. /\ p \in Nat /\ w \in 0 .. 6 /\ w \in Nat
      /\ \A i \in 1 .. w : t[p + i] \notin {CR, LF, Nul}
    <2>1. p \in Nat /\ w \in 0 .. 6 /\ IsLineAt(t, p, w)
        BY <1>3, <1>4, <1>6, LineOf
    <2>2. QED
        BY <2>1 DEF IsLineAt
<1>8. n \in Nat /\ n <= BufSize /\ p + w <= BufSize /\ p + w + 2 <= n
    BY <1>5, <1>7, TextLenIs, Lengths
<1>9. ASSUME NEW i \in 1 .. w PROVE buf[p + i - 1] = t[p + i]
    <2>1. p + i - 1 \in p .. BufSize /\ p + i - 1 < n /\ p + i - 1 + 1 = p + i
        BY <1>7, <1>8, Lengths
    <2>2. p + i - 1 \notin {p + w, p + w + 1}
        BY <1>7
    <2>3. QED
        BY <1>5, <2>1, <2>2 DEF LineArrives
<1>10. buf[p + w] = Nul
    <2>1. p + w \in p .. BufSize
        BY <1>7, <1>8, Lengths
    <2>2. QED
        BY <1>5, <2>1 DEF LineArrives
<1>11. \A i \in 1 .. w : buf[p + i - 1] # Nul
    BY <1>7, <1>9
<1>12. StringAt(buf, p) = Cut(buf, p, w)
    BY <1>7, <1>8, <1>10, <1>11, StringExact
<1>13. Cut(buf, p, w) = Words(t, p, w)
    BY <1>9 DEF Cut, Words
<1>14. QED
    BY <1>1, <1>3, <1>4, <1>12, <1>13

IsWords(u, t, p, w, S) ==
    u \in Seq(S) /\ Len(u) = w /\ \A i \in 1 .. w : u[i] = t[p + i]

LEMMA WordsAre ==
    ASSUME NEW S, NEW t, NEW p \in Nat, NEW w \in Nat, \A i \in 1 .. w : t[p + i] \in S
    PROVE  IsWords(Words(t, p, w), t, p, w, S)
BY DEF Words, IsWords

(* Behind a line that is cut off, the text of the request goes on. *)
Beyond(tk, buf, r, p, q) ==
    /\ p \in LineStarts(r) /\ p \in Nat /\ q \in Nat /\ p < q
    /\ tk.checked_idx = q /\ q <= tk.read_idx /\ q <= BodyAt(r)
    /\ Arrives(buf, q, tk.read_idx, Text(r))

LEMMA BehindIs ==
    ASSUME NEW r \in RequestType, NEW tk \in Task, NEW buf, InLine(FALSE, tk, buf, r),
           tk.check_state # "CONTENT",
           NEW p, p = tk.start_line, NEW q, q = p + WordsAt(r, p) + 2
    PROVE  Beyond(tk, buf, r, p, q)
<1>1. p = tk.start_line
    OBVIOUS
<1>2. PICK n : n = tk.read_idx
    OBVIOUS
<1>3. PICK w : w = WordsAt(r, p)
    OBVIOUS
<1>4. q = p + w + 2
    BY <1>3
<1>5. /\ AtLine(tk, r) /\ tk.checked_idx = q /\ q <= n
      /\ LineArrives(buf, p, p + w, n, Text(r))
    BY <1>1, <1>2, <1>3, <1>4 DEF InLine, Behind
<1>6. p \in LineStarts(r)
    <2>1. tk.check_state \in {"REQUESTLINE", "HEADER"}
        BY DEF Task
    <2>2. QED
        BY <1>1, <1>5, <2>1, StartsAre
<1>7. p \in Nat /\ w \in 0 .. 6 /\ q <= BodyAt(r)
    BY <1>3, <1>4, <1>6, LineOf
<1>8. ASSUME NEW i \in q .. BufSize
      PROVE  buf[i] = IF i < n THEN Text(r)[i + 1] ELSE Nul
    <2>1. i \in p .. BufSize /\ i \notin {p + w, p + w + 1}
        BY <1>4, <1>7, <1>8, Lengths
    <2>2. QED
        BY <1>5, <2>1 DEF LineArrives
<1>9. Arrives(buf, q, n, Text(r))
    BY <1>8 DEF Arrives
<1>10. p < q /\ q \in Nat
    BY <1>4, <1>7
<1>11. QED
    BY <1>2, <1>5, <1>6, <1>7, <1>9, <1>10 DEF Beyond

(* The request line: its target stands at 2, and behind it a NUL; one      *)
(* without a path is refused, or is the end of the process.                *)
LEMMA RequestLineExact ==
    ASSUME Types, NEW r \in RequestType, InLine(FALSE, task, recv_buf, r),
           task.check_state = "REQUESTLINE", RequestLine(task.start_line, Passed)
    PROVE  \/ Continue(task') /\ InLine(TRUE, task', recv_buf', r)
           \/ /\ r.method = "BREW" \/ NoPath(r, "https://")
              /\ \E t \in Task : ~t.linger /\ Respond("BAD_REQUEST", t)
           \/ NoPath(r, "http://") /\ \E t \in Task : Dies(t)
<1>1. PICK tk \in Task : tk = task
    BY DEF Types, InTypes
<1>2. PICK buf : buf = recv_buf
    OBVIOUS
<1>3. PICK n : n = tk.read_idx
    OBVIOUS
<1>4. PICK t : t = Text(r)
    OBVIOUS
<1>5. PICK ps : ps = Passed
    OBVIOUS
<1>6. /\ ps \in Task /\ ps.start_line = tk.checked_idx /\ ps.checked_idx = tk.checked_idx
      /\ ps.read_idx = n /\ ps.content_length = tk.content_length /\ ps.linger = tk.linger
    BY <1>1, <1>3, <1>5, PassedIs
<1>7. /\ InLine(FALSE, tk, buf, r) /\ tk.check_state = "REQUESTLINE"
      /\ buf \in [0 .. BufSize -> Symbols] /\ buf[BufSize] = Nul
    BY <1>1, <1>2 DEF Types, InTypes
<1>8. /\ tk.start_line = 0 /\ tk.content_length = 0 /\ ~tk.linger /\ n \in 1 .. TextLen(r)
      /\ LineArrives(buf, 0, 0 + WordsAt(r, 0), n, t)
    BY <1>3, <1>4, <1>7 DEF InLine, AtLine, Behind
<1>9. WordsAt(r, 0) = 6
    BY DEF WordsAt
<1>10. /\ tk.checked_idx = 8 /\ 8 <= n /\ Arrives(buf, 8, n, t)
    <2>1. 8 = 0 + WordsAt(r, 0) + 2 /\ tk.check_state # "CONTENT" /\ 0 = tk.start_line
        BY <1>7, <1>8, <1>9
    <2>2. Beyond(tk, buf, r, 0, 8)
        BY <1>7, <2>1, BehindIs
    <2>3. QED
        BY <1>3, <1>4, <2>2 DEF Beyond
<1>x. PICK x \in Symbols : x = r.target[1] /\ x \in {"/", "http://", "https://"}
    BY TargetIs DEF RequestType
<1>y. PICK y \in Symbols : y = r.target[2] /\ y \in {"page", "/"}
    BY TargetIs DEF RequestType
<1>z. r.target = <<x, y>> /\ r.target \in Targets
    BY <1>x, <1>y, TargetIs DEF RequestType
<1>11. /\ t[1] = r.method /\ t[2] = SP /\ t[3] = x /\ t[4] = y
       /\ t[5] = SP /\ t[6] = "HTTP/1.1" /\ r.method \in {"GET", "POST", "BREW"}
    BY <1>4, <1>x, <1>y, TextIs DEF IsText, RequestType
<1>12. PICK text : text = StringAt(buf, 0)
    OBVIOUS
<1>13. text = <<r.method, SP, x, y, SP, "HTTP/1.1">>
    <2>1. PICK u : u = Words(t, 0, 6)
        OBVIOUS
    <2>2. text = u
        BY <1>4, <1>7, <1>8, <1>9, <1>12, <2>1, LineString
    <2>3. \A i \in 1 .. 6 : t[0 + i] \in Symbols
        BY <1>11, SymbolsAre
    <2>4. u \in Seq(Symbols) /\ Len(u) = 6 /\ \A i \in 1 .. 6 : u[i] = t[0 + i]
        <3>1. IsWords(u, t, 0, 6, Symbols)
            BY <2>1, <2>3, WordsAre
        <3>2. QED
            BY <3>1 DEF IsWords
    <2>5. /\ u[1] = t[1] /\ u[2] = t[2] /\ u[3] = t[3] /\ u[4] = t[4] /\ u[5] = t[5]
          /\ u[6] = t[6]
        BY <2>4
    <2>6. PICK v : v = <<r.method, SP, x, y, SP, "HTTP/1.1">>
        OBVIOUS
    <2>7. /\ v \in Seq(Symbols) /\ Len(v) = 6 /\ v[1] = r.method /\ v[2] = SP
          /\ v[3] = x /\ v[4] = y /\ v[5] = SP /\ v[6] = "HTTP/1.1"
        BY <1>11, <2>6, SymbolsAre
    <2>8. \A i \in 1 .. 6 : u[i] = v[i]
        BY <1>11, <2>5, <2>7
    <2>9. u = v
        BY <2>4, <2>7, <2>8, SameSeq
    <2>10. QED
        BY <2>2, <2>6, <2>9
<1>t. text[1] = r.method /\ text[3] = x /\ text[4] = y
    BY <1>13
<1>u. PICK url : url = UrlAt(0, text)
    OBVIOUS
<1>v. /\ x = "/" => url = 2
      /\ x # "/" /\ y = "/" => url = 3
      /\ x # "/" /\ y # "/" => url = NoUrl
    BY <1>t, <1>u DEF UrlAt
<1>w. RequestLine(0, ps) /\ text = StringAt(recv_buf, 0) /\ recv_buf = buf
    BY <1>1, <1>2, <1>5, <1>8, <1>12
<1>14. ASSUME r.method # "BREW"
       PROVE  \/ Continue(task') /\ InLine(TRUE, task', recv_buf', r)
              \/ NoPath(r, "https://") /\ \E u \in Task : ~u.linger /\ Respond("BAD_REQUEST", u)
              \/ NoPath(r, "http://") /\ \E u \in Task : Dies(u)
    <2>1. text \in WellFormed
        <3>1. PICK method \in {"GET", "POST"} : method = r.method
            BY <1>11, <1>14
        <3>2. PICK target \in Targets : target = r.target
            BY <1>z
        <3>3. text = <<method, SP, target[1], target[2], SP, "HTTP/1.1">>
            BY <1>13, <1>x, <1>y, <3>1, <3>2
        <3>4. QED
            BY <3>3 DEF WellFormed
    <2>2. url \in NoUrl .. BufSize
        BY <1>12, <1>u, <2>1, UrlInside, Lengths
    <2>3. PICK u : u = [ps EXCEPT !.method = text[1], !.url = url]
        OBVIOUS
    <2>4. u \in Task /\ ~u.linger
        BY <1>6, <1>8, <1>11, <1>14, <1>t, <2>2, <2>3 DEF Task
    <2>5. PICK v : v = [u EXCEPT !.check_state = "HEADER"]
        OBVIOUS
    <2>6. PICK buf2 : buf2 = Blanked(buf, {0 + 1, 0 + 4})
        OBVIOUS
    <2>7. TargetLine(url, x, u) /\ recv_buf' = buf2
        BY <1>t, <1>u, <1>w, <2>1, <2>3, <2>6 DEF RequestLine
    <2>8. CASE x = "http://" /\ y # "/"
        <3>1. Dies(u)
            BY <1>v, <2>7, <2>8 DEF TargetLine
        <3>2. NoPath(r, "http://")
            BY <1>14, <1>y, <1>z, <2>8 DEF NoPath
        <3>3. QED
            BY <2>4, <3>1, <3>2
    <2>9. CASE x = "https://" /\ y # "/"
        <3>1. Respond("BAD_REQUEST", u)
            BY <1>v, <2>7, <2>9 DEF TargetLine, Refused
        <3>2. NoPath(r, "https://")
            BY <1>14, <1>y, <1>z, <2>9 DEF NoPath
        <3>3. QED
            BY <2>4, <3>1, <3>2
    <2>10. CASE x = "/" \/ y = "/"
        <3>1. url # NoUrl /\ url = UrlOf(r)
            BY <1>v, <1>x, <2>10, Lengths DEF UrlOf
        <3>2. Continue(v)
            BY <2>5, <2>7, <3>1 DEF TargetLine, Refused
        <3>3. task' = v
            BY <3>2 DEF Continue
        <3>4. /\ v.method = r.method /\ v.url = UrlOf(r) /\ v.check_state = "HEADER"
              /\ v.start_line = 8 /\ v.checked_idx = 8 /\ v.read_idx = n
              /\ v.content_length = 0 /\ ~v.linger
            <4>1. /\ u.method = r.method /\ u.url = url
                  /\ u.start_line = 8 /\ u.checked_idx = 8 /\ u.read_idx = n
                  /\ u.content_length = 0 /\ ~u.linger
                BY <1>6, <1>8, <1>10, <1>t, <2>3 DEF Task
            <4>2. QED
                BY <2>4, <2>5, <3>1, <4>1 DEF Task
        <3>5. \A i \in 0 .. BufSize : buf2[i] = IF i \in {1, 4} THEN Nul ELSE buf[i]
            BY <2>6 DEF Blanked
        <3>6. AtLine(v, r)
            BY <3>4, TextLenIs DEF AtLine, RequestType
        <3>7. Target(v, buf2, r)
            <4>1. 2 \in 0 .. BufSize /\ 3 \in 0 .. BufSize /\ 4 \in 0 .. BufSize
                BY Lengths
            <4>2. buf2[4] = Nul /\ buf2[3] = buf[3] /\ buf2[2] = buf[2]
                BY <3>5, <4>1
            <4>3. buf[2] = t[2 + 1] /\ buf[3] = t[3 + 1]
                <5>1. /\ 2 \notin {0 + WordsAt(r, 0), 0 + WordsAt(r, 0) + 1} /\ 2 < n
                      /\ 3 \notin {0 + WordsAt(r, 0), 0 + WordsAt(r, 0) + 1} /\ 3 < n
                    BY <1>8, <1>9, <1>10, TextLenIs
                <5>2. QED
                    BY <1>8, <4>1, <5>1 DEF LineArrives
            <4>4. TargetAt(buf2, r)
                BY <1>11, <1>x, <1>y, <2>10, <4>2, <4>3 DEF TargetAt
            <4>5. QED
                BY <1>14, <3>4, <4>4 DEF Target
        <3>8. Before(v, buf2, r)
            <4>1. ASSUME NEW i \in 8 .. BufSize
                  PROVE  buf2[i] = IF i < n THEN t[i + 1] ELSE Nul
                <5>1. i \in 0 .. BufSize /\ i \notin {1, 4}
                    BY Lengths
                <5>2. QED
                    BY <1>10, <3>5, <5>1 DEF Arrives
            <4>2. QED
                BY <1>4, <3>4, <4>1 DEF Before, Arrives
        <3>9. InLine(TRUE, v, buf2, r)
            BY <1>8, <3>4, <3>6, <3>7, <3>8 DEF InLine
        <3>10. QED
            BY <2>7, <3>2, <3>3, <3>9
    <2>11. QED
        BY <1>x, <2>8, <2>9, <2>10
<1>15. ASSUME r.method = "BREW"
       PROVE  \E u \in Task : ~u.linger /\ Respond("BAD_REQUEST", u)
    <2>1. text[1] = "BREW"
        BY <1>t, <1>15
    <2>2. text \notin WellFormed
        BY <2>1, WellFormedIs DEF IsWellFormed
    <2>3. AfterBlank(0, text) \in NoUrl .. BufSize
        BY <1>7, <1>12, BlankInside, Lengths
    <2>4. PICK u : u = [ps EXCEPT !.url = AfterBlank(0, text)]
        OBVIOUS
    <2>5. u \in Task /\ ~u.linger
        BY <1>6, <1>8, <2>3, <2>4 DEF Task
    <2>6. Respond("BAD_REQUEST", u)
        BY <1>w, <2>2, <2>4 DEF RequestLine
    <2>7. QED
        BY <2>5, <2>6
<1>16. QED
    BY <1>14, <1>15

(* What process_read hands to deal_request. *)
Ready(tk, buf, r) ==
    /\ r.method # "BREW" /\ tk.method = r.method /\ (tk.linger <=> r.keep)
    /\ tk.url = UrlOf(r) /\ TargetAt(buf, r)

(* A header, or the blank line behind them. *)
LEMMA HeaderExact ==
    ASSUME Types, NEW r \in RequestType, InLine(FALSE, task, recv_buf, r),
           task.check_state = "HEADER", Header(task.start_line, Passed)
    PROVE  \/ Continue(task') /\ InLine(TRUE, task', recv_buf', r)
           \/ /\ task.read_idx = TextLen(r) /\ Ready(Passed, recv_buf, r)
              /\ DealRequest(Passed, recv_buf)
<1>1. PICK tk \in Task : tk = task
    BY DEF Types, InTypes
<1>2. PICK buf : buf = recv_buf
    OBVIOUS
<1>3. PICK n : n = tk.read_idx
    OBVIOUS
<1>4. PICK t : t = Text(r)
    OBVIOUS
<1>5. PICK ps \in Task : ps = Passed
    BY PassedIs
<1>6. /\ ps.start_line = tk.checked_idx /\ ps.checked_idx = tk.checked_idx
      /\ ps.read_idx = n /\ ps.content_length = tk.content_length /\ ps.linger = tk.linger
      /\ ps.method = tk.method /\ ps.url = tk.url /\ ps.check_state = "HEADER"
    BY <1>1, <1>3, <1>5, PassedIs
<1>7. /\ InLine(FALSE, tk, buf, r) /\ tk.check_state = "HEADER" /\ tk.check_state # "CONTENT"
      /\ recv_buf' = buf
    BY <1>1, <1>2 DEF Header
<1>8. PICK p : p = tk.start_line
    OBVIOUS
<1>9. PICK w : w = WordsAt(r, p)
    OBVIOUS
<1>10. PICK q : q = p + w + 2
    OBVIOUS
<1>11. /\ p \in LineStarts(r) /\ p \in Nat /\ q \in Nat /\ q <= n /\ q <= BodyAt(r)
       /\ ps.start_line = q /\ ps.checked_idx = q /\ Arrives(buf, q, n, t)
    <2>1. Beyond(tk, buf, r, p, q)
        BY <1>7, <1>8, <1>9, <1>10, BehindIs
    <2>2. QED
        BY <1>3, <1>4, <1>6, <2>1 DEF Beyond
<1>12. PICK k : k = LengthAt(r)
    OBVIOUS
<1>13. PICK b : b = BlankAt(r)
    OBVIOUS
<1>14. /\ r.keep \in BOOLEAN /\ r.body \in BOOLEAN
       /\ k = (IF r.keep THEN 11 ELSE 8) /\ b = (IF r.body THEN k + 3 ELSE k)
       /\ BodyAt(r) = b + 2 /\ TextLen(r) = (IF r.body THEN BodyAt(r) + BodyLen ELSE BodyAt(r))
       /\ k \in Nat /\ b \in Nat
    BY <1>12, <1>13, TextLenIs DEF RequestType
<1>15. /\ n \in 1 .. TextLen(r) /\ p \in {8, k, b}
       /\ tk.content_length = (IF r.body /\ p >= b THEN BodyLen ELSE 0)
       /\ (tk.linger <=> r.keep /\ p >= k)
       /\ r.method # "BREW" /\ tk.method = r.method
       /\ tk.url = UrlOf(r) /\ TargetAt(buf, r)
    BY <1>3, <1>7, <1>8, <1>12, <1>13 DEF InLine, AtLine, Target
<1>16. p # 0
    BY <1>14, <1>15
<1>17. PICK text : text = StringAt(buf, p)
    OBVIOUS
<1>18. text = Words(t, p, w)
    BY <1>4, <1>7, <1>8, <1>9, <1>17, LineString
<1>19. ASSUME NEW u, recv_buf' = buf, u.read_idx = n, u.start_line = q, u.checked_idx = q,
              u.method = tk.method, u.url = UrlOf(r), AtLine(u, r)
       PROVE  InLine(TRUE, u, buf, r)
    BY <1>4, <1>11, <1>15, <1>19 DEF InLine, Before, Target
<1>20. CASE p = b
    <2>1. w = 0 /\ q = BodyAt(r)
        BY <1>9, <1>10, <1>11, <1>13, <1>14, <1>16, <1>20 DEF WordsAt
    <2>2. text = <<>>
        <3>1. \A i \in 1 .. 0 : t[p + i] \in Symbols
            OBVIOUS
        <3>2. PICK u : u = Words(t, p, 0)
            OBVIOUS
        <3>3. IsWords(u, t, p, 0, Symbols)
            BY <1>11, <3>1, <3>2, WordsAre
        <3>4. u \in Seq(Symbols) /\ Len(u) = 0
            BY <3>3 DEF IsWords
        <3>5. u = <<>>
            BY <3>4
        <3>6. QED
            BY <1>18, <2>1, <3>2, <3>5
    <2>3. (tk.linger <=> r.keep)
        BY <1>14, <1>15, <1>20
    <2>4. CASE r.body
        <3>1. ps.content_length = BodyLen /\ BodyLen # 0
            BY <1>6, <1>14, <1>15, <1>20, <2>4, Lengths
        <3>2. PICK u : u = [ps EXCEPT !.check_state = "CONTENT"]
            OBVIOUS
        <3>3. Continue(u)
            BY <1>1, <1>2, <1>5, <1>8, <1>17, <2>2, <3>1, <3>2 DEF Header
        <3>4. /\ u.check_state = "CONTENT" /\ u.read_idx = n /\ u.start_line = q
              /\ u.checked_idx = q /\ u.method = tk.method /\ u.url = UrlOf(r)
              /\ u.content_length = BodyLen /\ u.linger = tk.linger
            BY <1>6, <1>11, <1>15, <3>1, <3>2 DEF Task
        <3>5. AtLine(u, r)
            BY <2>1, <2>3, <2>4, <3>4 DEF AtLine
        <3>6. task' = u
            BY <3>3 DEF Continue
        <3>7. InLine(TRUE, u, buf, r)
            BY <1>7, <1>19, <3>4, <3>5
        <3>8. QED
            BY <1>7, <3>3, <3>6, <3>7
    <2>5. CASE ~r.body
        <3>1. ps.content_length = 0
            BY <1>6, <1>15, <2>5
        <3>2. DealRequest(ps, buf)
            BY <1>1, <1>2, <1>5, <1>8, <1>17, <2>2, <3>1 DEF Header
        <3>3. n = TextLen(r)
            BY <1>11, <1>14, <1>15, <2>1, <2>5
        <3>4. Ready(ps, buf, r)
            BY <1>6, <1>15, <2>3 DEF Ready
        <3>5. QED
            BY <1>1, <1>2, <1>3, <1>5, <3>2, <3>3, <3>4
    <2>6. QED
        BY <2>4, <2>5
<1>21. CASE p # b
    <2>1. w = 1
        BY <1>9, <1>13, <1>16, <1>21 DEF WordsAt
    <2>2. /\ p = k => q = b /\ r.body /\ t[p + 1] = "length"
          /\ p # k => p = 8 /\ q = k /\ r.keep /\ t[p + 1] = "keep"
        BY <1>4, <1>9, <1>10, <1>11, <1>12, <1>13, <1>16, <1>21, LineAfter
    <2>3. PICK x \in {"keep", "length"} : x = t[p + 1]
        BY <2>2
    <2>4. text = <<x>>
        <3>1. \A i \in 1 .. 1 : t[p + i] \in {"keep", "length"}
            <4>1. \A i \in 1 .. 1 : i = 1
                OBVIOUS
            <4>2. QED
                BY <2>3, <4>1
        <3>2. PICK u : u = Words(t, p, 1)
            OBVIOUS
        <3>3. IsWords(u, t, p, 1, {"keep", "length"})
            BY <1>11, <3>1, <3>2, WordsAre
        <3>4. u \in Seq({"keep", "length"}) /\ Len(u) = 1 /\ u[1] = x
            BY <2>3, <3>3 DEF IsWords
        <3>5. PICK v : v = <<x>>
            OBVIOUS
        <3>6. v \in Seq({"keep", "length"}) /\ Len(v) = 1 /\ v[1] = x
            BY <3>5
        <3>7. \A i \in 1 .. 1 : u[i] = v[i]
            BY <3>4, <3>6
        <3>8. u = v
            BY <3>4, <3>6, <3>7, SameSeq
        <3>9. QED
            BY <1>18, <2>1, <3>2, <3>5, <3>8
    <2>5. text # <<>> /\ (text = <<"keep">> <=> x = "keep") /\ (text = <<"length">> <=> x = "length")
        BY <2>4
    <2>6. PICK u : u = [ps EXCEPT !.linger = @ \/ text = <<"keep">>,
                                  !.content_length = IF text = <<"length">> THEN BodyLen ELSE @]
        OBVIOUS
    <2>7. Continue(u)
        BY <1>1, <1>2, <1>5, <1>8, <1>17, <2>5, <2>6 DEF Header
    <2>8. /\ u.check_state = "HEADER" /\ u.read_idx = n /\ u.start_line = q
          /\ u.checked_idx = q /\ u.method = tk.method /\ u.url = UrlOf(r)
          /\ u.content_length = (IF x = "length" THEN BodyLen ELSE tk.content_length)
          /\ (u.linger <=> tk.linger \/ x = "keep")
        BY <1>6, <1>11, <1>15, <2>5, <2>6 DEF Task
    <2>9. /\ q \in {k, b}
          /\ u.content_length = (IF r.body /\ q >= b THEN BodyLen ELSE 0)
          /\ (u.linger <=> r.keep /\ q >= k)
        <3>1. CASE p = k
            BY <1>14, <1>15, <2>2, <2>3, <2>8, <3>1
        <3>2. CASE p # k
            BY <1>14, <1>15, <2>2, <2>3, <2>8, <3>2
        <3>3. QED
            BY <3>1, <3>2
    <2>10. AtLine(u, r)
        BY <1>12, <1>13, <2>8, <2>9 DEF AtLine
    <2>11. task' = u
        BY <2>7 DEF Continue
    <2>12. InLine(TRUE, u, buf, r)
        BY <1>7, <1>19, <2>8, <2>10
    <2>13. QED
        BY <1>7, <2>7, <2>11, <2>12
<1>22. QED
    BY <1>20, <1>21

(* The body: complete when the whole text has come. *)
LEMMA ContentExact ==
    ASSUME Types, NEW r \in RequestType, InLine(FALSE, task, recv_buf, r),
           task.check_state = "CONTENT", Content(task.start_line, Passed)
    PROVE  \/ Continue(task') /\ InLine(TRUE, task', recv_buf', r)
           \/ /\ task.read_idx = TextLen(r) /\ Ready(Passed, recv_buf', r)
              /\ DealRequest(Passed, recv_buf')
<1>1. PICK tk \in Task : tk = task
    BY DEF Types, InTypes
<1>2. PICK buf : buf = recv_buf
    OBVIOUS
<1>3. PICK n : n = tk.read_idx
    OBVIOUS
<1>4. PICK ps \in Task : ps = Passed
    BY PassedIs
<1>5. /\ ps.start_line = tk.checked_idx /\ ps.checked_idx = tk.checked_idx
      /\ ps.read_idx = n /\ ps.content_length = tk.content_length /\ ps.linger = tk.linger
      /\ ps.method = tk.method /\ ps.url = tk.url /\ ps.check_state = "CONTENT"
    BY <1>1, <1>3, <1>4, PassedIs
<1>6. InLine(FALSE, tk, buf, r) /\ tk.check_state = "CONTENT"
    BY <1>1, <1>2
<1>7. PICK b : b = BodyAt(r)
    OBVIOUS
<1>8. /\ n \in 1 .. TextLen(r) /\ tk.start_line = b /\ tk.checked_idx = b /\ r.body
      /\ tk.content_length = BodyLen /\ (tk.linger <=> r.keep)
      /\ Arrives(buf, b, n, Text(r))
      /\ r.method # "BREW" /\ tk.method = r.method
      /\ tk.url = UrlOf(r) /\ TargetAt(buf, r)
    BY <1>3, <1>6, <1>7 DEF InLine, AtLine, Target, Before
<1>9. b \in Nat /\ b >= 10 /\ TextLen(r) = b + BodyLen /\ BodyLen \in Nat
    BY <1>7, <1>8, TextLenIs, Lengths
<1>10. CASE n >= BodyLen + b
    <2>1. n = TextLen(r)
        BY <1>8, <1>9, <1>10
    <2>2. PICK buf2 : buf2 = Blanked(buf, {b + BodyLen})
        OBVIOUS
    <2>3. recv_buf' = buf2 /\ DealRequest(ps, buf2)
        BY <1>1, <1>2, <1>4, <1>5, <1>8, <1>10, <2>2 DEF Content
    <2>4. buf2[2] = buf[2] /\ buf2[3] = buf[3] /\ buf2[4] = buf[4]
        <3>1. 2 \in 0 .. BufSize /\ 3 \in 0 .. BufSize /\ 4 \in 0 .. BufSize
            BY Lengths
        <3>2. 2 # b + BodyLen /\ 3 # b + BodyLen /\ 4 # b + BodyLen
            BY <1>9
        <3>3. QED
            BY <2>2, <3>1, <3>2 DEF Blanked
    <2>5. Ready(ps, buf2, r)
        BY <1>5, <1>8, <2>4, SameTarget DEF Ready
    <2>6. QED
        BY <1>1, <1>3, <1>4, <2>1, <2>3, <2>5
<1>11. CASE ~(n >= BodyLen + b)
    <2>1. PICK u : u = [ps EXCEPT !.line_status = "OPEN"]
        OBVIOUS
    <2>2. recv_buf' = buf /\ Continue(u)
        BY <1>1, <1>2, <1>4, <1>5, <1>8, <1>11, <2>1 DEF Content
    <2>3. task' = u
        BY <2>2 DEF Continue
    <2>4. /\ u.check_state = "CONTENT" /\ u.read_idx = n /\ u.start_line = b
          /\ u.checked_idx = b /\ u.method = tk.method /\ u.url = UrlOf(r)
          /\ u.content_length = BodyLen /\ u.linger = tk.linger
        BY <1>5, <1>8, <2>1 DEF Task
    <2>5. InLine(TRUE, u, buf, r)
        BY <1>7, <1>8, <2>4 DEF InLine, AtLine, Target, Before
    <2>6. QED
        BY <2>2, <2>3, <2>5
<1>12. QED
    BY <1>10, <1>11

LEMMA LastSlashIs ==
    ASSUME NEW text, NEW n \in 1 .. 2, DOMAIN text = 1 .. n,
           \A i \in 1 .. n : text[i] \in {"/", "page"}, \E i \in 1 .. n : text[i] = "/"
    PROVE  LastSlash(text) = "/"
<1>1. PICK found : found = {i \in DOMAIN text :
                                text[i] \in {"/", "http://", "https://", "HTTP/1.1"}}
    OBVIOUS
<1>2. found # {} /\ \A i \in found : i \in 1 .. 2 /\ text[i] = "/"
    BY <1>1
<1>3. PICK m : m = CHOOSE i \in found : \A j \in found : j <= i
    OBVIOUS
<1>4. \E i \in found : \A j \in found : j <= i
    <2>1. CASE 2 \in found
        BY <1>2, <2>1
    <2>2. CASE 2 \notin found
        <3>1. ASSUME NEW i \in found PROVE i = 1
            <4>1. i \in 1 .. 2
                BY <1>2
            <4>2. i # 2
                BY <2>2
            <4>3. QED
                BY <4>1, <4>2
        <3>2. PICK k : k \in found
            BY <1>2
        <3>3. k = 1 /\ 1 <= 1
            BY <3>1, <3>2
        <3>4. \A j \in found : j <= k
            BY <3>1, <3>3
        <3>5. QED
            BY <3>2, <3>4
    <2>3. QED
        BY <2>1, <2>2
<1>5. m \in found
    BY <1>3, <1>4
<1>6. LastSlash(text) = text[m]
    BY <1>1, <1>2, <1>3 DEF LastSlash
<1>7. QED
    BY <1>2, <1>5, <1>6

(* What stands where _url points, up to the NUL. *)
LEMMA TargetString ==
    ASSUME NEW r \in RequestType, NEW buf, TargetAt(buf, r)
    PROVE  LastSlash(StringAt(buf, UrlOf(r))) = "/"
<1>1. PICK at \in 2 .. 3 : at = UrlOf(r)
    BY DEF UrlOf
<1>2. PICK n \in 1 .. 2 : n = 4 - at
    OBVIOUS
<1>3. /\ r.target[1] \in {"/", "http://", "https://"} /\ r.target[2] \in {"page", "/"}
    BY TargetIs DEF RequestType
<1>4. /\ buf[3] \in {"page", "/"} /\ buf[4] = Nul
      /\ at = 2 => buf[2] = "/"
      /\ at = 3 => buf[3] = "/"
    BY <1>1, <1>3 DEF TargetAt, UrlOf
<1>5. \A i \in 1 .. n : buf[at + i - 1] \in {"/", "page"}
    <2>1. CASE at = 2
        <3>1. \A i \in 1 .. n : at + i - 1 = 2 \/ at + i - 1 = 3
            BY <1>2, <2>1
        <3>2. QED
            BY <1>4, <2>1, <3>1
    <2>2. CASE at = 3
        <3>1. \A i \in 1 .. n : at + i - 1 = 3
            BY <1>2, <2>2
        <3>2. QED
            BY <1>4, <3>1
    <2>3. QED
        BY <2>1, <2>2
<1>6. StringAt(buf, at) = Cut(buf, at, n)
    <2>1. at + n = 4 /\ at \in Nat /\ n \in Nat /\ at + n <= BufSize
        BY <1>2, Lengths
    <2>2. \A i \in 1 .. n : buf[at + i - 1] # Nul
        BY <1>5 DEF Nul
    <2>3. QED
        BY <1>4, <2>1, <2>2, StringExact
<1>7. PICK text : text = Cut(buf, at, n)
    OBVIOUS
<1>8. DOMAIN text = 1 .. n /\ \A i \in 1 .. n : text[i] = buf[at + i - 1]
    BY <1>7 DEF Cut
<1>9. text[1] = "/"
    <2>1. 1 \in 1 .. n /\ at + 1 - 1 = at
        OBVIOUS
    <2>2. buf[at] = "/"
        BY <1>4
    <2>3. QED
        BY <1>8, <2>1, <2>2
<1>10. \A i \in 1 .. n : text[i] \in {"/", "page"}
    BY <1>5, <1>8
<1>11. \E i \in 1 .. n : text[i] = "/"
    <2>1. 1 \in 1 .. n
        OBVIOUS
    <2>2. QED
        BY <1>9, <2>1
<1>12. DOMAIN text = 1 .. n
    BY <1>8
<1>13. LastSlash(text) = "/"
    BY <1>10, <1>11, <1>12, LastSlashIs
<1>14. QED
    BY <1>1, <1>6, <1>7, <1>13

(* deal_request makes of a request what it is; strrchr finds the slash.    *)
LEMMA DealRequestExact ==
    ASSUME NEW r \in RequestType, NEW t \in Task, NEW buf, Ready(t, buf, r),
           DealRequest(t, buf)
    PROVE  \E code \in Codes : /\ [code |-> code, linger |-> t.linger] = Meaning(r)
                               /\ Respond(code, t)
<1>1. /\ r.method \in {"GET", "POST"} /\ t.method = r.method
      /\ t.linger = r.keep /\ t.linger \in BOOLEAN
      /\ t.url = UrlOf(r) /\ TargetAt(buf, r)
    BY DEF Ready, RequestType, Task
<1>2. PICK target : target = LastSlash(StringAt(buf, t.url))
    OBVIOUS
<1>3. target = "/" /\ t.url # NoUrl
    BY <1>1, <1>2, TargetString, Lengths DEF UrlOf
<1>4. Meaning(r) = [code |-> IF r.method = "POST" THEN "GET_REQUEST" ELSE CodeOf("/"),
                    linger |-> r.keep]
    <2>1. ~NoPath(r, "http://") /\ ~NoPath(r, "https://")
        <3>1. r.target[1] = "/" \/ r.target[2] = "/"
            BY <1>1 DEF TargetAt
        <3>2. ASSUME NEW scheme \in {"http://", "https://"}, r.target = <<scheme, "page">>
              PROVE  FALSE
            BY <3>1, <3>2
        <3>3. QED
            BY <3>2 DEF NoPath
    <2>2. r.method # "BREW" /\ r.keep \in BOOLEAN
        BY <1>1
    <2>3. QED
        BY <1>1, <2>1, <2>2 DEF Meaning
<1>5. CASE r.method = "POST"
    <2>1. Respond("GET_REQUEST", t)
        BY <1>1, <1>5 DEF DealRequest
    <2>2. QED
        BY <1>1, <1>4, <1>5, <2>1, CodesAre
<1>6. CASE r.method = "GET"
    <2>1. ~(t.method = "POST") /\ ~(t.url = NoUrl \/ target = "null")
        BY <1>1, <1>3, <1>6
    <2>2. Respond(CodeOf(target), t)
        BY <1>2, <2>1 DEF DealRequest
    <2>3. QED
        BY <1>1, <1>3, <1>4, <1>6, <2>2, CodesAre
<1>7. QED
    BY <1>1, <1>5, <1>6

-----------------------------------------------------------------------------
(* Every request is taken for what it is, while none comes in pieces and   *)
(* none behind an answer that ends the connection.                         *)

Understood ==
    /\ Len(results) <= Len(asked)
    /\ \A i \in 1 .. Len(results) : results[i] = Meaning(asked[i])

(* The next request has not been read; the one that was asked cannot be    *)
(* completed; the parser is in it.                                         *)
Expecting ==
    \/ Len(asked) = Len(results) /\ inbox = <<>> /\ wire = <<>>
    \/ Len(asked) = Len(results) + 1 /\ inbox \o wire = Text(Request)

Stuck ==
    Len(asked) = Len(results) + 1 /\ Len(inbox) + Len(wire) < TextLen(Request)

Parsing ==
    /\ Len(asked) = Len(results) + 1
    /\ task.read_idx + (Len(inbox) + Len(wire)) = TextLen(Request)
    /\ stage = "parse" => InLine(TRUE, task, recv_buf, Request)
    /\ stage = "line" => InLine(FALSE, task, recv_buf, Request)

(* A target http:// without a path was asked for, or an answer was finished *)
(* before any page was mapped.                                              *)
Excused ==
    \/ \E i \in 1 .. Len(asked) : NoPath(asked[i], "http://")
    \/ /\ \E i \in 1 .. Len(results) : results[i].code \in Answered
       /\ \A i \in 1 .. Len(results) : results[i].code # "FILE_REQUEST"

Places ==
    /\ Understood
    /\ stage = "wait" /\ armed = "in" => Closed \/ Stuck \/ (task = Fresh /\ Expecting)
    /\ stage = "write" \/ (stage = "wait" /\ armed = "out") => Closed \/ Expecting
    /\ stage \in {"parse", "line"} => Parsing
    /\ stage = "dead" => Excused

Parser == faults \cap {"piece", "closed"} = {} => Places

LEMMA ParserInit == Init => Parser
<1>1. SUFFICES ASSUME Init PROVE Places
    BY DEF Parser
<1>2. /\ Len(results) = 0 /\ Len(asked) = 0 /\ inbox = <<>> /\ wire = <<>>
      /\ stage = "wait" /\ armed = "in" /\ task = Fresh
    BY <1>1 DEF Init
<1>3. Understood
    BY <1>2 DEF Understood
<1>4. QED
    BY <1>2, <1>3 DEF Places, Expecting

(* The request that is read was asked. *)
LEMMA RequestIs ==
    ASSUME Types, Len(asked) = Len(results) + 1
    PROVE  Request \in RequestType /\ Len(asked) \in Nat \ {0} /\ Len(results) \in Nat
<1>1. asked \in Seq(Requests) /\ Len(results) \in Nat
    BY DEF Types, InTypes, OutTypes
<1>2. PICK m : m = Len(asked)
    OBVIOUS
<1>3. m \in 1 .. Len(asked) /\ m \in Nat \ {0}
    BY <1>1, <1>2
<1>4. asked[m] \in Requests
    BY <1>1, <1>3
<1>5. QED
    BY <1>1, <1>2, <1>3, <1>4, Lengths DEF Request

LEMMA SameRequests ==
    ASSUME mode' = mode, results' = results, asked' = asked
    PROVE  (Understood' <=> Understood) /\ (Closed' <=> Closed) /\ Request' = Request
BY DEF Understood, Meaning, CodeOf, Closed, Request

(* What has excused the death of the process goes on to. *)
LEMMA SameExcuse ==
    ASSUME results' = results, asked' = asked
    PROVE  Excused' <=> Excused
BY DEF Excused

LEMMA AskParser ==
    ASSUME Types, Places, Ask
    PROVE  Places'
<1>1. PICK r \in Requests : asked' = Append(asked, r) /\ wire' = Text(r)
    BY DEF Ask
<1>2. /\ results' = results /\ mode' = mode /\ inbox' = inbox /\ task' = task
      /\ recv_buf' = recv_buf /\ armed' = armed /\ stage' = stage /\ faults' = faults
      /\ inbox = <<>> /\ Len(results) = Len(asked) /\ stage # "dead"
    BY DEF Ask, parser
<1>3. PICK m \in Nat : m = Len(results)
    BY DEF Types, OutTypes
<1>4. PICK a : a = Append(asked, r)
    OBVIOUS
<1>5. /\ Len(a) = m + 1 /\ a[m + 1] = r
      /\ \A i \in 1 .. m : a[i] = asked[i]
    BY <1>2, <1>3, <1>4, AppendIs DEF Types, InTypes
<1>6. Understood'
    <2>1. asked' = a
        BY <1>1, <1>4
    <2>2. \A i \in 1 .. m : results[i] = Meaning(asked[i])
        BY <1>3 DEF Places, Understood
    <2>3. QED
        BY <1>2, <1>3, <1>5, <2>1, <2>2 DEF Understood, Meaning, CodeOf
<1>7. Closed' <=> Closed
    BY <1>2 DEF Closed
<1>8. Expecting'
    <2>1. asked' = a /\ Request' = r
        BY <1>1, <1>4, <1>5 DEF Request
    <2>2. PICK t : t = Text(r)
        OBVIOUS
    <2>3. t \in Seq(Symbols)
        BY <1>1, <2>2, TextIs, Lengths DEF IsText
    <2>4. <<>> \o t = t
        BY <2>3, EmptyConcat
    <2>5. QED
        BY <1>1, <1>2, <1>3, <1>5, <2>1, <2>2, <2>4 DEF Expecting
<1>9. ~(Len(asked) = Len(results) + 1)
    BY <1>2, <1>3
<1>10. ~Stuck /\ ~Parsing
    BY <1>9 DEF Stuck, Parsing
<1>11. QED
    BY <1>2, <1>6, <1>7, <1>8, <1>10 DEF Places

LEMMA DeliverParser ==
    ASSUME Types, Places, Deliver
    PROVE  Places'
<1>1. /\ results' = results /\ mode' = mode /\ asked' = asked /\ task' = task
      /\ recv_buf' = recv_buf /\ armed' = armed /\ stage' = stage /\ faults' = faults
      /\ wire # <<>>
    BY DEF Deliver, parser, history
<1>2. (Understood' <=> Understood) /\ (Closed' <=> Closed) /\ Request' = Request
    BY <1>1, SameRequests
<1>3. /\ Len(inbox') + Len(wire') = Len(inbox) + Len(wire)
      /\ inbox' \o wire' = inbox \o wire
    BY DeliverIs
<1>4. Expecting => Expecting'
    BY <1>1, <1>2, <1>3 DEF Expecting
<1>5. Stuck => Stuck'
    BY <1>1, <1>2, <1>3 DEF Stuck
<1>6. Parsing => Parsing'
    BY <1>1, <1>2, <1>3 DEF Parsing
<1>7. Excused' <=> Excused
    BY <1>1, SameExcuse
<1>8. QED
    BY <1>1, <1>2, <1>4, <1>5, <1>6, <1>7 DEF Places

(* A step that leaves the requests and what has come of them alone. *)
LEMMA SamePlaces ==
    ASSUME UNCHANGED <<mode, results, asked, inbox, wire>>
    PROVE  /\ (Understood' <=> Understood) /\ (Closed' <=> Closed) /\ Request' = Request
           /\ (Expecting' <=> Expecting) /\ (Stuck' <=> Stuck) /\ (Excused' <=> Excused)
<1>1. (Understood' <=> Understood) /\ (Closed' <=> Closed) /\ Request' = Request
    BY SameRequests
<1>2. Excused' <=> Excused
    BY SameExcuse
<1>3. QED
    BY <1>1, <1>2 DEF Expecting, Stuck

(* receive fills the buffer with the whole request. *)
LEMMA ReceiveParser ==
    ASSUME Types, Places, Receive, faults' \cap {"piece", "closed"} = {}
    PROVE  Places'
<1>1. /\ UNCHANGED <<mode, results, asked, wire>> /\ inbox # <<>> /\ inbox' = <<>>
      /\ stage = "wait" /\ armed = "in" /\ stage' = "parse"
      /\ task' = [task EXCEPT !.read_idx = Len(inbox), !.line_status = "OK"]
      /\ recv_buf' = [i \in 0 .. BufSize |-> IF i < Len(inbox) THEN inbox[i + 1] ELSE Nul]
    BY DEF Receive
<1>2. ~Closed /\ inbox \o wire = Text(Request)
    BY DEF Receive, Request
<1>3. (Understood' <=> Understood) /\ Request' = Request
    BY <1>1, SameRequests
<1>4. PICK in : in = inbox
    OBVIOUS
<1>5. PICK w : w = wire
    OBVIOUS
<1>6. in \in Seq(Symbols) /\ w \in Seq(Symbols) /\ in # <<>> /\ Len(in) \in Nat \ {0}
    <2>1. in \in Seq(Symbols) /\ w \in Seq(Symbols) /\ in # <<>>
        BY <1>1, <1>4, <1>5 DEF Types, InTypes
    <2>2. QED
        BY <2>1
<1>7. PICK t : t = in \o w
    OBVIOUS
<1>8. IsConcat(t, in, w, Symbols)
    BY <1>6, <1>7, ConcatIs
<1>9. t = Text(Request)
    BY <1>2, <1>4, <1>5, <1>7
<1>10. Len(asked) = Len(results) + 1 /\ task = Fresh
    <2>1. Stuck \/ (task = Fresh /\ Expecting)
        BY <1>1, <1>2 DEF Places
    <2>2. ~Stuck
        <3>1. SUFFICES ASSUME Stuck PROVE FALSE
            OBVIOUS
        <3>2. Request \in RequestType
            BY <3>1, RequestIs DEF Stuck
        <3>3. Len(t) = TextLen(Request) /\ Len(t) = Len(in) + Len(w)
            BY <1>8, <1>9, <3>2, TextIs DEF IsText, IsConcat
        <3>4. Len(inbox) + Len(wire) < TextLen(Request)
            BY <3>1 DEF Stuck
        <3>5. QED
            BY <1>4, <1>5, <1>8, <3>2, <3>3, <3>4, TextLenIs DEF IsConcat
    <2>3. Expecting /\ task = Fresh
        BY <2>1, <2>2
    <2>4. QED
        BY <1>1, <2>3 DEF Expecting
<1>11. PICK r \in RequestType : r = Request
    BY <1>10, RequestIs
<1>12. PICK n \in Nat : n = Len(in)
    BY <1>6
<1>13. /\ Len(t) = TextLen(r) /\ Len(t) = n + Len(w) /\ n >= 1
       /\ Len(w) \in Nat /\ TextLen(r) \in Nat /\ TextLen(r) < BufSize
       /\ \A i \in 1 .. n : t[i] = in[i]
    <2>1. Len(t) = TextLen(r)
        BY <1>9, <1>11, TextIs DEF IsText
    <2>2. Len(t) = n + Len(w) /\ \A i \in 1 .. n : t[i] = in[i]
        BY <1>8, <1>12 DEF IsConcat
    <2>3. TextLen(r) \in Nat /\ TextLen(r) < BufSize
        BY TextLenIs
    <2>4. n >= 1 /\ Len(w) \in Nat
        BY <1>6, <1>12
    <2>5. QED
        BY <2>1, <2>2, <2>3, <2>4
<1>14. PICK tk : tk = task'
    OBVIOUS
<1>15. /\ tk.check_state = "REQUESTLINE" /\ tk.start_line = 0 /\ tk.checked_idx = 0
       /\ tk.content_length = 0 /\ ~tk.linger /\ tk.read_idx = n
    BY <1>1, <1>4, <1>10, <1>12, <1>14 DEF Fresh
<1>16. PICK buf : buf = recv_buf'
    OBVIOUS
<1>17. \A i \in 0 .. BufSize : buf[i] = IF i < n THEN t[i + 1] ELSE Nul
    <2>1. ASSUME NEW i \in 0 .. BufSize PROVE buf[i] = IF i < n THEN t[i + 1] ELSE Nul
        <3>1. buf[i] = IF i < n THEN in[i + 1] ELSE Nul
            BY <1>1, <1>4, <1>12, <1>16
        <3>2. i < n => i + 1 \in 1 .. n
            BY <1>12
        <3>3. QED
            BY <1>13, <3>1, <3>2
    <2>2. QED
        BY <2>1
<1>18. InLine(TRUE, tk, buf, r)
    <2>1. n \in 1 .. TextLen(r)
        BY <1>13
    <2>2. AtLine(tk, r) /\ Target(tk, buf, r)
        BY <1>15 DEF AtLine, Target
    <2>3. Before(tk, buf, r)
        BY <1>9, <1>11, <1>15, <1>17 DEF Before, Arrives
    <2>4. QED
        BY <1>15, <2>1, <2>2, <2>3 DEF InLine
<1>19. Parsing'
    <2>1. task'.read_idx + (Len(inbox') + Len(wire')) = TextLen(r)
        <3>1. Len(inbox') = 0
            BY <1>1, TuplesAre
        <3>2. n + (0 + Len(w)) = TextLen(r)
            BY <1>13
        <3>3. QED
            BY <1>1, <1>5, <1>14, <1>15, <3>1, <3>2
    <2>2. QED
        BY <1>1, <1>3, <1>10, <1>11, <1>14, <1>16, <1>18, <2>1 DEF Parsing
<1>20. QED
    BY <1>1, <1>3, <1>19 DEF Places

(* parse_line: the parser is behind a line, or waits for what it lacks. *)
LEMMA NextLineParser ==
    ASSUME Types, Places, NextLine
    PROVE  Places'
<1>1. /\ UNCHANGED <<mode, results, asked, inbox, wire>> /\ stage = "parse"
      /\ faults' = faults
    BY DEF NextLine, history
<1>2. Understood' /\ Request' = Request /\ (Stuck' <=> Stuck)
    BY <1>1, SamePlaces DEF Places
<1>3. Parsing
    BY <1>1 DEF Places
<1>4. PICK r \in RequestType : r = Request
    BY <1>3, RequestIs DEF Parsing
<1>5. /\ Len(asked) = Len(results) + 1
      /\ task.read_idx + (Len(inbox) + Len(wire)) = TextLen(r)
      /\ InLine(TRUE, task, recv_buf, r)
    BY <1>1, <1>3, <1>4 DEF Parsing
<1>6. CASE task.check_state = "CONTENT" /\ task.line_status = "OK"
    <2>1. stage' = "line" /\ task' = task /\ recv_buf' = recv_buf
        BY <1>6 DEF NextLine, parser
    <2>2. InLine(FALSE, task, recv_buf, r)
        BY <1>5, <1>6 DEF InLine
    <2>3. Parsing'
        BY <1>1, <1>2, <1>4, <1>5, <2>1, <2>2 DEF Parsing
    <2>4. QED
        BY <1>2, <2>1, <2>3 DEF Places
<1>7. CASE ParseLine
    <2>1. ASSUME NEW c, NEW status, NoRequest(c, status) PROVE Places'
        <3>1. stage' = "wait" /\ armed' = "in"
            BY <2>1 DEF NoRequest
        <3>2. Stuck
            <4>1. task.read_idx \in 1 .. TextLen(r) /\ TextLen(r) \in Nat
                BY <1>5, TextLenIs DEF InLine
            <4>2. Len(inbox) \in Nat /\ Len(wire) \in Nat
                BY DEF Types, InTypes
            <4>3. Len(inbox) + Len(wire) < TextLen(r)
                BY <1>5, <4>1, <4>2
            <4>4. QED
                BY <1>4, <1>5, <4>3 DEF Stuck
        <3>3. QED
            BY <1>2, <3>1, <3>2 DEF Places
    <2>2. PICK e : e = task.start_line + WordsAt(r, task.start_line)
        OBVIOUS
    <2>3. ASSUME task.check_state # "CONTENT", e + 2 <= task.read_idx, FoundLine(e + 2, e)
          PROVE  Places'
        <3>1. InLine(FALSE, task', recv_buf', r)
            BY <1>5, <2>2, <2>3, FoundLineKeeps
        <3>2. stage' = "line" /\ task'.read_idx = task.read_idx
            BY <2>3 DEF FoundLine, Types, InTypes, Task
        <3>3. Parsing'
            BY <1>1, <1>2, <1>4, <1>5, <3>1, <3>2 DEF Parsing
        <3>4. QED
            BY <1>2, <3>2, <3>3 DEF Places
    <2>4. QED
        BY <1>5, <1>7, <2>1, <2>2, <2>3, ParseLineExact
<1>8. QED
    BY <1>6, <1>7 DEF NextLine

(* An answer to the request that was asked. *)
LEMMA RespondParser ==
    ASSUME Types, Places, Parsing, UNCHANGED <<mode, wire, inbox, asked>>,
           NEW t \in Task, NEW code, Respond(code, t),
           [code |-> code, linger |-> t.linger] = Meaning(Request),
           \/ code \in Answered /\ ~t.linger
           \/ task.read_idx = TextLen(Request)
    PROVE  Places'
<1>1. PICK x : x = [code |-> code, linger |-> t.linger]
    OBVIOUS
<1>2. results' = Append(results, x) /\ stage' = "wait" /\ armed' = "out"
    BY <1>1 DEF Respond
<1>3. PICK m \in Nat : m = Len(results)
    BY DEF Types, OutTypes
<1>4. PICK rs : rs = Append(results, x)
    OBVIOUS
<1>5. Len(asked) = m + 1 /\ Request = asked[m + 1] /\ Request \in RequestType
    BY <1>3, RequestIs DEF Parsing, Request
<1>6. Len(rs) = m + 1 /\ rs[m + 1] = x /\ \A i \in 1 .. m : rs[i] = results[i]
    <2>1. PICK S : S = {results[i] : i \in 1 .. m} \cup {x}
        OBVIOUS
    <2>2. results \in Seq(S)
        <3>1. results \in Seq(Result)
            BY DEF Types, OutTypes
        <3>2. \A i \in 1 .. m : results[i] \in S
            BY <2>1
        <3>3. QED
            BY <1>3, <3>1, <3>2
    <2>3. x \in S
        BY <2>1
    <2>4. QED
        BY <1>3, <1>4, <2>2, <2>3, AppendIs
<1>7. Understood'
    <2>1. \A i \in 1 .. m : results[i] = Meaning(asked[i])
        BY <1>3 DEF Places, Understood
    <2>2. x = Meaning(asked[m + 1])
        BY <1>1, <1>5
    <2>3. \A i \in 1 .. m + 1 : rs[i] = Meaning(asked[i])
        <3>1. ASSUME NEW i \in 1 .. m + 1 PROVE rs[i] = Meaning(asked[i])
            <4>1. CASE i = m + 1
                BY <1>6, <2>2, <4>1
            <4>2. CASE i # m + 1
                <5>1. i \in 1 .. m
                    BY <1>3, <4>2
                <5>2. QED
                    BY <1>6, <2>1, <5>1
            <4>3. QED
                BY <4>1, <4>2
        <3>2. QED
            BY <3>1
    <2>4. results' = rs
        BY <1>2, <1>4
    <2>5. QED
        BY <1>3, <1>5, <1>6, <2>3, <2>4 DEF Understood, Meaning, CodeOf
<1>8. Closed' \/ Expecting'
    <2>1. CASE code \in Answered /\ ~t.linger
        <3>1. rs # <<>>
            BY <1>3, <1>6, TuplesAre
        <3>2. rs[Len(rs)] = x
            BY <1>6
        <3>3. results' = rs
            BY <1>2, <1>4
        <3>4. QED
            BY <1>1, <2>1, <3>1, <3>2, <3>3 DEF Closed
    <2>2. CASE task.read_idx = TextLen(Request)
        <3>1. Len(inbox) = 0 /\ Len(wire) = 0
            <4>1. Len(inbox) \in Nat /\ Len(wire) \in Nat /\ TextLen(Request) \in Nat
                BY <1>5, TextLenIs DEF Types, InTypes
            <4>2. QED
                BY <2>2, <4>1 DEF Parsing
        <3>2. inbox = <<>> /\ wire = <<>>
            <4>1. inbox \in Seq(Symbols) /\ wire \in Seq(Symbols)
                BY DEF Types, InTypes
            <4>2. QED
                BY <3>1, <4>1
        <3>3. Len(asked) = Len(rs) /\ results' = rs
            BY <1>2, <1>4, <1>5, <1>6
        <3>4. QED
            BY <3>2, <3>3 DEF Expecting
    <2>3. QED
        BY <2>1, <2>2
<1>9. QED
    BY <1>2, <1>7, <1>8 DEF Places

(* The parser forgets nothing of what is received. *)
LEMMA ReadIdxKept ==
    ASSUME Types, TakeLine
    PROVE  task'.read_idx = task.read_idx
<1>1. PICK p \in Task : p = Passed
    BY PassedIs
<1>2. p.read_idx = task.read_idx
    BY <1>1, PassedIs
<1>3. PICK at : at = task.start_line
    OBVIOUS
<1>4. RequestLine(at, p) \/ Header(at, p) \/ Content(at, p)
    BY <1>1, <1>3 DEF TakeLine, Passed, Types, InTypes, Task
<1>5. ASSUME NEW buf, DealRequest(p, buf) PROVE task' = p
    BY <1>5 DEF DealRequest, Respond, Dies
<1>6. CASE RequestLine(at, p)
    <2>1. at \in 0 .. BufSize
        BY <1>3, PassedIs
    <2>2. PICK u \in Task : /\ u.read_idx = p.read_idx
                            /\ Continue(u) \/ Dies(u) \/ Respond("BAD_REQUEST", u)
        BY <1>6, <2>1, RequestLineIs DEF RequestLineEnds
    <2>3. QED
        BY <1>2, <2>2 DEF Continue, Dies, Respond
<1>7. CASE Header(at, p)
    <2>1. PICK text : text = StringAt(recv_buf, at)
        OBVIOUS
    <2>2. PICK u : u = [p EXCEPT !.check_state = "CONTENT"]
        OBVIOUS
    <2>3. PICK v : v = [p EXCEPT !.linger = @ \/ text = <<"keep">>,
                                 !.content_length = IF text = <<"length">> THEN BodyLen ELSE @]
        OBVIOUS
    <2>4. u.read_idx = p.read_idx /\ v.read_idx = p.read_idx
        BY <2>2, <2>3 DEF Task
    <2>5. Continue(u) \/ DealRequest(p, recv_buf) \/ Continue(v)
        BY <1>7, <2>1, <2>2, <2>3 DEF Header
    <2>6. QED
        BY <1>2, <1>5, <2>4, <2>5 DEF Continue
<1>8. CASE Content(at, p)
    <2>1. PICK u : u = [p EXCEPT !.line_status = "OPEN"]
        OBVIOUS
    <2>2. u.read_idx = p.read_idx
        BY <2>1 DEF Task
    <2>3. Continue(u) \/ DealRequest(p, recv_buf')
        BY <1>8, <2>1 DEF Content
    <2>4. QED
        BY <1>2, <1>5, <2>2, <2>3 DEF Continue
<1>9. QED
    BY <1>4, <1>6, <1>7, <1>8

LEMMA TakeLineParser ==
    ASSUME Types, Places, TakeLine
    PROVE  Places'
<1>1. UNCHANGED <<mode, wire, inbox, asked>> /\ stage = "line"
    BY TakeLineIs
<1>2. Parsing
    BY <1>1 DEF Places
<1>3. PICK r \in RequestType : r = Request
    BY <1>2, RequestIs DEF Parsing
<1>4. /\ Len(asked) = Len(results) + 1
      /\ task.read_idx + (Len(inbox) + Len(wire)) = TextLen(r)
      /\ InLine(FALSE, task, recv_buf, r)
    BY <1>1, <1>2, <1>3 DEF Parsing
<1>5. ASSUME Continue(task'), InLine(TRUE, task', recv_buf', r), task'.read_idx = task.read_idx
      PROVE  Places'
    <2>1. UNCHANGED <<mode, results, asked, inbox, wire>> /\ stage' = "parse"
        BY <1>1, <1>5 DEF Continue
    <2>2. Understood' /\ Request' = Request
        BY <2>1, SamePlaces DEF Places
    <2>3. Parsing'
        BY <1>3, <1>4, <1>5, <2>1, <2>2 DEF Parsing
    <2>4. QED
        BY <2>1, <2>2, <2>3 DEF Places
<1>6. ASSUME NEW t \in Task, NEW buf, Ready(t, buf, r), DealRequest(t, buf),
             task.read_idx = TextLen(r)
      PROVE  Places'
    <2>1. PICK code \in Codes : /\ [code |-> code, linger |-> t.linger] = Meaning(r)
                                /\ Respond(code, t)
        BY <1>6, DealRequestExact
    <2>2. QED
        BY <1>1, <1>2, <1>3, <1>6, <2>1, RespondParser
<1>7. Passed \in Task
    BY PassedIs
<1>8. CASE task.check_state = "REQUESTLINE" /\ RequestLine(task.start_line, Passed)
    <2>1. CASE Continue(task') /\ InLine(TRUE, task', recv_buf', r)
        BY <1>5, <1>8, <2>1, ReadIdxKept
    <2>2. CASE /\ r.method = "BREW" \/ NoPath(r, "https://")
               /\ \E t \in Task : ~t.linger /\ Respond("BAD_REQUEST", t)
        <3>1. PICK t \in Task : ~t.linger /\ Respond("BAD_REQUEST", t)
            BY <2>2
        <3>2. [code |-> "BAD_REQUEST", linger |-> t.linger] = Meaning(r)
            <4>1. t.linger = FALSE
                BY <3>1 DEF Task
            <4>2. ~NoPath(r, "http://") \/ r.method = "BREW"
                BY <2>2 DEF NoPath
            <4>3. ~NoPath(r, "http://")
                BY <4>2 DEF NoPath
            <4>4. (r.keep /\ r.method # "BREW" /\ ~NoPath(r, "https://")) = FALSE
                BY <2>2
            <4>5. r.method = "POST" /\ ~NoPath(r, "http://") /\ ~NoPath(r, "https://")
                  => FALSE
                BY <2>2
            <4>6. Meaning(r) = [code |-> "BAD_REQUEST", linger |-> FALSE]
                BY <2>2, <4>3, <4>4, <4>5 DEF Meaning
            <4>7. QED
                BY <4>1, <4>6
        <3>3. "BAD_REQUEST" \in Answered
            BY DEF Answered
        <3>4. QED
            BY <1>1, <1>2, <1>3, <3>1, <3>2, <3>3, RespondParser
    <2>3. CASE NoPath(r, "http://") /\ \E t \in Task : Dies(t)
        <3>1. UNCHANGED <<mode, results, asked, inbox, wire>> /\ stage' = "dead"
            BY <1>1, <2>3 DEF Dies
        <3>2. Understood'
            BY <3>1, SamePlaces DEF Places
        <3>3. Excused
            <4>1. Len(asked) \in 1 .. Len(asked)
                BY <1>4, RequestIs
            <4>2. NoPath(asked[Len(asked)], "http://")
                BY <1>3, <2>3 DEF Request
            <4>3. QED
                BY <4>1, <4>2 DEF Excused
        <3>4. Excused'
            BY <3>1, <3>3, SameExcuse
        <3>5. QED
            BY <3>1, <3>2, <3>4 DEF Places
    <2>4. QED
        BY <1>4, <1>8, <2>1, <2>2, <2>3, RequestLineExact
<1>9. CASE task.check_state = "HEADER" /\ Header(task.start_line, Passed)
    <2>1. CASE Continue(task') /\ InLine(TRUE, task', recv_buf', r)
        BY <1>5, <1>9, <2>1, ReadIdxKept
    <2>2. QED
        BY <1>4, <1>6, <1>7, <1>9, <2>1, HeaderExact
<1>10. CASE task.check_state = "CONTENT" /\ Content(task.start_line, Passed)
    <2>1. CASE Continue(task') /\ InLine(TRUE, task', recv_buf', r)
        BY <1>5, <1>10, <2>1, ReadIdxKept
    <2>2. QED
        BY <1>4, <1>6, <1>7, <1>10, <2>1, ContentExact
<1>11. QED
    BY <1>8, <1>9, <1>10 DEF TakeLine, Passed, Types, InTypes, Task

(* Once a page was found, _mmap_file and _file_stat are set: munmap is only *)
(* given what nothing has set when there was none.                          *)
Mapped ==
    \A i \in 1 .. Len(results) :
        results[i].code = "FILE_REQUEST" => map.base # "unset" /\ map.sized

LEMMA MappedInit == Init => Mapped
BY DEF Init, Mapped

LEMMA RespondMapped ==
    ASSUME Types, Mapped, NEW code \in Codes, NEW t \in Task, Respond(code, t)
    PROVE  Mapped'
<1>1. PICK x \in Result : x = [code |-> code, linger |-> t.linger]
    BY DEF Result, Task
<1>2. PICK rs : rs = Append(results, x)
    OBVIOUS
<1>3. PICK m \in Nat : m = Len(results)
    BY DEF Types, OutTypes
<1>4. Len(rs) = m + 1 /\ rs[m + 1] = x /\ \A i \in 1 .. m : rs[i] = results[i]
    BY <1>2, <1>3, AppendIs DEF Types, OutTypes
<1>5. PICK b : b = IF code = "FILE_REQUEST" THEN "file" ELSE map.base
    OBVIOUS
<1>6. PICK z : z = (map.sized \/ StatSucceeded(code, t))
    OBVIOUS
<1>7. results' = rs /\ map' = [base |-> b, sized |-> z]
    BY <1>1, <1>2, <1>5, <1>6 DEF Respond
<1>8. ASSUME NEW i \in 1 .. m + 1, rs[i].code = "FILE_REQUEST"
      PROVE  b # "unset" /\ z
    <2>1. CASE i = m + 1
        <3>1. code = "FILE_REQUEST"
            BY <1>1, <1>4, <1>8, <2>1
        <3>2. StatSucceeded(code, t)
            BY <3>1 DEF StatSucceeded
        <3>3. QED
            BY <1>5, <1>6, <3>1, <3>2
    <2>2. CASE i # m + 1
        <3>1. i \in 1 .. m
            BY <1>3, <2>2
        <3>2. map.base # "unset" /\ map.sized
            BY <1>3, <1>4, <1>8, <3>1 DEF Mapped
        <3>3. QED
            BY <1>5, <1>6, <3>2
    <2>3. QED
        BY <2>1, <2>2
<1>9. QED
    BY <1>3, <1>4, <1>7, <1>8 DEF Mapped

LEMMA MappedStep == Types /\ Mapped /\ [Next]_vars => Mapped'
<1>1. SUFFICES ASSUME Types, Mapped, [Next]_vars PROVE Mapped'
    OBVIOUS
<1>2. CASE results' = results /\ map' = map
    BY <1>1, <1>2 DEF Mapped
<1>3. CASE TakeLine
    <2>1. ASSUME NEW t \in Task, Continue(t) \/ Dies(t) PROVE Mapped'
        BY <1>2, <2>1 DEF Continue, Dies, sender
    <2>2. ASSUME NEW t \in Task, NEW code \in Codes, Respond(code, t) PROVE Mapped'
        BY <1>1, <2>2, RespondMapped
    <2>3. ASSUME NEW t \in Task, NEW buf, DealRequest(t, buf) PROVE Mapped'
        <3>1. PICK target : target = LastSlash(StringAt(buf, t.url))
            OBVIOUS
        <3>2. Respond("GET_REQUEST", t) \/ Respond(CodeOf(target), t) \/ Dies(t)
            BY <2>3, <3>1 DEF DealRequest
        <3>3. QED
            BY <2>1, <2>2, <3>2, CodesAre
    <2>4. QED
        BY <1>1, <1>3, <2>1, <2>2, <2>3, TakeLineIs, CodesAre
<1>4. CASE Writev
    <2>1. results' = results /\ (map' = map \/ map' = [map EXCEPT !.base = "null"])
        BY <1>4, WritevIs, FinishedIs DEF GoesOn, DiesAtUnmap
    <2>2. map \in [base : {"unset", "null", "file"}, sized : BOOLEAN]
        BY <1>1 DEF Types, OutTypes
    <2>3. map.base # "unset" /\ map.sized => map'.base # "unset" /\ map'.sized
        BY <2>1, <2>2
    <2>4. QED
        BY <1>1, <2>1, <2>3 DEF Mapped
<1>5. CASE Ask \/ Deliver \/ PeerReads \/ Receive \/ NextLine
    BY <1>2, <1>5 DEF Ask, Deliver, PeerReads, Receive, NextLine, sender, history
<1>6. CASE NothingToWrite \/ StartWriting \/ WouldBlock \/ GoesAstray
    BY <1>2, <1>6 DEF NothingToWrite, StartWriting, WouldBlock, GoesAstray, sender, history
<1>7. CASE UNCHANGED vars
    BY <1>2, <1>7 DEF vars, sender, history
<1>8. QED
    BY <1>1, <1>3, <1>4, <1>5, <1>6, <1>7 DEF Next, ServerStep

(* The loop around writev: when the answer is out, the parser is reset, or *)
(* the end of the connection was announced; or munmap kills the process    *)
(* before any page was mapped.                                             *)
LEMMA WritingParser ==
    ASSUME Types, Stages, Mapped, Places, "closed" \notin faults,
           NothingToWrite \/ StartWriting \/ Writev \/ WouldBlock \/ GoesAstray
    PROVE  Places'
<1>1. /\ UNCHANGED <<mode, results, asked, inbox, wire>>
      /\ stage = "write" \/ (stage = "wait" /\ armed = "out")
    <2>1. CASE Writev
        BY <2>1 DEF Writev
    <2>2. CASE NothingToWrite \/ StartWriting \/ WouldBlock \/ GoesAstray
        BY <2>2 DEF NothingToWrite, StartWriting, WouldBlock, GoesAstray, history
    <2>3. QED
        BY <2>1, <2>2
<1>2. /\ Understood' /\ (Closed' <=> Closed) /\ (Expecting' <=> Expecting)
      /\ Closed \/ Expecting
    BY <1>1, SamePlaces DEF Places
<1>3. ASSUME \/ stage' = "wait" /\ armed' = "in" /\ (task' = Fresh \/ Closed)
             \/ stage' = "wait" /\ armed' = "out"
             \/ stage' \in {"write", "astray"}
             \/ stage' = "dead" /\ Excused'
      PROVE  Places'
    BY <1>2, <1>3 DEF Places
<1>4. CASE NothingToWrite
    BY <1>3, <1>4 DEF NothingToWrite, InitData, ResetParser
<1>5. CASE StartWriting \/ GoesAstray
    BY <1>3, <1>5 DEF StartWriting, GoesAstray
<1>6. CASE WouldBlock
    BY <1>3, <1>6 DEF WouldBlock
<1>7. CASE Writev
    <2>1. stage = "write"
        BY <1>7 DEF Writev
    <2>2. CASE UNCHANGED <<parser, send_buf, map, armed, stage>>
        BY <1>3, <2>1, <2>2
    <2>3. CASE GoesOn(Written)
        <3>1. task' = Fresh \/ Closed
            <4>1. CASE task.linger
                BY <2>3, <4>1 DEF GoesOn, Linger, ResetParser
            <4>2. CASE ~task.linger
                BY <2>1, <4>2 DEF Stages, Answering, Sending, Closed, Last
            <4>3. QED
                BY <4>1, <4>2
        <3>2. armed' = "in" /\ stage' = "wait"
            BY <2>3 DEF GoesOn
        <3>3. QED
            BY <1>3, <3>1, <3>2
    <2>4. CASE DiesAtUnmap(Written)
        <3>1. stage' = "dead" /\ WildUnmap
            BY <2>4 DEF DiesAtUnmap
        <3>2. PICK m \in Nat : m = Len(results)
            BY DEF Types, OutTypes
        <3>3. m \in 1 .. Len(results) /\ results[m].code \in Answered
            <4>1. results # <<>> /\ Last.code \in Answered
                BY <2>1 DEF Stages, Answering, Sending
            <4>2. m # 0
                BY <3>2, <4>1 DEF Types, OutTypes
            <4>3. QED
                BY <3>2, <4>1, <4>2 DEF Last
        <3>4. \A i \in 1 .. Len(results) : results[i].code # "FILE_REQUEST"
            BY <3>1 DEF WildUnmap, Mapped
        <3>5. Excused
            BY <3>3, <3>4 DEF Excused
        <3>6. Excused'
            BY <1>1, <3>5, SameExcuse
        <3>7. QED
            BY <1>3, <3>1, <3>6
    <2>5. QED
        BY <1>7, <2>2, <2>3, <2>4, WritevIs, FinishedIs
<1>8. QED
    BY <1>4, <1>5, <1>6, <1>7

LEMMA ParserStep == Types /\ Stages /\ Mapped /\ Parser /\ [Next]_vars => Parser'
<1>1. SUFFICES ASSUME Types, Stages, Mapped, Parser, [Next]_vars,
                      faults' \cap {"piece", "closed"} = {}
               PROVE  Places'
    BY DEF Parser
<1>2. faults \subseteq faults'
    <2>1. CASE UNCHANGED vars
        BY <2>1 DEF vars, history
    <2>2. CASE Ask \/ Deliver \/ PeerReads
        BY <2>2 DEF Ask, Deliver, PeerReads, history
    <2>3. CASE Receive \/ NextLine
        BY <2>3 DEF Receive, NextLine, history
    <2>4. CASE TakeLine
        <3>1. CASE \E t \in Task : Continue(t) \/ Respond("BAD_REQUEST", t) \/ Dies(t)
            BY <3>1 DEF Continue, Respond, Dies
        <3>2. CASE \E t \in Task : \E buf \in {recv_buf, recv_buf'} : DealRequest(t, buf)
            <4>1. PICK t \in Task, buf \in {recv_buf, recv_buf'} : DealRequest(t, buf)
                BY <3>2
            <4>2. Dies(t) \/ \E code : Respond(code, t)
                BY <4>1 DEF DealRequest
            <4>3. QED
                BY <4>2 DEF Dies, Respond
        <3>3. QED
            BY <1>1, <2>4, <3>1, <3>2, TakeLineIs
    <2>5. CASE NothingToWrite \/ StartWriting \/ WouldBlock \/ GoesAstray
        BY <2>5 DEF NothingToWrite, StartWriting, WouldBlock, GoesAstray, history
    <2>6. CASE Writev
        BY <1>1, <2>6, WritevIs
    <2>7. QED
        BY <1>1, <2>1, <2>2, <2>3, <2>4, <2>5, <2>6 DEF Next, ServerStep
<1>3. Places /\ "closed" \notin faults
    BY <1>1, <1>2 DEF Parser
<1>4. CASE UNCHANGED vars
    <2>1. /\ UNCHANGED <<mode, results, asked, inbox, wire>>
          /\ UNCHANGED <<stage, armed, task, recv_buf, faults>>
        BY <1>4 DEF vars, parser, history
    <2>2. /\ (Understood' <=> Understood) /\ (Closed' <=> Closed) /\ Request' = Request
          /\ (Expecting' <=> Expecting) /\ (Stuck' <=> Stuck) /\ (Excused' <=> Excused)
        BY <2>1, SamePlaces
    <2>3. Parsing => Parsing'
        BY <2>1, <2>2 DEF Parsing
    <2>4. QED
        BY <1>3, <2>1, <2>2, <2>3 DEF Places
<1>5. CASE PeerReads
    <2>1. /\ UNCHANGED <<mode, results, asked, inbox, wire>>
          /\ UNCHANGED <<stage, armed, task, recv_buf, faults>>
        BY <1>5 DEF PeerReads, parser
    <2>2. /\ (Understood' <=> Understood) /\ (Closed' <=> Closed) /\ Request' = Request
          /\ (Expecting' <=> Expecting) /\ (Stuck' <=> Stuck) /\ (Excused' <=> Excused)
        BY <2>1, SamePlaces
    <2>3. Parsing => Parsing'
        BY <2>1, <2>2 DEF Parsing
    <2>4. QED
        BY <1>3, <2>1, <2>2, <2>3 DEF Places
<1>6. QED
    BY <1>1, <1>3, <1>4, <1>5, AskParser, DeliverParser, ReceiveParser, NextLineParser,
       TakeLineParser, WritingParser DEF Next, ServerStep

(* Theorem: every request is recognised as what it is, once and in order,  *)
(* while none comes in pieces or after an answer that ends the connection: *)
(* what init_data leaves is what the next request needs.                   *)
THEOREM RequestsAreUnderstood == Spec => []ParsedAsSent
<1>1. Init => Types /\ Stages /\ Mapped /\ Parser
    BY TypesInit, StagesInit, MappedInit, ParserInit
<1>2. /\ Types /\ Stages /\ Mapped /\ Parser /\ [Next]_vars
      => (Types /\ Stages /\ Mapped /\ Parser)'
    BY TypesStep, StagesStep, MappedStep, ParserStep
<1>3. Parser => ParsedAsSent
    BY DEF Parser, Places, Understood, ParsedAsSent
<1>4. QED
    BY <1>1, <1>2, <1>3, PTL DEF Spec

(* Theorem: while every request arrives whole and before an answer that    *)
(* ends the connection, the process dies in two ways only: a target        *)
(* http:// without a path was asked for (http_server.cpp:285), or an       *)
(* answer was finished before any page was mapped (http_server.cpp:123).   *)
(* Every other target has a slash for strrchr, the parser is where the     *)
(* request begins, and behind the first page munmap has what mmap gave.    *)
THEOREM ProcessSurvives == Spec => []Survives
<1>1. Init => Types /\ Stages /\ Mapped /\ Parser
    BY TypesInit, StagesInit, MappedInit, ParserInit
<1>2. /\ Types /\ Stages /\ Mapped /\ Parser /\ [Next]_vars
      => (Types /\ Stages /\ Mapped /\ Parser)'
    BY TypesStep, StagesStep, MappedStep, ParserStep
<1>3. Parser => Survives
    BY DEF Parser, Places, Excused, Survives
<1>4. QED
    BY <1>1, <1>2, <1>3, PTL DEF Spec
=============================================================================
