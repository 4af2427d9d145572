-------------------------- MODULE LoadBalanceProofs --------------------------
(***************************************************************************)
(* The registry's tables agree, a lookup never leaves the list of its name *)
(* and the servers of a name take turns, for every set of servers and      *)
(* names and every width of the two integers.                              *)
(***************************************************************************)
EXTENDS LoadBalance, FiniteSetTheorems, TLAPS

-----------------------------------------------------------------------------
(* The lookups of a name are divided by the length of its list.            *)

(* What the two operators are. *)
LEMMA DivMod ==
    ASSUME NEW n \in Nat, NEW s \in Nat \ {0}
    PROVE  /\ n = s * (n \div s) + (n % s)
           /\ n % s \in 0 .. s - 1
           /\ n \div s \in Int
OBVIOUS

(* A multiple of s below another is below it by at least s.                *)
LEMMA NextMultiple ==
    ASSUME NEW s \in Nat \ {0}, NEW q \in Int, NEW p \in Int, q < p
    PROVE  s * q + s <= s * p
<1>1. p - q - 1 \in Nat
    OBVIOUS
<1>2. PICK k \in Nat : p = q + 1 + k
    BY <1>1
<1>3. s * p = s * q + s + s * k
    BY <1>2
<1>4. s * k >= 0
    BY <1>2
<1>5. QED
    BY <1>3, <1>4

(* Quotient and remainder are unique. *)
LEMMA DivModUnique ==
    ASSUME NEW n \in Nat, NEW s \in Nat \ {0}, NEW q \in Int, NEW r \in 0 .. s - 1,
           n = s * q + r
    PROVE  n \div s = q /\ n % s = r
<1> DEFINE p == n \div s
           t == n % s
<1>1. p \in Int /\ t \in 0 .. s - 1 /\ n = s * p + t
    BY DivMod
<1>2. (n \div s = q /\ n % s = r) <=> (p = q /\ t = r)
    OBVIOUS
<1> HIDE DEF p, t
<1>3. s * p \in Int /\ s * q \in Int
    BY <1>1
<1>4. ~(p < q)
    <2>1. p < q => s * p + s <= s * q
        BY <1>1, NextMultiple
    <2>2. QED
        BY <2>1, <1>1, <1>3
<1>5. ~(q < p)
    <2>1. q < p => s * q + s <= s * p
        BY <1>1, NextMultiple
    <2>2. QED
        BY <2>1, <1>1, <1>3
<1>6. QED
    BY <1>1, <1>2, <1>4, <1>5

(* The remainder goes up by one, and from the last one back to zero.       *)
LEMMA ModOfNext ==
    ASSUME NEW n \in Nat, NEW s \in Nat \ {0}
    PROVE  (n + 1) % s = IF (n % s) + 1 = s THEN 0 ELSE (n % s) + 1
<1> DEFINE q == n \div s
           r == n % s
<1>1. q \in Int /\ r \in 0 .. s - 1 /\ n = s * q + r
    BY DivMod
<1> HIDE DEF q, r
<1>2. CASE r + 1 = s
    <2>1. n + 1 = s * (q + 1) + 0
        BY <1>1, <1>2
    <2>2. q + 1 \in Int /\ 0 \in 0 .. s - 1 /\ n + 1 \in Nat
        BY <1>1
    <2>3. (n + 1) % s = 0
        BY <2>1, <2>2, DivModUnique
    <2>4. QED
        BY <1>2, <2>3 DEF r
<1>3. CASE r + 1 # s
    <2>1. r + 1 \in 0 .. s - 1 /\ n + 1 = s * q + (r + 1) /\ n + 1 \in Nat
        BY <1>1, <1>3
    <2>2. (n + 1) % s = r + 1
        BY <1>1, <2>1, DivModUnique
    <2>3. QED
        BY <1>3, <2>2 DEF r
<1>4. QED
    BY <1>2, <1>3

-----------------------------------------------------------------------------
(* A server has a ServerItem exactly when it registered a name, and lists  *)
(* are finite.                                                             *)
ItemsMatchExports ==
    /\ \A s \in Servers : s \in server_map <=> exports[s] # {}
    /\ \A f \in Names : IsFiniteSet(Listed(f))

IInv == TypeOK /\ ItemsMatchExports /\ ListsMatchServers

(* A server is on a list once.                                             *)
NoRepeats ==
    \A f \in Names : \A i, j \in DOMAIN addr_map[f] :
        addr_map[f][i] = addr_map[f][j] => i = j

(* The places from a up to, but not including, x on a circle.              *)
Between(a, k, x) == IF a <= x THEN a <= k /\ k < x ELSE a <= k \/ k < x

(* A rotation that began at place a and comes to place x next: the servers *)
(* between the two are one lookup ahead of the others.                     *)
Staircase(count, list, a, x, m) ==
    \A i \in DOMAIN list :
        count[list[i]] = IF Between(a, i - 1, x) THEN m + 1 ELSE m

Rotating ==
    \A f \in Names : Known(f) =>
        \E a, x \in 0 .. Len(addr_map[f]) - 1, m \in Nat :
            /\ Staircase(picks[f], addr_map[f], a, x, m)
            /\ ~Jumps(count_map[f]) => x = Index(f)

Turns == NoRepeats /\ Rotating

-----------------------------------------------------------------------------
(* The counter stays an int. *)
LEMMA BumpIsInt ==
    ASSUME NEW n \in -(IntMax + 1) .. IntMax
    PROVE  Bump(n) \in -(IntMax + 1) .. IntMax
BY RegistryAssumption DEF Bump

(* A conversion to size_t is never negative.                               *)
LEMMA ToSizeTIsNat ==
    ASSUME NEW n \in -(IntMax + 1) .. IntMax
    PROVE  ToSizeT(n) \in Nat
BY RegistryAssumption DEF ToSizeT

(* The remainder is an index of the list, whatever the counter.            *)
LEMMA IndexInRange ==
    ASSUME TablesTypeOK, NEW f \in Names, Known(f)
    PROVE  Index(f) + 1 \in DOMAIN addr_map[f]
<1>1. addr_map[f] \in Seq(Servers) /\ Len(addr_map[f]) \in Nat \ {0}
    BY DEF TablesTypeOK, Known
<1>2. ToSizeT(Bump(count_map[f])) \in Nat
    BY BumpIsInt, ToSizeTIsNat DEF TablesTypeOK
<1>3. Index(f) \in 0 .. Len(addr_map[f]) - 1
    BY <1>1, <1>2 DEF Index
<1>4. QED
    BY <1>1, <1>3

(* Where the int neither wraps nor comes back to zero, the size_t it is    *)
(* converted to goes up by one.                                            *)
LEMMA SizeOfNext ==
    ASSUME NEW n \in -(IntMax + 1) .. IntMax, n # IntMax, n # -1
    PROVE  ToSizeT(Bump(n)) = ToSizeT(n) + 1
BY RegistryAssumption DEF ToSizeT, Bump

-----------------------------------------------------------------------------
(* Appending to the list of a name adds one server to those it lists.      *)
LEMMA ListedAppend ==
    ASSUME NEW f \in Names, NEW s \in Servers, addr_map[f] \in Seq(Servers),
           addr_map'[f] = Append(addr_map[f], s)
    PROVE  /\ Listed(f)' = Listed(f) \cup {s}
           /\ Len(addr_map'[f]) = Len(addr_map[f]) + 1
<1>1. PICK l \in Seq(Servers) : l = addr_map[f]
    OBVIOUS
<1>2. PICK m : m = addr_map'[f]
    OBVIOUS
<1>3. /\ DOMAIN m = 1 .. Len(l) + 1 /\ DOMAIN l = 1 .. Len(l)
      /\ m[Len(l) + 1] = s /\ Len(m) = Len(l) + 1 /\ Len(l) \in Nat
      /\ \A i \in 1 .. Len(l) : m[i] = l[i]
    BY <1>1, <1>2
<1>4. /\ \A i \in 1 .. Len(l) + 1 : i \in 1 .. Len(l) \/ i = Len(l) + 1
      /\ \A i \in 1 .. Len(l) : i \in 1 .. Len(l) + 1
      /\ Len(l) + 1 \in 1 .. Len(l) + 1
    BY <1>3
<1>5. {m[i] : i \in DOMAIN m} = {l[i] : i \in DOMAIN l} \cup {s}
    BY <1>3, <1>4
<1>6. Listed(f)' = {m[i] : i \in DOMAIN m} /\ Listed(f) = {l[i] : i \in DOMAIN l}
    BY <1>1, <1>2 DEF Listed
<1>7. QED
    BY <1>1, <1>2, <1>3, <1>5, <1>6

(* Counting a pick keeps the counts natural numbers.                       *)
LEMMA AddPick ==
    ASSUME NEW table \in [Names -> [Servers -> Nat]], NEW f,
           NEW before \in [Servers -> Nat], NEW s \in Servers
    PROVE  [table EXCEPT ![f] = [before EXCEPT ![s] = @ + 1]]
               \in [Names -> [Servers -> Nat]]
<1> DEFINE after == [before EXCEPT ![s] = @ + 1]
<1>1. after \in [Servers -> Nat]
    OBVIOUS
<1> HIDE DEF after
<1>2. [table EXCEPT ![f] = after] \in [Names -> [Servers -> Nat]]
    BY <1>1
<1>3. QED
    BY <1>2 DEF after

-----------------------------------------------------------------------------
LEMMA InitIInv == Init => IInv
<1> SUFFICES ASSUME Init PROVE IInv
    OBVIOUS
<1>1. <<>> \in Seq(Servers) /\ 0 \in -(IntMax + 1) .. IntMax
    BY RegistryAssumption
<1>2. TypeOK
    BY <1>1 DEF Init, TypeOK, TablesTypeOK, TablesInit, NoPicks
<1>3. \A f \in Names : addr_map[f] = <<>> /\ Listed(f) = {}
    BY DEF Init, TablesInit, Listed
<1>4. ItemsMatchExports /\ ListsMatchServers
    BY <1>3, FS_EmptySet DEF Init, TablesInit, ItemsMatchExports, ListsMatchServers
<1>5. QED
    BY <1>2, <1>4 DEF IInv

LEMMA TypeStep == TypeOK /\ [Next]_vars => TypeOK'
<1> SUFFICES ASSUME TypeOK, [Next]_vars
             PROVE  TypeOK'
    OBVIOUS
<1> USE DEF TypeOK, TablesTypeOK
<1>1. ASSUME NEW s \in Servers, NEW names \in SUBSET Names, ServerRegisters(s, names)
      PROVE  TypeOK'
  <2>1. \A f \in Names : Append(addr_map[f], s) \in Seq(Servers)
      OBVIOUS
  <2>2. addr_map' \in [Names -> Seq(Servers)]
      BY <1>1, <2>1 DEF ServerRegisters, Register
  <2>3. picks' \in [Names -> [Servers -> Nat]]
      BY <1>1 DEF ServerRegisters, NoPicks
  <2>4. QED
      BY <1>1, <2>2, <2>3 DEF ServerRegisters, Register
<1>2. ASSUME NEW f \in Names, ClientLooksUp(f)
      PROVE  TypeOK'
  <2>1. count_map' \in [Names -> -(IntMax + 1) .. IntMax]
      BY <1>2, BumpIsInt DEF ClientLooksUp, Discover
  <2>2. picks' \in [Names -> [Servers -> Nat]]
    <3>1. NoPicks \in [Servers -> Nat] /\ picks[f] \in [Servers -> Nat]
        BY DEF NoPicks
    <3>2. CASE ~Known(f)
        BY <1>2, <3>2 DEF ClientLooksUp
    <3>3. ASSUME Known(f), NEW before \in [Servers -> Nat]
          PROVE  [picks EXCEPT ![f] = [before EXCEPT ![Pick(f)] = @ + 1]]
                     \in [Names -> [Servers -> Nat]]
      <4>1. Pick(f) \in Servers
          BY <3>3, IndexInRange DEF Pick
      <4>2. QED
          BY <4>1, AddPick
    <3>4. CASE Known(f) /\ Jumps(count_map[f])
        BY <1>2, <3>1, <3>3, <3>4 DEF ClientLooksUp
    <3>5. CASE Known(f) /\ ~Jumps(count_map[f])
        BY <1>2, <3>1, <3>3, <3>5 DEF ClientLooksUp
    <3>6. QED
        BY <3>2, <3>4, <3>5
  <2>3. QED
      BY <1>2, <2>1, <2>2 DEF ClientLooksUp, Discover
<1>3. CASE UNCHANGED vars
    BY <1>3 DEF vars, tables
<1>4. QED
    BY <1>1, <1>2, <1>3 DEF Next

(* A server that registers was on no list, so that the lists of its names  *)
(* grow by one server.                                                     *)
LEMMA TablesStep == IInv /\ [Next]_vars => ItemsMatchExports' /\ ListsMatchServers'
<1> SUFFICES ASSUME IInv, [Next]_vars
             PROVE  ItemsMatchExports' /\ ListsMatchServers'
    OBVIOUS
<1>1. ASSUME NEW s \in Servers, NEW names \in SUBSET Names, ServerRegisters(s, names)
      PROVE  ItemsMatchExports' /\ ListsMatchServers'
  <2>1. /\ s \notin server_map /\ exports[s] = {}
        /\ exports' = [exports EXCEPT ![s] = names]
        /\ exports \in [Servers -> SUBSET Names]
        /\ server_map' = server_map \cup {t \in {s} : names # {}}
      BY <1>1 DEF ServerRegisters, Register, IInv, ItemsMatchExports, TypeOK
  <2>2. \A t \in Servers : t \in server_map' <=> exports'[t] # {}
      BY <2>1 DEF IInv, ItemsMatchExports
  <2>3. ASSUME NEW f \in Names
        PROVE  /\ IsFiniteSet(Listed(f)')
               /\ Listed(f)' = {t \in Servers : f \in exports'[t]}
               /\ Len(addr_map'[f]) = Cardinality(Listed(f)')
               /\ Listed(f)' \subseteq server_map'
    <3>0. /\ IsFiniteSet(Listed(f))
          /\ Listed(f) = {t \in Servers : f \in exports[t]}
          /\ Len(addr_map[f]) = Cardinality(Listed(f))
          /\ Listed(f) \subseteq server_map
          /\ addr_map[f] \in Seq(Servers)
        BY DEF IInv, ItemsMatchExports, ListsMatchServers, TypeOK, TablesTypeOK
    <3>1. CASE f \in names
      <4>1. addr_map'[f] = Append(addr_map[f], s)
          BY <1>1, <3>1 DEF ServerRegisters, Register
      <4>2. /\ Listed(f)' = Listed(f) \cup {s}
            /\ Len(addr_map'[f]) = Len(addr_map[f]) + 1
          BY <3>0, <4>1, ListedAppend
      <4>3. s \notin Listed(f)
          BY <2>1, <3>0
      <4>4. /\ IsFiniteSet(Listed(f)')
            /\ Cardinality(Listed(f)') = Cardinality(Listed(f)) + 1
        <5>1. Cardinality(Listed(f) \cup {s}) = Cardinality(Listed(f)) + 1
            BY <3>0, <4>3, FS_AddElement
        <5>2. IsFiniteSet(Listed(f) \cup {s})
            BY <3>0, FS_AddElement
        <5>3. QED
            BY <4>2, <5>1, <5>2
      <4>5. QED
          BY <2>1, <3>0, <3>1, <4>2, <4>4
    <3>2. CASE f \notin names
      <4>1. addr_map'[f] = addr_map[f]
          BY <1>1, <3>2 DEF ServerRegisters, Register
      <4>2. Listed(f)' = Listed(f)
          BY <4>1 DEF Listed
      <4>3. QED
          BY <2>1, <3>0, <3>2, <4>1, <4>2
    <3>3. QED
        BY <3>1, <3>2
  <2>4. QED
      BY <2>2, <2>3 DEF ItemsMatchExports, ListsMatchServers
<1>2. CASE UNCHANGED <<addr_map, server_map, exports>>
  <2>1. \A f \in Names : Listed(f)' = Listed(f)
      BY <1>2 DEF Listed
  <2>2. QED
      BY <1>2, <2>1 DEF IInv, ItemsMatchExports, ListsMatchServers
<1>3. QED
    BY <1>1, <1>2 DEF Next, ClientLooksUp, Discover, vars, tables

LEMMA NextIInv == IInv /\ [Next]_vars => IInv'
BY TypeStep, TablesStep DEF IInv

-----------------------------------------------------------------------------
(* Taking turns *)

(* A list on which nobody was handed out yet is at the start of a rotation, *)
(* wherever it begins.                                                     *)
LEMMA RotationStarts ==
    ASSUME NEW list \in Seq(Servers), NEW x \in 0 .. Len(list) - 1
    PROVE  Staircase(NoPicks, list, x, x, 0)
<1>1. \A i \in DOMAIN list : list[i] \in Servers /\ i \in 1 .. Len(list)
    OBVIOUS
<1>2. \A i \in DOMAIN list : ~Between(x, i - 1, x)
    BY <1>1 DEF Between
<1>3. QED
    BY <1>1, <1>2 DEF Staircase, NoPicks

(* Going one place further on a circle of size l, seen from the i-th of   *)
(* its places.                                                             *)
LEMMA OneFurther ==
    ASSUME NEW l \in Nat \ {0}, NEW a \in 0 .. l - 1, NEW x \in 0 .. l - 1,
           NEW i \in 1 .. l, NEW y, y = IF x + 1 = l THEN 0 ELSE x + 1
    PROVE  /\ y \in 0 .. l - 1 /\ x + 1 \in 1 .. l
           /\ ~Between(a, i - 1, a)
           /\ y = a /\ i # x + 1 => Between(a, i - 1, x)
           /\ y # a => (Between(a, i - 1, y) <=> i = x + 1 \/ Between(a, i - 1, x))
<1>1. CASE x + 1 = l
    BY <1>1 DEF Between
<1>2. CASE x + 1 # l
    BY <1>2 DEF Between
<1>3. QED
    BY <1>1, <1>2

(* Handing out the server at the place that comes next moves the rotation  *)
(* on by one, or completes it.                                             *)
LEMMA RotationGoesOn ==
    ASSUME NEW list \in Seq(Servers), list # <<>>,
           \A i, j \in DOMAIN list : list[i] = list[j] => i = j,
           NEW count \in [Servers -> Nat], NEW m \in Nat,
           NEW a \in 0 .. Len(list) - 1, NEW x \in 0 .. Len(list) - 1,
           Staircase(count, list, a, x, m)
    PROVE  LET y == IF x + 1 = Len(list) THEN 0 ELSE x + 1
               after == [count EXCEPT ![list[x + 1]] = @ + 1]
           IN  \E b \in 0 .. Len(list) - 1, n \in Nat : Staircase(after, list, b, y, n)
<1> DEFINE y == IF x + 1 = Len(list) THEN 0 ELSE x + 1
           after == [count EXCEPT ![list[x + 1]] = @ + 1]
<1>1. /\ Len(list) \in Nat \ {0} /\ DOMAIN list = 1 .. Len(list)
      /\ x + 1 \in DOMAIN list /\ y \in 0 .. Len(list) - 1
    OBVIOUS
<1>2. \A i \in DOMAIN list : list[i] \in Servers
    OBVIOUS
<1>3. /\ after[list[x + 1]] = m + 1
      /\ \A i \in DOMAIN list : i # x + 1 => after[list[i]] = count[list[i]]
    <2>1. count[list[x + 1]] = m
      <3>1. ~Between(a, x, x)
          BY DEF Between
      <3>2. (x + 1) - 1 = x
          OBVIOUS
      <3>3. QED
          BY <1>1, <3>1, <3>2 DEF Staircase
    <2>2. list[x + 1] \in DOMAIN count
        BY <1>1, <1>2
    <2>3. \A i \in DOMAIN list : i # x + 1 => list[i] # list[x + 1]
        BY <1>1
    <2>4. QED
        BY <1>1, <1>2, <2>1, <2>2, <2>3
<1> HIDE DEF after
<1>4. \A i \in DOMAIN list :
          /\ ~Between(a, i - 1, a)
          /\ y = a /\ i # x + 1 => Between(a, i - 1, x)
          /\ y # a => (Between(a, i - 1, y) <=> i = x + 1 \/ Between(a, i - 1, x))
    <2>1. y = IF x + 1 = Len(list) THEN 0 ELSE x + 1
        OBVIOUS
    <2> DEFINE l == Len(list)
    <2>2. /\ l \in Nat \ {0} /\ a \in 0 .. l - 1 /\ x \in 0 .. l - 1
          /\ DOMAIN list = 1 .. l /\ y = IF x + 1 = l THEN 0 ELSE x + 1
        BY <1>1, <2>1
    <2> HIDE DEF y, l
    <2>3. ASSUME NEW i \in DOMAIN list
          PROVE  /\ ~Between(a, i - 1, a)
                 /\ y = a /\ i # x + 1 => Between(a, i - 1, x)
                 /\ y # a => (Between(a, i - 1, y) <=> i = x + 1 \/ Between(a, i - 1, x))
        <3>1. i \in 1 .. l
            BY <2>2
        <3>2. QED
            BY <2>2, <3>1, OneFurther
    <2>4. QED
        BY <2>3
<1> HIDE DEF y
<1>5. CASE y = a
    <2>1. \A i \in DOMAIN list : i # x + 1 => Between(a, i - 1, x)
        BY <1>4, <1>5
    <2>2. \A i \in DOMAIN list : after[list[i]] = m + 1
        BY <1>3, <2>1 DEF Staircase
    <2>3. \A i \in DOMAIN list : ~Between(a, i - 1, y)
        BY <1>4, <1>5
    <2>4. Staircase(after, list, a, y, m + 1) /\ m + 1 \in Nat
        BY <2>2, <2>3 DEF Staircase
    <2>5. QED
        BY <2>4 DEF after, y
<1>6. CASE y # a
    <2>1. \A i \in DOMAIN list :
              Between(a, i - 1, y) <=> i = x + 1 \/ Between(a, i - 1, x)
        BY <1>4, <1>6
    <2>2. Staircase(after, list, a, y, m)
        BY <1>3, <2>1 DEF Staircase
    <2>3. QED
        BY <2>2 DEF after, y
<1>7. QED
    BY <1>5, <1>6

(* The next lookup goes one place further, unless the counter jumps.       *)
LEMMA NextIndex ==
    ASSUME TypeOK, NEW f \in Names, Known(f), ClientLooksUp(f),
           ~Jumps(count_map'[f])
    PROVE  Index(f)' = IF Index(f) + 1 = Len(addr_map[f]) THEN 0 ELSE Index(f) + 1
<1> DEFINE l == Len(addr_map[f])
           n == Bump(count_map[f])
<1>1. addr_map[f] \in Seq(Servers) /\ l \in Nat \ {0} /\ addr_map' = addr_map
    BY DEF TypeOK, TablesTypeOK, Known, ClientLooksUp, Discover
<1>2. count_map'[f] = n /\ n \in -(IntMax + 1) .. IntMax
    BY BumpIsInt DEF TypeOK, TablesTypeOK, ClientLooksUp, Discover
<1>3. ToSizeT(Bump(n)) = ToSizeT(n) + 1 /\ ToSizeT(n) \in Nat
    BY <1>2, SizeOfNext, ToSizeTIsNat DEF Jumps
<1>4. (ToSizeT(n) + 1) % l = IF (ToSizeT(n) % l) + 1 = l THEN 0 ELSE (ToSizeT(n) % l) + 1
    BY <1>1, <1>3, ModOfNext
<1>5. Index(f)' = ToSizeT(Bump(n)) % l
    BY <1>1, <1>2 DEF Index, ToSizeT, Bump
<1>6. QED
    BY <1>3, <1>4, <1>5 DEF Index

LEMMA InitTurns == Init => Turns
<1> SUFFICES ASSUME Init PROVE Turns
    OBVIOUS
<1>1. \A f \in Names : addr_map[f] = <<>>
    BY DEF Init, TablesInit
<1>2. QED
    BY <1>1 DEF Turns, NoRepeats, Rotating, Known

(* A server that registers is new on its lists, and their counts begin     *)
(* again.                                                                  *)
LEMMA TurnsRegister ==
    ASSUME IInv, IInv', Turns, NEW s \in Servers, NEW names \in SUBSET Names,
           ServerRegisters(s, names)
    PROVE  Turns'
<1>1. SUFFICES ASSUME NEW f \in Names
      PROVE  /\ \A i, j \in DOMAIN addr_map'[f] : addr_map'[f][i] = addr_map'[f][j] => i = j
             /\ Known(f)' =>
                  \E a, x \in 0 .. Len(addr_map'[f]) - 1, m \in Nat :
                      /\ Staircase(picks'[f], addr_map'[f], a, x, m)
                      /\ ~Jumps(count_map'[f]) => x = Index(f)'
    BY DEF Turns, NoRepeats, Rotating, Staircase, Known, Jumps
<1>2. addr_map[f] \in Seq(Servers) /\ addr_map'[f] \in Seq(Servers)
    BY DEF IInv, TypeOK, TablesTypeOK
<1>3. CASE f \in names
  <2>1. addr_map'[f] = Append(addr_map[f], s) /\ picks'[f] = NoPicks
      BY <1>3 DEF ServerRegisters, Register, IInv, TypeOK, TablesTypeOK
  <2>2. \A i \in DOMAIN addr_map[f] : addr_map[f][i] # s
      BY DEF ServerRegisters, IInv, ListsMatchServers, Listed
  <2>3. \A i, j \in DOMAIN addr_map[f] : addr_map[f][i] = addr_map[f][j] => i = j
      BY DEF Turns, NoRepeats
  <2>4. \A i, j \in DOMAIN addr_map'[f] : addr_map'[f][i] = addr_map'[f][j] => i = j
      BY <1>2, <2>1, <2>2, <2>3
  <2>5. ASSUME Known(f)'
        PROVE  Index(f)' \in 0 .. Len(addr_map'[f]) - 1
    <3>1. ToSizeT(Bump(count_map'[f])) \in Nat
        BY BumpIsInt, ToSizeTIsNat DEF IInv, TypeOK, TablesTypeOK
    <3>2. Index(f)' = ToSizeT(Bump(count_map'[f])) % Len(addr_map'[f])
        BY DEF Index, ToSizeT, Bump
    <3>3. Len(addr_map'[f]) \in Nat \ {0}
        BY <1>2, <2>5 DEF Known
    <3>4. QED
        BY <3>1, <3>2, <3>3, DivMod
  <2>6. ASSUME Known(f)'
        PROVE  Staircase(picks'[f], addr_map'[f], Index(f)', Index(f)', 0)
      BY <1>2, <2>1, <2>5, <2>6, RotationStarts
  <2>7. QED
      BY <2>4, <2>5, <2>6
<1>4. CASE f \notin names
  <2>1. /\ addr_map'[f] = addr_map[f] /\ picks'[f] = picks[f]
        /\ count_map'[f] = count_map[f]
      BY <1>4 DEF ServerRegisters, Register, IInv, TypeOK, TablesTypeOK
  <2>2. Index(f)' = Index(f) /\ Known(f)' = Known(f)
      BY <2>1 DEF Index, Known, ToSizeT, Bump
  <2>3. QED
      BY <2>1, <2>2 DEF Turns, NoRepeats, Rotating
<1>5. QED
    BY <1>3, <1>4

LEMMA TurnsLookup ==
    ASSUME IInv, Turns, NEW f \in Names, ClientLooksUp(f)
    PROVE  Turns'
<1>1. NoRepeats'
    BY DEF Turns, NoRepeats, ClientLooksUp, Discover
<1>2. ASSUME NEW g \in Names, Known(g)'
      PROVE  \E a, x \in 0 .. Len(addr_map'[g]) - 1, m \in Nat :
                /\ Staircase(picks'[g], addr_map'[g], a, x, m)
                /\ ~Jumps(count_map'[g]) => x = Index(g)'
  <2>0. /\ addr_map' = addr_map /\ Known(g) /\ addr_map[g] \in Seq(Servers)
        /\ Len(addr_map[g]) \in Nat \ {0}
      BY <1>2 DEF ClientLooksUp, Discover, Known, IInv, TypeOK, TablesTypeOK
  <2>1. PICK a \in 0 .. Len(addr_map[g]) - 1, x \in 0 .. Len(addr_map[g]) - 1, m \in Nat :
            /\ Staircase(picks[g], addr_map[g], a, x, m)
            /\ ~Jumps(count_map[g]) => x = Index(g)
      BY <2>0 DEF Turns, Rotating
  <2>2. CASE g # f
    <3>1. picks'[g] = picks[g] /\ count_map'[g] = count_map[g]
        BY <2>2 DEF ClientLooksUp, Discover, IInv, TypeOK, TablesTypeOK
    <3>2. Index(g)' = Index(g)
        BY <2>0, <3>1 DEF Index, ToSizeT, Bump
    <3>3. QED
        BY <2>0, <2>1, <3>1, <3>2
  <2>3. CASE g = f
    <3> DEFINE list == addr_map[f]
               before == IF Jumps(count_map[f]) THEN NoPicks ELSE picks[f]
               i == Index(f)
               y == IF i + 1 = Len(list) THEN 0 ELSE i + 1
               after == [before EXCEPT ![list[i + 1]] = @ + 1]
    <3>1. i \in 0 .. Len(list) - 1 /\ y \in 0 .. Len(list) - 1
      <4>1. i + 1 \in DOMAIN list
          BY <2>0, <2>3, IndexInRange DEF IInv, TypeOK
      <4>2. i \in 0 .. Len(list) - 1
        <5>1. ToSizeT(Bump(count_map[f])) \in Nat
            BY BumpIsInt, ToSizeTIsNat DEF IInv, TypeOK, TablesTypeOK
        <5>2. QED
            BY <2>0, <2>3, <5>1, DivMod DEF Index
      <4>3. QED
          BY <4>2, <2>0, <2>3
    <3>2. before \in [Servers -> Nat]
        BY DEF NoPicks, IInv, TypeOK
    <3>3. \E b \in 0 .. Len(list) - 1, n \in Nat : Staircase(before, list, b, i, n)
      <4>1. CASE Jumps(count_map[f])
          BY <2>0, <2>3, <3>1, <4>1, RotationStarts
      <4>2. CASE ~Jumps(count_map[f])
          BY <2>1, <2>3, <4>2
      <4>3. QED
          BY <4>1, <4>2
    <3>4. picks'[f] = after
      <4>1. picks' = [picks EXCEPT ![f] = [before EXCEPT ![Pick(f)] = @ + 1]]
          BY <2>0, <2>3 DEF ClientLooksUp
      <4>2. Pick(f) = list[i + 1]
          BY DEF Pick
      <4>3. f \in DOMAIN picks
          BY DEF IInv, TypeOK
      <4>4. QED
          BY <4>1, <4>2, <4>3
    <3>5. \E b \in 0 .. Len(list) - 1, n \in Nat : Staircase(after, list, b, y, n)
      <4>1. PICK b \in 0 .. Len(list) - 1, n \in Nat : Staircase(before, list, b, i, n)
          BY <3>3
      <4>2. \A j, k \in DOMAIN list : list[j] = list[k] => j = k
          BY DEF Turns, NoRepeats
      <4> HIDE DEF list, before, i
      <4>3. list \in Seq(Servers) /\ list # <<>>
          BY <2>0, <2>3 DEF list, Known
      <4>4. QED
          BY <3>1, <3>2, <4>1, <4>2, <4>3, RotationGoesOn
    <3>6. ~Jumps(count_map'[f]) => y = Index(f)'
        BY <2>0, <2>3, NextIndex DEF IInv
    <3>7. QED
      <4> HIDE DEF y, after
      <4>1. PICK b \in 0 .. Len(list) - 1, n \in Nat : Staircase(after, list, b, y, n)
          BY <3>5
      <4>2. QED
          BY <2>0, <2>3, <3>1, <3>4, <3>6, <4>1
  <2>4. QED
      BY <2>2, <2>3
<1>3. QED
    BY <1>1, <1>2 DEF Turns, Rotating, Staircase, Known, Jumps

LEMMA NextTurns == IInv /\ IInv' /\ Turns /\ [Next]_vars => Turns'
<1> SUFFICES ASSUME IInv, IInv', Turns, [Next]_vars
             PROVE  Turns'
    OBVIOUS
<1>1. CASE Next
    BY <1>1, TurnsRegister, TurnsLookup DEF Next
<1>2. CASE UNCHANGED vars
    BY <1>2 DEF vars, tables, Turns, NoRepeats, Rotating, Known, Index, ToSizeT,
                Bump, Jumps, Staircase
<1>3. QED
    BY <1>1, <1>2

-----------------------------------------------------------------------------
(* The inductive invariant holds in every reachable state. *)
THEOREM Invariance == Spec => []IInv
BY InitIInv, NextIInv, PTL DEF Spec

(* Type correctness of the tables: the counter stays an int.               *)
THEOREM TypeCorrect == Spec => []TypeOK
BY Invariance, PTL DEF IInv

(* The list of a name is exactly the servers that registered it.           *)
THEOREM TablesAgree == Spec => []ListsMatchServers
BY Invariance, PTL DEF IInv

(* A lookup stays inside the list of its name, however often the counter   *)
(* wraps.                                                                  *)
THEOREM LookupsInRange == Spec => []PickInRange
<1>1. IInv => PickInRange
    BY IndexInRange DEF IInv, TypeOK, PickInRange
<1>2. QED
    BY <1>1, Invariance, PTL

(* Balanced: between two changes of its list, or two wraps of its counter, *)
(* no server of a name is handed out twice more often than another, for    *)
(* lists of any length (registry.cpp:130-142).                             *)
THEOREM LoadIsBalanced == Spec => []Balanced
<1>1. IInv /\ Turns => Balanced
    <2> SUFFICES ASSUME IInv, Turns, NEW f \in Names, NEW s \in Listed(f), NEW t \in Listed(f)
                 PROVE  picks[f][s] <= picks[f][t] + 1
        BY DEF Balanced
    <2>1. PICK i \in DOMAIN addr_map[f], j \in DOMAIN addr_map[f] :
              s = addr_map[f][i] /\ t = addr_map[f][j]
        BY DEF Listed
    <2>2. Known(f)
        BY <2>1 DEF Known
    <2>3. PICK a \in 0 .. Len(addr_map[f]) - 1, x \in 0 .. Len(addr_map[f]) - 1, m \in Nat :
              Staircase(picks[f], addr_map[f], a, x, m)
        BY <2>2 DEF Turns, Rotating
    <2>4. picks[f][s] \in {m, m + 1} /\ picks[f][t] \in {m, m + 1}
        BY <2>1, <2>3 DEF Staircase
    <2>5. QED
        BY <2>3, <2>4
<1>2. QED
    BY <1>1, Invariance, InitTurns, NextTurns, PTL DEF Spec
=============================================================================
