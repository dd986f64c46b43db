---------------------------- MODULE TextProofs ----------------------------
(***************************************************************************)
(* Editing the text of the policy, for texts of any length and layout and  *)
(* sequences of operations of any length: a change means exactly what was  *)
(* asked for, every line outside the block of the project it selects stays *)
(* where it was among the others, and a restore undoes a removal byte for  *)
(* byte.  The second is for texts whose lines that look like headers do    *)
(* not make up for headers that do not (Unmixed).                          *)
(***************************************************************************)
EXTENDS PolicyText, FiniteSetTheorems, WellFoundedInduction, TLAPS

\* A leaf is first-order reasoning unless it calls the SMT solver.
USE ZenonT(20)

---------------------------------------------------------------------------
(* Lists, and the entries of a list in order.                              *)

IsList(s) == s \in Seq(Range(s))

\* A list is a function on its positions.
LEMMA ListPlaces ==
  ASSUME NEW s, IsList(s)
  PROVE  /\ Len(s) \in Nat /\ DOMAIN s = 1 .. Len(s)
         /\ s = [i \in 1 .. Len(s) |-> s[i]]
  BY SMTT(30) DEF IsList

\* A function on an initial segment is a list.
LEMMA ListForm ==
  ASSUME NEW n \in Nat, NEW s, s = [i \in 1 .. n |-> s[i]]
  PROVE  IsList(s) /\ Len(s) = n
  <1>1. DOMAIN s = 1 .. n OBVIOUS
  <1>2. s \in [1 .. n -> Range(s)]
    <2>1. \A i \in 1 .. n : s[i] \in Range(s) BY <1>1 DEF Range
    <2> QED BY <2>1, SMTT(30)
  <1>3. ASSUME NEW U, NEW f \in [1 .. n -> U] PROVE f \in Seq(U) /\ Len(f) = n BY SMTT(30)
  <1> QED BY <1>2, <1>3 DEF IsList

\* t is the list s with the entry e after its last one.
Extended(s, e, t) ==
  /\ IsList(t)
  /\ Len(t) = Len(s) + 1
  /\ DOMAIN t = 1 .. (Len(s) + 1)
  /\ \A i \in 1 .. Len(s) : t[i] = s[i]
  /\ t[Len(s) + 1] = e

\* A list with an entry added.
LEMMA ListAppend ==
  ASSUME NEW s, IsList(s), NEW e
  PROVE  Extended(s, e, Append(s, e))
  <1>1. s \in Seq(Range(s) \cup {e}) /\ e \in Range(s) \cup {e} BY SMTT(30) DEF IsList
  <1> DEFINE t == Append(s, e)
  <1>2. /\ t \in Seq(Range(s) \cup {e}) /\ Len(t) = Len(s) + 1 /\ Len(s) \in Nat
        /\ \A i \in 1 .. Len(s) : t[i] = s[i]
        /\ t[Len(s) + 1] = e
    BY <1>1, SMTT(30)
  <1> HIDE DEF t
  <1>3. t = [i \in 1 .. Len(t) |-> t[i]] /\ Len(t) \in Nat BY <1>2, SMTT(30)
  <1>4. IsList(t) BY <1>3, ListForm
  <1>5. Extended(s, e, t) BY <1>2, <1>3, <1>4 DEF Extended
  <1> QED BY <1>5 DEF t

\* A list with an entry replaced.
LEMMA ListExcept ==
  ASSUME NEW s, IsList(s), NEW k, NEW e
  PROVE  LET t == [s EXCEPT ![k] = e] IN IsList(t) /\ Len(t) = Len(s) /\ DOMAIN t = DOMAIN s
  <1> DEFINE t == [s EXCEPT ![k] = e]
  <1>1. Len(s) \in Nat /\ DOMAIN s = 1 .. Len(s) BY ListPlaces
  <1>2. DOMAIN t = DOMAIN s /\ t = [i \in DOMAIN s |-> t[i]] OBVIOUS
  <1> HIDE DEF t
  <1> QED BY <1>1, <1>2, ListForm DEF t

\* The size of an interval.
LEMMA IntervalSize ==
  ASSUME NEW n \in Nat
  PROVE  /\ IsFiniteSet(1 .. n) /\ Cardinality(1 .. n) = n
         /\ IsFiniteSet(0 .. n - 1) /\ Cardinality(0 .. n - 1) = n
  <1>1. 0 \in Int /\ 1 \in Int /\ n \in Int /\ n - 1 \in Int BY SMTT(30)
  <1>2. /\ IsFiniteSet(1 .. n) /\ Cardinality(1 .. n) = IF 1 > n THEN 0 ELSE n - 1 + 1
        /\ IsFiniteSet(0 .. n - 1) /\ Cardinality(0 .. n - 1) = IF 0 > n - 1 THEN 0 ELSE (n - 1) - 0 + 1
    BY <1>1, FS_Interval
  <1> QED BY <1>2, SMTT(30)

\* Ascending lists the members of a finite set of numbers, each once.
LEMMA Enumerates ==
  ASSUME NEW S \in SUBSET Nat, IsFiniteSet(S)
  PROVE  /\ Cardinality(S) \in Nat
         /\ \A k \in 1 .. Cardinality(S) : Ascending(S)[k] \in S
         /\ \A i \in S : \E k \in 1 .. Cardinality(S) : Ascending(S)[k] = i
         /\ \A k, m \in 1 .. Cardinality(S) : k < m => Ascending(S)[k] < Ascending(S)[m]
  <1> DEFINE n == Cardinality(S)
             Lower(i) == {j \in S : j < i}
             rank == [i \in S |-> Cardinality(Lower(i))]
  <1>1. n \in Nat BY FS_CardinalityType
  <1>2. ASSUME NEW i \in S PROVE IsFiniteSet(Lower(i)) /\ Cardinality(Lower(i)) \in 0 .. n - 1
    <2>1. Lower(i) \in SUBSET S /\ i \notin Lower(i) BY SMTT(30)
    <2>2. IsFiniteSet(Lower(i)) /\ Cardinality(Lower(i)) <= n /\ Cardinality(Lower(i)) # n
      BY <2>1, FS_Subset
    <2>3. Cardinality(Lower(i)) \in Nat BY <2>2, FS_CardinalityType
    <2> HIDE DEF Lower
    <2> QED BY <1>1, <2>2, <2>3, SMTT(30)
  <1>3. ASSUME NEW i \in S, NEW j \in S, i < j PROVE Cardinality(Lower(i)) < Cardinality(Lower(j))
    <2>1. Lower(i) \in SUBSET Lower(j) /\ i \in Lower(j) /\ i \notin Lower(i)
      <3>1. \A m \in S : m < i => m < j BY <1>3, SMTT(30)
      <3>2. ~(i < i) BY SMTT(30)
      <3> QED BY <1>3, <3>1, <3>2
    <2>2. Cardinality(Lower(i)) <= Cardinality(Lower(j)) /\ Cardinality(Lower(i)) # Cardinality(Lower(j))
      BY <1>2, <2>1, FS_Subset
    <2>3. Cardinality(Lower(i)) \in Int /\ Cardinality(Lower(j)) \in Int BY <1>1, <1>2, SMTT(30)
    <2> HIDE DEF Lower
    <2> QED BY <2>2, <2>3, SMTT(30)
  <1>4. \A i, j \in S : rank[i] = rank[j] => i = j
    <2> SUFFICES ASSUME NEW i \in S, NEW j \in S, rank[i] = rank[j] PROVE i = j OBVIOUS
    <2>1. ~(i < j) /\ ~(j < i)
      <3>1. rank[i] \in Int /\ rank[j] \in Int BY <1>1, <1>2, SMTT(30)
      <3>2. (i < j => rank[i] < rank[j]) /\ (j < i => rank[j] < rank[i]) BY <1>3
      <3> QED BY <3>1, <3>2, SMTT(30)
    <2> QED BY <2>1, SMTT(30)
  <1>5. rank \in [S -> 0 .. n - 1] BY <1>2
  <1> HIDE DEF rank
  <1>6. rank \in Injection(S, 0 .. n - 1) BY <1>4, <1>5 DEF Injection, IsInjective
  <1>7. IsFiniteSet(0 .. n - 1) /\ Cardinality(0 .. n - 1) = n BY <1>1, IntervalSize
  <1>8. rank \in Surjection(S, 0 .. n - 1) BY <1>6, <1>7, FS_Injection
  <1>9. ASSUME NEW k \in 1 .. n PROVE Ascending(S)[k] \in S /\ rank[Ascending(S)[k]] = k - 1
    <2>1. k - 1 \in 0 .. n - 1 BY <1>1, SMTT(30)
    <2>2. PICK i \in S : rank[i] = k - 1 BY <1>8, <2>1 DEF Surjection
    <2>3. \E m \in S : Cardinality(Lower(m)) = k - 1 BY <2>2 DEF rank
    <2>4. Ascending(S)[k] = CHOOSE m \in S : Cardinality(Lower(m)) = k - 1 BY DEF Ascending
    <2> QED BY <2>3, <2>4 DEF rank
  <1>10. ASSUME NEW i \in S PROVE \E k \in 1 .. n : Ascending(S)[k] = i
    <2>1. rank[i] + 1 \in 1 .. n /\ (rank[i] + 1) - 1 = rank[i] BY <1>1, <1>5, SMTT(30)
    <2>2. Ascending(S)[rank[i] + 1] = i BY <1>4, <1>9, <2>1
    <2> QED BY <2>1, <2>2
  <1>11. ASSUME NEW k \in 1 .. n, NEW m \in 1 .. n, k < m PROVE Ascending(S)[k] < Ascending(S)[m]
    <2> DEFINE i == Ascending(S)[k]
               j == Ascending(S)[m]
    <2>1. i \in S /\ j \in S /\ rank[i] = k - 1 /\ rank[j] = m - 1 BY <1>9
    <2>2. j < i => rank[j] < rank[i] BY <1>3, <2>1 DEF rank
    <2> HIDE DEF i, j
    <2>3. rank[j] # rank[i] /\ ~(rank[j] < rank[i]) BY <1>1, <1>11, <2>1, SMTT(30)
    <2>4. i # j /\ ~(j < i) BY <2>2, <2>3
    <2>5. i < j BY <2>1, <2>4, SMTT(30)
    <2> QED BY <2>5 DEF i, j
  <1> QED BY <1>1, <1>9, <1>10, <1>11

\* What Pick takes from a list.
LEMMA Picked ==
  ASSUME NEW s, IsList(s), NEW S \in SUBSET DOMAIN s
  PROVE  IsList(Pick(s, S)) /\ Range(Pick(s, S)) = {s[i] : i \in S}
  <1>1. Len(s) \in Nat /\ DOMAIN s = 1 .. Len(s) BY ListPlaces
  <1>2. S \in SUBSET Nat BY <1>1, SMTT(30)
  <1>3. IsFiniteSet(S) BY <1>1, IntervalSize, FS_Subset
  <1> DEFINE n == Cardinality(S)
             t == Pick(s, S)
  <1>4. /\ n \in Nat
        /\ \A k \in 1 .. n : Ascending(S)[k] \in S
        /\ \A i \in S : \E k \in 1 .. n : Ascending(S)[k] = i
    BY <1>2, <1>3, Enumerates
  <1>5. t = [k \in 1 .. n |-> s[Ascending(S)[k]]] BY DEF Pick
  <1>6. DOMAIN t = 1 .. n /\ t = [k \in 1 .. n |-> t[k]] BY <1>5
  <1>7. \A k \in 1 .. n : t[k] \in {s[i] : i \in S} BY <1>4, <1>5
  <1>8. ASSUME NEW i \in S PROVE \E k \in 1 .. n : t[k] = s[i]
    <2>1. PICK k \in 1 .. n : Ascending(S)[k] = i BY <1>4
    <2>2. t[k] = s[i] BY <1>5, <2>1
    <2> QED BY <2>2
  <1> HIDE DEF t
  <1>9. IsList(t) BY <1>4, <1>6, ListForm
  <1>10. Range(t) = {s[i] : i \in S} BY <1>6, <1>7, <1>8 DEF Range
  <1> QED BY <1>9, <1>10 DEF t

\* All places: the list itself.
LEMMA PickAll ==
  ASSUME NEW s, IsList(s)
  PROVE  Pick(s, DOMAIN s) = s
  <1> DEFINE n == Len(s)
  <1>1. n \in Nat /\ DOMAIN s = 1 .. n /\ s = [i \in 1 .. n |-> s[i]] BY ListPlaces
  <1>2. Cardinality(1 .. n) = n BY <1>1, IntervalSize
  <1>3. ASSUME NEW k \in 1 .. n PROVE Ascending(1 .. n)[k] = k
    <2>1. \A i \in 1 .. n : {j \in 1 .. n : j < i} = 1 .. (i - 1) BY <1>1, SMTT(30)
    <2>2. \A i \in 1 .. n : Cardinality(1 .. (i - 1)) = i - 1
      <3> TAKE i \in 1 .. n
      <3>1. i - 1 \in Nat BY <1>1, SMTT(30)
      <3> QED BY <3>1, IntervalSize
    <2>3. \A i \in 1 .. n : Cardinality({j \in 1 .. n : j < i}) = i - 1 BY <2>1, <2>2
    <2>4. Ascending(1 .. n)[k] = CHOOSE i \in 1 .. n : Cardinality({j \in 1 .. n : j < i}) = k - 1
      BY <1>2 DEF Ascending
    <2> DEFINE m == CHOOSE i \in 1 .. n : Cardinality({j \in 1 .. n : j < i}) = k - 1
    <2>5. m \in 1 .. n /\ Cardinality({j \in 1 .. n : j < m}) = k - 1 BY <2>3
    <2>6. m - 1 = k - 1 BY <2>3, <2>5
    <2> HIDE DEF m
    <2>7. m = k BY <1>1, <2>5, <2>6, SMTT(30)
    <2> QED BY <2>4, <2>7 DEF m
  <1> HIDE DEF n
  <1>4. Pick(s, DOMAIN s) = [k \in 1 .. n |-> s[k]]
    <2>1. Pick(s, DOMAIN s) = [k \in 1 .. n |-> s[Ascending(1 .. n)[k]]] BY <1>1, <1>2 DEF Pick
    <2> QED BY <1>3, <2>1
  <1> QED BY <1>1, <1>4

\* A strictly increasing enumeration is the one Ascending gives.
LEMMA AscendingIs ==
  ASSUME NEW S \in SUBSET Nat, NEW n \in Nat, NEW f \in [1 .. n -> S],
         \A k, m \in 1 .. n : k < m => f[k] < f[m],
         \A i \in S : \E k \in 1 .. n : f[k] = i
  PROVE  /\ IsFiniteSet(S) /\ Cardinality(S) = n
         /\ \A k \in 1 .. n : Ascending(S)[k] = f[k]
  <1> DEFINE Lower(i) == {j \in S : j < i}
  <1>1. ASSUME NEW m \in Nat, m <= n, NEW T \in SUBSET S,
               \A k \in 1 .. m : f[k] \in T, \A i \in T : \E k \in 1 .. m : f[k] = i
        PROVE  IsFiniteSet(T) /\ Cardinality(T) = m
    <2> DEFINE g == [k \in 1 .. m |-> f[k]]
    <2>1. 1 .. m \subseteq 1 .. n BY <1>1, SMTT(30)
    <2>2. g \in [1 .. m -> T] BY <1>1
    <2>3. \A k, l \in 1 .. m : g[k] = g[l] => k = l
      <3> SUFFICES ASSUME NEW k \in 1 .. m, NEW l \in 1 .. m, f[k] = f[l] PROVE k = l OBVIOUS
      <3>1. f[k] \in Nat /\ f[l] \in Nat /\ (k < l => f[k] < f[l]) /\ (l < k => f[l] < f[k]) BY <2>1
      <3> QED BY <1>1, <3>1, SMTT(30)
    <2>4. \A i \in T : \E k \in 1 .. m : g[k] = i BY <1>1
    <2> HIDE DEF g
    <2>5. g \in Bijection(1 .. m, T)
      <3>1. g \in Injection(1 .. m, T) BY <2>2, <2>3 DEF Injection, IsInjective
      <3>2. g \in Surjection(1 .. m, T) BY <2>2, <2>4 DEF Surjection
      <3> QED BY <3>1, <3>2 DEF Bijection
    <2>6. IsFiniteSet(1 .. m) /\ Cardinality(1 .. m) = m BY <1>1, IntervalSize
    <2>7. ExistsBijection(1 .. m, T) BY <2>5 DEF ExistsBijection
    <2> QED BY <2>6, <2>7, FS_Bijection
  <1>2. IsFiniteSet(S) /\ Cardinality(S) = n
    <2>1. n <= n BY SMTT(30)
    <2> QED BY <1>1, <2>1
  <1>3. ASSUME NEW k \in 1 .. n PROVE Cardinality(Lower(f[k])) = k - 1
    <2>1. k - 1 \in Nat /\ k - 1 <= n /\ 1 .. (k - 1) \subseteq 1 .. n BY SMTT(30)
    <2>2. ASSUME NEW m \in 1 .. (k - 1) PROVE f[m] \in Lower(f[k])
      <3>1. m \in 1 .. n /\ m < k BY SMTT(30)
      <3> QED BY <3>1
    <2>3. ASSUME NEW i \in Lower(f[k]) PROVE \E m \in 1 .. (k - 1) : f[m] = i
      <3>1. PICK m \in 1 .. n : f[m] = i OBVIOUS
      <3>2. f[m] < f[k] BY <3>1
      <3>3. ~(k < m) /\ k # m
        <4>1. f[m] \in Nat /\ f[k] \in Nat /\ (k < m => f[k] < f[m]) OBVIOUS
        <4> QED BY <3>2, <4>1, SMTT(30)
      <3>4. m \in 1 .. (k - 1) BY <3>3, SMTT(30)
      <3> QED BY <3>1, <3>4
    <2>4. Lower(f[k]) \in SUBSET S OBVIOUS
    <2> HIDE DEF Lower
    <2> QED BY <1>1, <2>1, <2>2, <2>3, <2>4
  <1>4. ASSUME NEW k \in 1 .. n PROVE Ascending(S)[k] = f[k]
    <2>1. Ascending(S)[k] = CHOOSE i \in S : Cardinality(Lower(i)) = k - 1 BY <1>2 DEF Ascending
    <2>2. f[k] \in S /\ Cardinality(Lower(f[k])) = k - 1 BY <1>3
    <2>3. ASSUME NEW i \in S, Cardinality(Lower(i)) = k - 1 PROVE i = f[k]
      <3>1. PICK m \in 1 .. n : f[m] = i OBVIOUS
      <3>2. m - 1 = k - 1 BY <1>3, <2>3, <3>1
      <3>3. m = k BY <3>2, SMTT(30)
      <3> QED BY <3>1, <3>3
    <2> HIDE DEF Lower
    <2> QED BY <2>1, <2>2, <2>3
  <1> QED BY <1>2, <1>4

\* e takes the members of C to those of D, in order.
InOrder(C, e, D) ==
    /\ IsFiniteSet(D) /\ Cardinality(D) = Cardinality(C)
    /\ \A k \in 1 .. Cardinality(C) : Ascending(D)[k] = e[Ascending(C)[k]]

\* Places moved without changing their order.
LEMMA Carried ==
  ASSUME NEW C \in SUBSET Nat, IsFiniteSet(C), NEW e, \A k \in C : e[k] \in Nat,
         \A k, m \in C : k < m => e[k] < e[m]
  PROVE  InOrder(C, e, {e[k] : k \in C})
  <1> DEFINE D == {e[k] : k \in C}
             n == Cardinality(C)
             f == [k \in 1 .. n |-> e[Ascending(C)[k]]]
  <1>1. /\ n \in Nat
        /\ \A k \in 1 .. n : Ascending(C)[k] \in C
        /\ \A i \in C : \E k \in 1 .. n : Ascending(C)[k] = i
        /\ \A k, m \in 1 .. n : k < m => Ascending(C)[k] < Ascending(C)[m]
    BY Enumerates
  <1>2. D \in SUBSET Nat OBVIOUS
  <1>3. f \in [1 .. n -> D] BY <1>1
  <1>4. \A k, m \in 1 .. n : k < m => f[k] < f[m] BY <1>1
  <1>5. ASSUME NEW i \in D PROVE \E k \in 1 .. n : f[k] = i
    <2>1. PICK j \in C : i = e[j] OBVIOUS
    <2>2. PICK k \in 1 .. n : Ascending(C)[k] = j BY <1>1
    <2>3. f[k] = i BY <2>1, <2>2
    <2> QED BY <2>3
  <1>6. \A k \in 1 .. n : f[k] = e[Ascending(C)[k]] OBVIOUS
  <1> HIDE DEF D, f, n
  <1>7. IsFiniteSet(D) /\ Cardinality(D) = n /\ \A k \in 1 .. n : Ascending(D)[k] = f[k]
    BY <1>1, <1>2, <1>3, <1>4, <1>5, AscendingIs
  <1> QED BY <1>6, <1>7 DEF D, n, InOrder

\* Entries moved without changing their order.
LEMMA PickCarried ==
  ASSUME NEW C \in SUBSET Nat, IsFiniteSet(C), NEW e, \A k \in C : e[k] \in Nat,
         \A k, m \in C : k < m => e[k] < e[m]
  PROVE  \A s, t : (\A k \in C : t[e[k]] = s[k]) => Pick(t, {e[k] : k \in C}) = Pick(s, C)
  <1> DEFINE D == {e[k] : k \in C}
             n == Cardinality(C)
  <1>1. Cardinality(D) = n /\ \A k \in 1 .. n : Ascending(D)[k] = e[Ascending(C)[k]]
    <2>1. InOrder(C, e, D) BY Carried
    <2> HIDE DEF D
    <2> QED BY <2>1 DEF InOrder
  <1>2. \A k \in 1 .. n : Ascending(C)[k] \in C BY Enumerates
  <1> SUFFICES ASSUME NEW s, NEW t, \A k \in C : t[e[k]] = s[k] PROVE Pick(t, D) = Pick(s, C) OBVIOUS
  <1> HIDE DEF D, n
  <1>3. \A k \in 1 .. n : t[Ascending(D)[k]] = s[Ascending(C)[k]] BY <1>1, <1>2
  <1> QED BY <1>1, <1>3 DEF Pick, n

---------------------------------------------------------------------------
(* What the parser returns, whatever it reads.                             *)

IsProject(x) == DOMAIN x = {"alias", "meta", "approval", "allow", "inline"} /\ IsList(x.allow)
AreProjects(ps) == IsList(ps) /\ \A i \in DOMAIN ps : IsProject(ps[i])
IsState(p) == DOMAIN p = {"ok", "open", "array", "table", "projects", "settings"} /\ AreProjects(p.projects)

\* One project replaced.
LEMMA ProjectsExcept ==
  ASSUME NEW ps, AreProjects(ps), NEW n, NEW x, n \in DOMAIN ps => IsProject(x)
  PROVE  AreProjects([ps EXCEPT ![n] = x]) /\ Len([ps EXCEPT ![n] = x]) = Len(ps)
  <1> DEFINE qs == [ps EXCEPT ![n] = x]
  <1>1. IsList(qs) /\ DOMAIN qs = DOMAIN ps /\ Len(qs) = Len(ps) BY ListExcept DEF AreProjects
  <1>2. ASSUME NEW i \in DOMAIN ps PROVE IsProject(qs[i])
    <2>1. CASE i = n BY <2>1
    <2>2. CASE i # n BY <2>2 DEF AreProjects
    <2> QED BY <2>1, <2>2
  <1> HIDE DEF qs
  <1>3. AreProjects(qs) BY <1>1, <1>2 DEF AreProjects
  <1> QED BY <1>1, <1>3 DEF qs

\* A line that begins a project, and what reading it does to their number.
IsHeading(line) == line.kind \in {"project", "element"} /\ line.value # Rest
Counts(p, line, q) ==
    q.ok => p.ok /\ Len(q.projects) = IF IsHeading(line) THEN Len(p.projects) + 1 ELSE Len(p.projects)

\* One line.
LEMMA ParseLineKeeps ==
  ASSUME NEW p, IsState(p), NEW line
  PROVE  IsState(ParseLine(p, line)) /\ Counts(p, line, ParseLine(p, line))
  <1> DEFINE ps == p.projects
             n == Len(ps)
             m == Len(ps[n].allow)
             q == ParseLine(p, line)
             a1 == [p EXCEPT !.ok = FALSE]
             a2 == [p EXCEPT !.open = FALSE]
             a3 == [p EXCEPT !.ok = @ /\ ~p.array, !.projects = Append(@, NewProject), !.table = "project"]
             element == [NewProject EXCEPT !.alias = line.value, !.meta = line.value]
             a11 == [p EXCEPT !.ok = @ /\ p.table = "", !.array = TRUE, !.projects = Append(@, element)]
             a4 == [p EXCEPT !.projects[n].allow = Append(@, ""), !.table = "allow"]
             a5 == [p EXCEPT !.table = line.value]
             a6 == [p EXCEPT !.settings = @ \cup {<<p.table, line.value>>}]
             a7 == [p EXCEPT !.ok = @ /\ ps[n][line.kind] = "",
                             !.projects[n][line.kind] = line.value, !.open = line.open]
             a8 == [p EXCEPT !.ok = @ /\ ps[n].allow[m] = "",
                             !.projects[n].allow[m] = line.value, !.open = line.open]
             a9 == [p EXCEPT !.ok = @ /\ m = 0, !.projects[n].allow = <<line.value>>,
                             !.projects[n].inline = TRUE]
             a10 == [p EXCEPT !.open = line.open]
             k == line.kind
  <1>0. DOMAIN p = {"ok", "open", "array", "table", "projects", "settings"} /\ AreProjects(ps) BY DEF IsState
  <1>1. \/ q = a1
        \/ IsHeading(line) /\ q \in {a3, a11}
        \/ ~IsHeading(line) /\ q \in {a2, a4, a5, a6, a8, a9, a10}
        \/ ~IsHeading(line) /\ k \in {"alias", "meta", "approval"} /\ q = a7
    <2> DEFINE other ==
              CASE k \in {"project"} -> a3
                [] k \in {"element"} -> a11
                [] k \in {"allow"} -> IF n = 0 \/ p.array \/ ps[n].inline THEN a1 ELSE a4
                [] k \in {"table"} -> a5
                [] k \in {"setting"} -> a6
                [] k \in {"alias", "meta", "approval"} /\ p.table = "project" -> a7
                [] k \in {"argv"} /\ p.table = "allow" -> a8
                [] k \in {"inline"} /\ p.table = "project" -> a9
                [] OTHER -> a10
    <2>1. q = IF p.open # (line.value = Rest) THEN a1 ELSE IF p.open THEN a2 ELSE other
      BY DEF ParseLine
    <2> HIDE DEF q, a1, a2, a3, a4, a5, a6, a7, a8, a9, a10, a11
    <2> DEFINE begins == k \in {"project", "element"}
    <2>2. \/ begins /\ other \in {a3, a11}
          \/ ~begins /\ other \in {a1, a4, a5, a6, a8, a9, a10}
          \/ ~begins /\ k \in {"alias", "meta", "approval"} /\ other = a7
      BY SMTT(30)
    <2> HIDE DEF other, k
    <2>3. CASE p.open # (line.value = Rest) BY <2>1, <2>3
    <2>4. CASE p.open = (line.value = Rest) /\ p.open
      BY <2>1, <2>4 DEF IsHeading
    <2>5. CASE p.open = (line.value = Rest) /\ ~p.open
      <3>1. line.value # Rest /\ q = other BY <2>1, <2>5
      <3>2. IsHeading(line) <=> begins BY <3>1 DEF IsHeading, k
      <3> QED BY <2>2, <3>1, <3>2
    <2> QED BY <2>3, <2>4, <2>5
  <1> SUFFICES IsState(q) /\ Counts(p, line, q) OBVIOUS
  <1> HIDE DEF q
  <1>2. CASE q = a1
    <2>1. q.projects = ps /\ DOMAIN q = DOMAIN p /\ q.ok = FALSE BY <1>0, <1>2
    <2> QED BY <1>0, <2>1 DEF IsState, Counts
  <1>3. CASE ~IsHeading(line) /\ q \in {a2, a5, a6, a10}
    <2>1. q.projects = ps /\ DOMAIN q = DOMAIN p /\ q.ok = p.ok BY <1>0, <1>3
    <2> QED BY <1>0, <1>3, <2>1 DEF IsState, Counts
  <1>4. CASE IsHeading(line) /\ q \in {a3, a11}
    <2>1. PICK x \in {NewProject, element} :
             DOMAIN q = DOMAIN p /\ q.projects = Append(ps, x) /\ (q.ok => p.ok)
      BY <1>0, <1>4
    <2>2. IsProject(x)
      <3>1. IsList(<<>>) BY SMTT(30) DEF IsList
      <3>2. IsProject(NewProject) BY <3>1 DEF IsProject, NewProject
      <3>3. IsProject(element) BY <3>2 DEF IsProject
      <3> HIDE DEF element
      <3> QED BY <3>2, <3>3
    <2>3. AreProjects(Append(ps, x)) /\ Len(Append(ps, x)) = n + 1
      <3>1. IsList(ps) /\ DOMAIN ps = 1 .. n /\ n \in Nat BY <1>0, ListPlaces DEF AreProjects
      <3>2. \A i \in 1 .. (n + 1) : i \in 1 .. n \/ i = n + 1 BY <3>1, SMTT(30)
      <3> DEFINE u == Append(ps, x)
      <3>3. Extended(ps, x, u) BY <3>1, ListAppend
      <3> HIDE DEF u
      <3>4. AreProjects(u) /\ Len(u) = n + 1
        BY <1>0, <2>2, <3>1, <3>2, <3>3 DEF AreProjects, Extended
      <3> QED BY <3>4 DEF u
    <2> QED BY <1>0, <1>4, <2>1, <2>3 DEF IsState, Counts
  <1>5. CASE ~IsHeading(line) /\ q = a4
    <2> DEFINE x == [ps[n] EXCEPT !.allow = Append(ps[n].allow, "")]
    <2>1. DOMAIN q = DOMAIN p /\ q.projects = [ps EXCEPT ![n] = x] /\ q.ok = p.ok BY <1>0, <1>5
    <2>2. n \in DOMAIN ps => IsProject(x)
      <3> SUFFICES ASSUME n \in DOMAIN ps PROVE IsProject(x) OBVIOUS
      <3> DEFINE al == ps[n].allow
                 u == Append(al, "")
      <3>1. IsProject(ps[n]) BY <1>0 DEF AreProjects
      <3>2. IsList(al) BY <3>1 DEF IsProject
      <3> HIDE DEF al
      <3>3. Extended(al, "", u) BY <3>2, ListAppend
      <3>4. IsList(u) BY <3>3 DEF Extended
      <3> HIDE DEF u
      <3>5. x = [ps[n] EXCEPT !.allow = u] BY DEF u, al
      <3> QED BY <3>1, <3>4, <3>5 DEF IsProject
    <2> HIDE DEF x
    <2>3. AreProjects([ps EXCEPT ![n] = x]) /\ Len([ps EXCEPT ![n] = x]) = n BY <1>0, <2>2, ProjectsExcept
    <2> QED BY <1>0, <1>5, <2>1, <2>3 DEF IsState, Counts
  <1>6. CASE ~IsHeading(line) /\ k \in {"alias", "meta", "approval"} /\ q = a7
    <2> DEFINE x == [ps[n] EXCEPT ![line.kind] = line.value]
    <2>1. DOMAIN q = DOMAIN p /\ q.projects = [ps EXCEPT ![n] = x] /\ (q.ok => p.ok) BY <1>0, <1>6
    <2>2. n \in DOMAIN ps => IsProject(x)
      <3>1. line.kind # "allow" BY <1>6
      <3> QED BY <1>0, <3>1 DEF AreProjects, IsProject
    <2> HIDE DEF x
    <2>3. AreProjects([ps EXCEPT ![n] = x]) /\ Len([ps EXCEPT ![n] = x]) = n BY <1>0, <2>2, ProjectsExcept
    <2> QED BY <1>0, <1>6, <2>1, <2>3 DEF IsState, Counts
  <1>7. CASE ~IsHeading(line) /\ q = a8
    <2> DEFINE x == [ps[n] EXCEPT !.allow = [ps[n].allow EXCEPT ![m] = line.value]]
    <2>1. DOMAIN q = DOMAIN p /\ q.projects = [ps EXCEPT ![n] = x] /\ (q.ok => p.ok) BY <1>0, <1>7
    <2>2. n \in DOMAIN ps => IsProject(x) BY <1>0, ListExcept DEF AreProjects, IsProject
    <2> HIDE DEF x
    <2>3. AreProjects([ps EXCEPT ![n] = x]) /\ Len([ps EXCEPT ![n] = x]) = n BY <1>0, <2>2, ProjectsExcept
    <2> QED BY <1>0, <1>7, <2>1, <2>3 DEF IsState, Counts
  <1>8. CASE ~IsHeading(line) /\ q = a9
    <2> DEFINE x == [ps[n] EXCEPT !.allow = <<line.value>>]
               y == [x EXCEPT !.inline = TRUE]
               xs == [ps EXCEPT ![n] = x]
               z == [xs[n] EXCEPT !.inline = TRUE]
    <2>1. DOMAIN q = DOMAIN p /\ q.projects = [xs EXCEPT ![n] = z] /\ (q.ok => p.ok)
      BY <1>0, <1>8
    <2>2. n \in DOMAIN ps => IsProject(x) /\ IsProject(y)
      <3>1. IsList(<<line.value>>) BY SMTT(30) DEF IsList, Range
      <3> QED BY <1>0, <3>1 DEF AreProjects, IsProject
    <2>3. AreProjects(xs) /\ Len(xs) = n BY <1>0, <2>2, ProjectsExcept
    <2>4. n \in DOMAIN xs => IsProject(z) BY <2>2
    <2> HIDE DEF xs, z
    <2>5. AreProjects([xs EXCEPT ![n] = z]) /\ Len([xs EXCEPT ![n] = z]) = n
      <3> DEFINE w == Len(xs)
      <3>1. AreProjects([xs EXCEPT ![n] = z]) /\ Len([xs EXCEPT ![n] = z]) = w
        BY <2>3, <2>4, ProjectsExcept
      <3> QED BY <2>3, <3>1
    <2> QED BY <1>0, <1>8, <2>1, <2>5 DEF IsState, Counts
  <1> QED BY <1>1, <1>2, <1>3, <1>4, <1>5, <1>6, <1>7, <1>8

Below == {ij \in Nat \X Nat : ij[1] < ij[2]}

\* A property of some natural number holds of a least one: the induction
\* principle that what a loop computes is shown with.
LEMMA LeastNatural ==
  ASSUME NEW T, T \subseteq Nat, T # {}
  PROVE  \E n \in T : \A m \in T : n <= m
  <1>1. IsWellFoundedOn(Below, Nat) BY NatLessThanWellFounded DEF OpToRel, Below
  <1>2. PICK n \in T : \A m \in T : <<m, n>> \notin Below BY <1>1, WFMin
  <1>3. \A m \in T : <<m, n>> \in Nat \X Nat /\ n \in Nat /\ m \in Nat OBVIOUS
  <1>4. \A m \in T : ~(m < n) BY <1>2, <1>3 DEF Below
  <1> QED BY <1>3, <1>4, SMTT(30)

Start ==
    [ok |-> TRUE, open |-> FALSE, array |-> FALSE, table |-> "", projects |-> <<>>, settings |-> {}]

\* The parser's states before and after each of the first n lines.
Reads(lines, n, g) ==
    g = [k \in 0 .. n |-> IF k = 0 THEN Start ELSE ParseLine(g[k - 1], lines[k])]

\* Reading is well defined for any number of lines.
LEMMA ReadsExist ==
  ASSUME NEW lines
  PROVE  \A n \in Nat : \E g : Reads(lines, n, g)
  <1> DEFINE Bad == {n \in Nat : ~ \E g : Reads(lines, n, g)}
  <1>1. SUFFICES ASSUME Bad # {} PROVE FALSE OBVIOUS
  <1>2. PICK n \in Bad : \A m \in Bad : n <= m BY <1>1, LeastNatural
  <1>3. n # 0
    <2>1. Reads(lines, 0, [k \in 0 .. 0 |-> Start]) BY SMTT(30) DEF Reads
    <2> QED BY <2>1
  <1>4. n \in Nat /\ n - 1 \in Nat /\ n - 1 \notin Bad BY <1>2, <1>3, SMTT(30)
  <1>5. PICK g : Reads(lines, n - 1, g) BY <1>4
  <1> DEFINE h == [k \in 0 .. n |-> IF k = n THEN ParseLine(g[n - 1], lines[n]) ELSE g[k]]
  <1>6. Reads(lines, n, h) BY <1>3, <1>4, <1>5, SMTT(30) DEF Reads
  <1> QED BY <1>6

\* The lines among the first k that begin a project.
Begun(lines, k) == {i \in 1 .. k : IsHeading(lines[i])}

\* One line more.
LEMMA BegunNext ==
  ASSUME NEW lines, NEW k \in Nat, k # 0
  PROVE  /\ IsFiniteSet(Begun(lines, k)) /\ Cardinality(Begun(lines, k)) \in Nat
         /\ Cardinality(Begun(lines, k)) =
               IF IsHeading(lines[k]) THEN Cardinality(Begun(lines, k - 1)) + 1
               ELSE Cardinality(Begun(lines, k - 1))
  <1> DEFINE S == Begun(lines, k - 1)
             T == Begun(lines, k)
  <1>1. k - 1 \in Nat /\ k \notin 1 .. (k - 1) /\ k \in 1 .. k
        /\ \A i : i \in 1 .. k <=> i \in 1 .. (k - 1) \/ i = k
    BY SMTT(30)
  <1>2. IsFiniteSet(S)
    <2>1. S \in SUBSET (1 .. (k - 1)) BY DEF Begun
    <2>2. IsFiniteSet(1 .. (k - 1)) BY <1>1, IntervalSize
    <2> HIDE DEF S
    <2> QED BY <2>1, <2>2, FS_Subset
  <1>3. k \notin S /\ T = IF IsHeading(lines[k]) THEN S \cup {k} ELSE S BY <1>1 DEF Begun
  <1> HIDE DEF S, T
  <1>4. IsFiniteSet(S \cup {k}) /\ Cardinality(S \cup {k}) = Cardinality(S) + 1
    BY <1>2, <1>3, FS_AddElement
  <1>5. IsFiniteSet(T) /\ Cardinality(T) = IF IsHeading(lines[k]) THEN Cardinality(S) + 1 ELSE Cardinality(S)
    BY <1>2, <1>3, <1>4
  <1> QED BY <1>5, FS_CardinalityType DEF S, T

\* What Decode returns has the shape of a parsed file, with one project for every
\* line that begins one.
LEMMA DecodeState ==
  ASSUME NEW lines, Len(lines) \in Nat
  PROVE  /\ IsState(Decode(lines))
         /\ Decode(lines).ok => Len(Decode(lines).projects) = Cardinality(Begun(lines, Len(lines)))
  <1> DEFINE n == Len(lines)
             g == CHOOSE g : Reads(lines, n, g)
             Counted(k) == g[k].ok => Len(g[k].projects) = Cardinality(Begun(lines, k))
             Bad == {k \in 0 .. n : ~(IsState(g[k]) /\ Counted(k))}
  <1>1. Reads(lines, n, g) BY ReadsExist
  <1>2. Decode(lines) = g[n] BY DEF Decode, Reads, Start
  <1> HIDE DEF g
  <1>3. SUFFICES ASSUME Bad # {} PROVE FALSE
    <2>1. n \in 0 .. n BY SMTT(30)
    <2> QED BY <1>2, <2>1
  <1>4. PICK k \in Bad : \A m \in Bad : k <= m
    <2>1. Bad \subseteq Nat BY SMTT(30)
    <2> HIDE DEF Bad
    <2> QED BY <1>3, <2>1, LeastNatural
  <1>5. k # 0
    <2>1. g[0] = Start BY <1>1, SMTT(30) DEF Reads
    <2>2. IsList(<<>>) /\ DOMAIN <<>> = {} /\ Len(<<>>) = 0 BY SMTT(30) DEF IsList
    <2>3. IsState(Start) BY <2>2 DEF IsState, AreProjects, Start
    <2>4. Begun(lines, 0) = {}
      <3>1. 1 .. 0 = {} BY SMTT(30)
      <3> QED BY <3>1 DEF Begun
    <2>5. Counted(0)
      <3>1. Cardinality(Begun(lines, 0)) = 0
        <4>1. IsFiniteSet({}) /\ Cardinality({}) = 0 BY FS_EmptySet
        <4> QED BY <2>4, <4>1
      <3>2. Start.projects = <<>> BY SMTT(30) DEF Start
      <3>3. Len(g[0].projects) = 0 BY <2>1, <2>2, <3>2
      <3> QED BY <3>1, <3>3
    <2> QED BY <2>1, <2>3, <2>5
  <1>6. k \in 1 .. n /\ k \in Nat /\ k - 1 \in 0 .. n /\ k - 1 \notin Bad
    <2>1. Bad \subseteq 0 .. n OBVIOUS
    <2> HIDE DEF Bad
    <2> QED BY <1>4, <1>5, <2>1, SMTT(30)
  <1>7. g[k] = ParseLine(g[k - 1], lines[k]) BY <1>1, <1>6, SMTT(30) DEF Reads
  <1>8. IsState(g[k]) /\ Counts(g[k - 1], lines[k], g[k]) BY <1>6, <1>7, ParseLineKeeps
  <1>9. Counted(k) BY <1>5, <1>6, <1>8, BegunNext DEF Counts
  <1> QED BY <1>4, <1>8, <1>9

\* The shape of a configuration, and its aliases are distinct.
IsConfig(c) ==
    /\ DOMAIN c = {"projects", "settings"}
    /\ IsList(c.projects)
    /\ \A i \in DOMAIN c.projects :
          /\ DOMAIN c.projects[i] = {"alias", "meta", "allow", "approval"}
          /\ IsList(c.projects[i].allow)
Distinct(c) ==
    \A i, j \in DOMAIN c.projects : c.projects[i].alias = c.projects[j].alias => i = j

\* config.Parse returns a configuration; one that validates has no alias twice.
LEMMA Configured ==
  ASSUME NEW t, IsText(t)
  PROVE  IsConfig(Config(t)) /\ (Validates(t) => Distinct(Config(t)))
  <1> DEFINE p == Decode(t.lines)
             c == Config(t)
             ps == p.projects
  <1>1. IsState(p)
    <2>1. Len(t.lines) \in Nat BY ListPlaces DEF IsText, IsList
    <2> QED BY <2>1, DecodeState
  <1>2. IsList(ps) /\ Len(ps) \in Nat /\ DOMAIN ps = 1 .. Len(ps) /\ \A i \in DOMAIN ps : IsList(ps[i].allow)
    BY <1>1, ListPlaces DEF IsState, AreProjects, IsProject
  <1>3. /\ DOMAIN c = {"projects", "settings"} /\ DOMAIN c.projects = DOMAIN ps
        /\ c.projects = [i \in DOMAIN ps |-> c.projects[i]]
        /\ \A i \in DOMAIN ps : /\ DOMAIN c.projects[i] = {"alias", "meta", "allow", "approval"}
                                  /\ c.projects[i].allow = ps[i].allow
                                  /\ c.projects[i].alias = ps[i].alias
    BY DEF Config
  <1>4. Validates(t) => \A i \in DOMAIN ps : \A j \in DOMAIN ps \ {i} : ps[j].alias # ps[i].alias
    BY DEF Validates
  <1> HIDE DEF p, c
  <1>5. IsList(c.projects) BY <1>2, <1>3, ListForm
  <1>6. IsConfig(c) BY <1>2, <1>3, <1>5 DEF IsConfig
  <1>7. Validates(t) => Distinct(c)
    <2> SUFFICES ASSUME Validates(t), NEW i \in DOMAIN ps, NEW j \in DOMAIN ps,
                        c.projects[i].alias = c.projects[j].alias, i # j
                 PROVE  FALSE
      BY <1>3 DEF Distinct
    <2>1. j \in DOMAIN ps \ {i} OBVIOUS
    <2> QED BY <1>3, <1>4, <2>1
  <1> QED BY <1>6, <1>7 DEF c

---------------------------------------------------------------------------
(* What each operation intends is exactly what was asked for.              *)

\* findProject returns the project with the alias.
LEMMA Found ==
  ASSUME NEW c, IsConfig(c), NEW a \in Aliases(c)
  PROVE  /\ Index(c, a) \in DOMAIN c.projects /\ c.projects[Index(c, a)].alias = a
         /\ Distinct(c) => \A i \in DOMAIN c.projects : c.projects[i].alias = a => i = Index(c, a)
  <1>1. \E i \in DOMAIN c.projects : c.projects[i].alias = a BY DEF Aliases
  <1>2. Index(c, a) \in DOMAIN c.projects /\ c.projects[Index(c, a)].alias = a BY <1>1 DEF Index
  <1> QED BY <1>2 DEF Distinct

\* The projects with an alias: none, or the one findProject returns.
LEMMA TheOneIs ==
  ASSUME NEW c, IsConfig(c), Distinct(c), NEW a
  PROVE  /\ a \notin Aliases(c) => TheOne(c, a) = {}
         /\ a \in Aliases(c) => TheOne(c, a) = {c.projects[Index(c, a)]}
  <1>1. Range(c.projects) = {c.projects[i] : i \in DOMAIN c.projects} BY DEF Range
  <1>2. ASSUME a \notin Aliases(c) PROVE TheOne(c, a) = {} BY <1>1, <1>2 DEF TheOne, Aliases
  <1>3. ASSUME a \in Aliases(c) PROVE TheOne(c, a) = {c.projects[Index(c, a)]}
    <2>1. /\ Index(c, a) \in DOMAIN c.projects /\ c.projects[Index(c, a)].alias = a
          /\ \A i \in DOMAIN c.projects : c.projects[i].alias = a => i = Index(c, a)
      BY <1>3, Found
    <2> HIDE DEF Index
    <2> QED BY <1>1, <2>1 DEF TheOne
  <1> QED BY <1>2, <1>3

\* The fields of a project that operations change.
Editable == {"meta", "approval", "allow"}

\* From c to d the project p with alias a became q, and nothing else changed.
Became(c, d, a, p, q) ==
    /\ d.settings = c.settings /\ Others(d, a) = Others(c, a)
    /\ TheOne(c, a) = {p} /\ TheOne(d, a) = {q}

\* One field of the selected project changed.
LEMMA WithChanges ==
  ASSUME NEW c, IsConfig(c), Distinct(c), NEW o, Known(o, c),
         NEW f \in Editable, NEW v
  PROVE  /\ Became(c, With(o, c, f, v), o.alias, Selected(o, c), [Selected(o, c) EXCEPT ![f] = v])
         /\ [Selected(o, c) EXCEPT ![f] = v][f] = v
  <1> DEFINE d == With(o, c, f, v)
             n == Index(c, o.alias)
             ps == c.projects
             qs == d.projects
             q == [ps[n] EXCEPT ![f] = v]
  <1>1. /\ n \in DOMAIN ps /\ ps[n].alias = o.alias
        /\ \A i \in DOMAIN ps : ps[i].alias = o.alias => i = n
    BY Found DEF Known
  <1>2. DOMAIN c = {"projects", "settings"} /\ DOMAIN ps[n] = {"alias", "meta", "allow", "approval"}
    BY <1>1 DEF IsConfig
  <1>3. d.settings = c.settings /\ qs = [ps EXCEPT ![n] = q] BY <1>2 DEF With
  <1>4. q[f] = v /\ q.alias = o.alias BY <1>1, <1>2 DEF Editable
  <1> HIDE DEF d, n, q
  <1>5. /\ DOMAIN qs = DOMAIN ps /\ qs[n] = q
        /\ \A i \in DOMAIN ps : i # n => qs[i] = ps[i]
    BY <1>1, <1>3
  <1> HIDE DEF qs
  <1> DEFINE S == {i \in DOMAIN ps : ps[i].alias # o.alias}
  <1>6. {i \in DOMAIN qs : qs[i].alias # o.alias} = S BY <1>1, <1>4, <1>5
  <1>7. Pick(qs, S) = Pick(ps, S)
    <2>1. \A k \in 1 .. Cardinality(S) : Ascending(S)[k] \in S
      <3>1. IsList(ps) BY DEF IsConfig
      <3>2. Len(ps) \in Nat /\ DOMAIN ps = 1 .. Len(ps) BY <3>1, ListPlaces
      <3>3. IsFiniteSet(S) BY <3>2, IntervalSize, FS_Subset
      <3>4. S \in SUBSET Nat BY <3>2, SMTT(30)
      <3> HIDE DEF S
      <3> QED BY <3>3, <3>4, Enumerates
    <2>2. \A k \in 1 .. Cardinality(S) : qs[Ascending(S)[k]] = ps[Ascending(S)[k]] BY <1>1, <1>5, <2>1
    <2> HIDE DEF S
    <2> QED BY <2>2 DEF Pick
  <1>8. Others(d, o.alias) = Others(c, o.alias) BY <1>6, <1>7 DEF Others, qs
  <1>9. TheOne(d, o.alias) = {q}
    <2>1. Range(qs) = {qs[i] : i \in DOMAIN qs} BY DEF Range
    <2> QED BY <1>1, <1>4, <1>5, <2>1 DEF TheOne, qs
  <1>10. TheOne(c, o.alias) = {ps[n]} BY TheOneIs DEF Known, n
  <1> QED BY <1>3, <1>4, <1>8, <1>9, <1>10 DEF Became, Selected, n, d, q

\* The selected project left out.
LEMMA WithoutChanges ==
  ASSUME NEW c, IsConfig(c), Distinct(c), NEW a \in Aliases(c)
  PROVE  LET d == Without(c, a) IN
         /\ d.settings = c.settings
         /\ Others(d, a) = Others(c, a)
         /\ TheOne(d, a) = {}
         /\ Cardinality(TheOne(c, a)) = 1
  <1> DEFINE d == Without(c, a)
             n == Index(c, a)
             ps == c.projects
             qs == d.projects
             S == DOMAIN ps \ {n}
  <1>1. /\ n \in DOMAIN ps /\ ps[n].alias = a
        /\ \A i \in DOMAIN ps : ps[i].alias = a => i = n
    BY Found
  <1>2. DOMAIN c = {"projects", "settings"} /\ IsList(ps) BY DEF IsConfig
  <1>3. d.settings = c.settings /\ qs = Pick(ps, S) BY <1>2 DEF Without
  <1> HIDE DEF d, n, qs
  <1>4. IsList(qs) /\ Range(qs) = {ps[i] : i \in S}
    <2>1. S \in SUBSET DOMAIN ps OBVIOUS
    <2> QED BY <1>2, <1>3, <2>1, Picked
  <1>5. \A q \in Range(qs) : q.alias # a BY <1>1, <1>4
  <1>6. {i \in DOMAIN qs : qs[i].alias # a} = DOMAIN qs BY <1>5 DEF Range
  <1>7. {i \in DOMAIN ps : ps[i].alias # a} = S BY <1>1
  <1>8. Others(d, a) = qs BY <1>4, <1>6, PickAll DEF Others, qs
  <1>9. Others(c, a) = qs BY <1>3, <1>7 DEF Others
  <1>10. TheOne(d, a) = {} BY <1>5 DEF TheOne, qs
  <1>11. Cardinality(TheOne(c, a)) = 1 BY TheOneIs, FS_Singleton
  <1> QED BY <1>3, <1>8, <1>9, <1>10, <1>11 DEF d

\* A project added.
LEMMA AppendChanges ==
  ASSUME NEW c, IsConfig(c), Distinct(c), NEW x, x.alias \notin Aliases(c)
  PROVE  LET d == [c EXCEPT !.projects = Append(@, x)] IN
         /\ d.settings = c.settings
         /\ Others(d, x.alias) = Others(c, x.alias)
         /\ TheOne(c, x.alias) = {}
         /\ Cardinality(TheOne(d, x.alias)) = 1
  <1> DEFINE d == [c EXCEPT !.projects = Append(@, x)]
             a == x.alias
             ps == c.projects
             qs == d.projects
             n == Len(ps)
  <1>1. DOMAIN c = {"projects", "settings"} /\ IsList(ps) /\ n \in Nat /\ DOMAIN ps = 1 .. n
    BY ListPlaces DEF IsConfig
  <1>2. d.settings = c.settings /\ qs = Append(ps, x) BY <1>1
  <1> HIDE DEF d, qs
  <1>3. /\ DOMAIN qs = 1 .. (n + 1) /\ qs[n + 1] = x
        /\ \A i \in 1 .. n : qs[i] = ps[i]
    <2>1. Extended(ps, x, qs) BY <1>1, <1>2, ListAppend
    <2> QED BY <2>1 DEF Extended
  <1>4. \A i \in 1 .. n : ps[i].alias # a BY <1>1 DEF Aliases
  <1>5. /\ \A i \in 1 .. (n + 1) : i \in 1 .. n \/ i = n + 1
        /\ \A i \in 1 .. n : i \in 1 .. (n + 1)
        /\ n + 1 \in 1 .. (n + 1)
    BY <1>1, SMTT(30)
  <1>6. {i \in DOMAIN qs : qs[i].alias # a} = 1 .. n BY <1>3, <1>4, <1>5
  <1>7. {i \in DOMAIN ps : ps[i].alias # a} = 1 .. n BY <1>1, <1>4
  <1>8. Pick(qs, 1 .. n) = Pick(ps, 1 .. n)
    <2>1. 1 .. n \in SUBSET Nat BY <1>1, SMTT(30)
    <2>2. \A k \in 1 .. Cardinality(1 .. n) : Ascending(1 .. n)[k] \in 1 .. n
      BY <1>1, <2>1, IntervalSize, Enumerates
    <2> QED BY <1>3, <2>2 DEF Pick
  <1>9. Others(d, a) = Others(c, a) BY <1>6, <1>7, <1>8 DEF Others, qs
  <1>10. TheOne(c, a) = {} BY TheOneIs
  <1>11. TheOne(d, a) = {x}
    <2>1. \A q \in Range(qs) : q = x \/ q.alias # a BY <1>3, <1>4, <1>5 DEF Range
    <2>2. x \in Range(qs) BY <1>3, <1>5 DEF Range
    <2> QED BY <2>1, <2>2 DEF TheOne, qs
  <1>12. Cardinality(TheOne(d, a)) = 1 BY <1>11, FS_Singleton
  <1> QED BY <1>2, <1>9, <1>10, <1>12 DEF d

\* UpdateProjectMetadata and SetApproval.
LEMMA FieldExact ==
  ASSUME NEW c, IsConfig(c), Distinct(c), NEW o, Known(o, c), NEW f \in Editable
  PROVE  /\ \/ o.kind = "metadata" /\ f = "meta"
            \/ o.kind = "approval" /\ f = "approval"
         /\ Selected(o, c)[f] # o.arg
         => Exact(o, c, With(o, c, f, o.arg))
  <1> DEFINE v == o.arg
             d == With(o, c, f, v)
             p == Selected(o, c)
             q == [p EXCEPT ![f] = v]
  <1>1. Became(c, d, o.alias, p, q) /\ q[f] = v
    <2> HIDE DEF v
    <2> QED BY WithChanges
  <1> SUFFICES ASSUME \/ o.kind = "metadata" /\ f = "meta"
                      \/ o.kind = "approval" /\ f = "approval",
                      Selected(o, c)[f] # o.arg
               PROVE  Exact(o, c, With(o, c, f, o.arg))
    OBVIOUS
  <1>2. q = [p EXCEPT ![f] = q[f]] /\ p # q BY <1>1
  <1> HIDE DEF d, p, q
  <1>3. Exact(o, c, d) BY <1>1, <1>2 DEF Exact, Became
  <1> QED BY <1>3 DEF d

\* AddAllowlist.
LEMMA AddExact ==
  ASSUME NEW c, IsConfig(c), Distinct(c), NEW o, Known(o, c)
  PROVE  o.kind = "allow" /\ o.arg \notin Range(Selected(o, c).allow)
         => Exact(o, c, With(o, c, "allow", Append(Selected(o, c).allow, o.arg)))
  <1> DEFINE p == Selected(o, c)
             v == Append(p.allow, o.arg)
             d == With(o, c, "allow", v)
             q == [p EXCEPT !.allow = v]
  <1>1. Became(c, d, o.alias, p, q) /\ q.allow = v
    <2>1. "allow" \in Editable BY DEF Editable
    <2> HIDE DEF v
    <2> QED BY <2>1, WithChanges
  <1> SUFFICES ASSUME o.kind = "allow", o.arg \notin Range(Selected(o, c).allow)
               PROVE  Exact(o, c, With(o, c, "allow", Append(Selected(o, c).allow, o.arg)))
    OBVIOUS
  <1>2. Range(v) = Range(p.allow) \cup {o.arg}
    <2>1. IsList(p.allow) BY Found DEF IsConfig, Selected, Known
    <2> DEFINE n == Len(p.allow)
    <2>2. n \in Nat /\ DOMAIN p.allow = 1 .. n BY <2>1, ListPlaces
    <2>3. /\ DOMAIN v = 1 .. (n + 1) /\ v[n + 1] = o.arg
          /\ \A i \in 1 .. n : v[i] = p.allow[i]
      <3> DEFINE al == p.allow
      <3>1. IsList(al) /\ v = Append(al, o.arg) /\ n = Len(al) BY <2>1
      <3> HIDE DEF al, v, n
      <3>2. Extended(al, o.arg, v) BY <3>1, ListAppend
      <3>3. /\ DOMAIN v = 1 .. (n + 1) /\ v[n + 1] = o.arg
            /\ \A i \in 1 .. n : v[i] = al[i]
        BY <3>1, <3>2 DEF Extended
      <3> QED BY <3>3 DEF al
    <2>4. /\ \A i \in 1 .. (n + 1) : i \in 1 .. n \/ i = n + 1
          /\ \A i \in 1 .. n : i \in 1 .. (n + 1)
          /\ n + 1 \in 1 .. (n + 1)
      BY <2>2, SMTT(30)
    <2> HIDE DEF v, n, p
    <2>5. \A e \in Range(v) : e \in Range(p.allow) \cup {o.arg} BY <2>2, <2>3, <2>4 DEF Range
    <2>6. \A e \in Range(p.allow) \cup {o.arg} : e \in Range(v) BY <2>2, <2>3, <2>4 DEF Range
    <2> QED BY <2>5, <2>6
  <1>3. q = [p EXCEPT !.allow = q.allow] /\ p # q BY <1>1, <1>2
  <1> HIDE DEF d, p, q, v
  <1>4. Exact(o, c, d) BY <1>1, <1>2, <1>3 DEF Exact, Became
  <1> QED BY <1>4 DEF d, v, p

\* RemoveAllowlist.
LEMMA PurgeExact ==
  ASSUME NEW c, IsConfig(c), Distinct(c), NEW o, Known(o, c)
  PROVE  o.kind = "disallow" /\ o.arg \in Range(Selected(o, c).allow)
         => Exact(o, c, With(o, c, "allow", Purged(Selected(o, c).allow, o.arg)))
  <1> DEFINE p == Selected(o, c)
             v == Purged(p.allow, o.arg)
             d == With(o, c, "allow", v)
             q == [p EXCEPT !.allow = v]
  <1>1. Became(c, d, o.alias, p, q) /\ q.allow = v
    <2>1. "allow" \in Editable BY DEF Editable
    <2> HIDE DEF v
    <2> QED BY <2>1, WithChanges
  <1> SUFFICES ASSUME o.kind = "disallow", o.arg \in Range(Selected(o, c).allow)
               PROVE  Exact(o, c, With(o, c, "allow", Purged(Selected(o, c).allow, o.arg)))
    OBVIOUS
  <1>2. Range(v) = Range(p.allow) \ {o.arg}
    <2>1. IsList(p.allow) BY Found DEF IsConfig, Selected, Known
    <2> DEFINE S == {k \in DOMAIN p.allow : p.allow[k] # o.arg}
    <2>2. Range(v) = {p.allow[k] : k \in S}
      <3>1. S \in SUBSET DOMAIN p.allow OBVIOUS
      <3>2. v = Pick(p.allow, S) BY DEF Purged
      <3> HIDE DEF S
      <3> QED BY <2>1, <3>1, <3>2, Picked
    <2> HIDE DEF v, p
    <2> QED BY <2>2 DEF Range
  <1>3. q = [p EXCEPT !.allow = q.allow] /\ p # q BY <1>1, <1>2
  <1> HIDE DEF d, p, q, v
  <1>4. Exact(o, c, d) BY <1>1, <1>2, <1>3 DEF Exact, Became
  <1> QED BY <1>4 DEF d, v, p

---------------------------------------------------------------------------
(* An edit of a text is a text.                                            *)

AreLines(ls) == IsList(ls) /\ \A i \in DOMAIN ls : IsLine(ls[i])

\* A text has lines, and lines make a text.
LEMMA TextLines ==
  /\ \A t : IsText(t) => AreLines(t.lines) /\ t.eol \in BOOLEAN /\ DOMAIN t = {"lines", "eol"}
  /\ \A ls : \A e \in BOOLEAN : AreLines(ls) => IsText([lines |-> ls, eol |-> e])
  <1>1. ASSUME NEW t, IsText(t)
        PROVE  AreLines(t.lines) /\ t.eol \in BOOLEAN /\ DOMAIN t = {"lines", "eol"}
    <2>1. DOMAIN [lines |-> t.lines, eol |-> t.eol] = {"lines", "eol"} OBVIOUS
    <2>2. t = [lines |-> t.lines, eol |-> t.eol] BY <1>1 DEF IsText
    <2>3. DOMAIN t = {"lines", "eol"} BY <2>1, <2>2
    <2> QED BY <1>1, <2>3 DEF IsText, AreLines, IsList, Range
  <1>2. ASSUME NEW ls, NEW e \in BOOLEAN, AreLines(ls) PROVE IsText([lines |-> ls, eol |-> e])
    BY <1>2 DEF IsText, AreLines, IsList, Range
  <1> QED BY <1>1, <1>2

\* Lines put together.
LEMMA LinesConcat ==
  ASSUME NEW s, NEW t, AreLines(s), AreLines(t)
  PROVE  AreLines(s \o t)
  <1> DEFINE u == s \o t
             S == Range(s) \cup Range(t)
  <1>1. s \in Seq(S) /\ t \in Seq(S) BY SMTT(30) DEF AreLines, IsList
  <1>2. \A x \in S : IsLine(x) BY DEF AreLines, Range
  <1>3. u \in Seq(S) BY <1>1, SMTT(30)
  <1> HIDE DEF u, S
  <1>4. /\ Len(u) \in Nat /\ DOMAIN u = 1 .. Len(u) /\ u = [i \in 1 .. Len(u) |-> u[i]]
        /\ \A i \in DOMAIN u : u[i] \in S
    BY <1>3, SMTT(30)
  <1>5. AreLines(u) BY <1>2, <1>4, ListForm DEF AreLines
  <1> QED BY <1>5 DEF u

\* Lines taken from others.
LEMMA LinesPart ==
  ASSUME NEW s, AreLines(s), NEW m \in 1 .. Len(s) + 1, NEW n \in 0 .. Len(s)
  PROVE  AreLines(SubSeq(s, m, n))
  <1> DEFINE u == SubSeq(s, m, n)
  <1>1. s \in Seq(Range(s)) BY DEF AreLines, IsList
  <1>2. \A x \in Range(s) : IsLine(x) BY DEF AreLines, Range
  <1>3. u \in Seq(Range(s)) BY <1>1, SMTT(30)
  <1> HIDE DEF u
  <1>4. /\ Len(u) \in Nat /\ DOMAIN u = 1 .. Len(u) /\ u = [i \in 1 .. Len(u) |-> u[i]]
        /\ \A i \in DOMAIN u : u[i] \in Range(s)
    BY <1>3, SMTT(30)
  <1>5. AreLines(u) BY <1>2, <1>4, ListForm DEF AreLines
  <1> QED BY <1>5 DEF u

\* New lines.
LEMMA LinesNew ==
  /\ AreLines(<<>>)
  /\ \A k, v : IsLine(Line(k, v))
  /\ \A a : IsLine(a) => AreLines(<<a>>)
  /\ \A a, b : IsLine(a) /\ IsLine(b) => AreLines(<<a, b>>)
  /\ \A a, b, c, d : IsLine(a) /\ IsLine(b) /\ IsLine(c) /\ IsLine(d) => AreLines(<<a, b, c, d>>)
  <1>1. AreLines(<<>>) BY SMTT(30) DEF AreLines, IsList
  <1>2. \A k, v : IsLine(Line(k, v)) BY DEF IsLine, Line
  <1>3. ASSUME NEW a, IsLine(a) PROVE AreLines(<<a>>) BY <1>3, SMTT(30) DEF AreLines, IsList, Range
  <1>4. ASSUME NEW a, NEW b, IsLine(a), IsLine(b) PROVE AreLines(<<a, b>>)
    BY <1>4, SMTT(30) DEF AreLines, IsList, Range
  <1>5. ASSUME NEW a, NEW b, NEW c, NEW d, IsLine(a), IsLine(b), IsLine(c), IsLine(d)
        PROVE  AreLines(<<a, b, c, d>>)
    BY <1>5, SMTT(30) DEF AreLines, IsList, Range
  <1> QED BY <1>1, <1>2, <1>3, <1>4, <1>5

\* Lines inserted.
LEMMA SpliceText ==
  ASSUME NEW t, IsText(t), NEW at \in 0 .. Len(t.lines), NEW new, AreLines(new)
  PROVE  IsText(SpliceIn(t, at, new))
  <1>1. AreLines(t.lines) /\ t.eol \in BOOLEAN BY TextLines
  <1>2. Len(t.lines) \in Nat BY <1>1, ListPlaces DEF AreLines
  <1>3. 1 \in 1 .. Len(t.lines) + 1 /\ at + 1 \in 1 .. Len(t.lines) + 1 /\ Len(t.lines) \in 0 .. Len(t.lines)
    BY <1>2, SMTT(30)
  <1>4. AreLines(SubSeq(t.lines, 1, at)) /\ AreLines(SubSeq(t.lines, at + 1, Len(t.lines)))
    BY <1>1, <1>3, LinesPart
  <1>5. AreLines(SubSeq(t.lines, 1, at) \o new \o SubSeq(t.lines, at + 1, Len(t.lines)))
    BY <1>4, LinesConcat
  <1>6. (t.eol \/ at = Len(t.lines)) \in BOOLEAN OBVIOUS
  <1> QED BY <1>5, <1>6, TextLines DEF SpliceIn

\* Lines cut out.
LEMMA CutText ==
  ASSUME NEW t, IsText(t), NEW gone
  PROVE  IsText(Cut(t, gone))
  <1> DEFINE S == DOMAIN t.lines \ gone
             ls == Pick(t.lines, S)
  <1>1. AreLines(t.lines) /\ t.eol \in BOOLEAN BY TextLines
  <1>2. IsList(ls) /\ Range(ls) = {t.lines[i] : i \in S}
    <2>1. S \in SUBSET DOMAIN t.lines OBVIOUS
    <2> HIDE DEF S
    <2> QED BY <1>1, <2>1, Picked DEF AreLines
  <1> HIDE DEF ls
  <1>3. AreLines(ls) BY <1>1, <1>2 DEF AreLines, Range
  <1>4. (t.eol \/ Len(t.lines) \in gone) \in BOOLEAN OBVIOUS
  <1> QED BY <1>3, <1>4, TextLines DEF Cut, ls

\* A value replaced.
LEMMA PatchText ==
  ASSUME NEW t, IsText(t), NEW at, NEW v
  PROVE  IsText(Patch(t, at, v))
  <1> DEFINE x == [t.lines[at] EXCEPT !.value = v]
             ls == [t.lines EXCEPT ![at] = x]
  <1>1. AreLines(t.lines) /\ t.eol \in BOOLEAN /\ DOMAIN t = {"lines", "eol"} BY TextLines
  <1>2. t = [lines |-> t.lines, eol |-> t.eol] BY DEF IsText
  <1>3. Patch(t, at, v) = [lines |-> ls, eol |-> t.eol]
    <2>1. Patch(t, at, v) = [[lines |-> t.lines, eol |-> t.eol] EXCEPT !.lines = ls] BY <1>2 DEF Patch
    <2> QED BY <2>1
  <1>4. AreLines(ls)
    <2>1. IsList(ls) /\ DOMAIN ls = DOMAIN t.lines BY <1>1, ListExcept DEF AreLines
    <2>2. at \in DOMAIN t.lines => IsLine(x) BY <1>1, SMTT(30) DEF AreLines, IsLine
    <2>3. \A i \in DOMAIN t.lines : (ls[i] = x /\ i = at) \/ ls[i] = t.lines[i] OBVIOUS
    <2> HIDE DEF ls, x
    <2> QED BY <1>1, <2>1, <2>2, <2>3 DEF AreLines
  <1> HIDE DEF ls
  <1> QED BY <1>1, <1>3, <1>4, TextLines

\* The patterns find finitely many lines, all of them lines of the text.
LEMMA HeadersFound ==
  ASSUME NEW ls, AreLines(ls), NEW k
  PROVE  LET S == Matches(ls, k, 1, Len(ls)) IN
         /\ Len(ls) \in Nat
         /\ Len(Ascending(S)) = Cardinality(S) /\ Cardinality(S) \in Nat
         /\ \A n \in 1 .. Cardinality(S) : Ascending(S)[n] \in 1 .. Len(ls)
  <1> DEFINE S == Matches(ls, k, 1, Len(ls))
             h == Ascending(S)
  <1>1. Len(ls) \in Nat BY ListPlaces DEF AreLines
  <1>2. S \in SUBSET (1 .. Len(ls)) BY DEF Matches
  <1>3. IsFiniteSet(S) BY <1>1, <1>2, IntervalSize, FS_Subset
  <1> HIDE DEF S
  <1>4. S \in SUBSET Nat BY <1>1, <1>2, SMTT(30)
  <1>5. Cardinality(S) \in Nat /\ \A n \in 1 .. Cardinality(S) : h[n] \in S BY <1>3, <1>4, Enumerates
  <1>6. h = [n \in 1 .. Cardinality(S) |-> h[n]]
    <2> DEFINE Nth(n) == CHOOSE i \in S : Cardinality({j \in S : j < i}) = n - 1
    <2>1. h = [n \in 1 .. Cardinality(S) |-> Nth(n)] BY DEF Ascending
    <2> HIDE DEF Nth, h
    <2> QED BY <2>1
  <1> HIDE DEF h
  <1>7. Len(h) = Cardinality(S) BY <1>5, <1>6, ListForm
  <1> QED BY <1>1, <1>2, <1>5, <1>7 DEF S, h

\* A block ends within the text (projectBlockBounds).
LEMMA BlockEnds ==
  ASSUME NEW ls, AreLines(ls), NEW i \in Nat
  PROVE  BlockEnd(ls, i) \in 0 .. Len(ls)
  <1> DEFINE h == Headers(ls)
  <1>1. Len(ls) \in Nat /\ Len(h) \in Nat /\ \A n \in 1 .. Len(h) : h[n] \in 1 .. Len(ls)
    BY HeadersFound DEF Headers
  <1> HIDE DEF h
  <1>2. CASE i < Len(h)
    <2>1. i + 1 \in 1 .. Len(h) BY <1>1, <1>2, SMTT(30)
    <2>2. h[i + 1] \in 1 .. Len(ls) BY <1>1, <2>1
    <2>3. h[i + 1] - 1 \in 0 .. Len(ls) BY <1>1, <2>2, SMTT(30)
    <2> QED BY <1>2, <2>3 DEF BlockEnd, h
  <1>3. CASE ~(i < Len(h))
    <2>1. Len(ls) \in 0 .. Len(ls) BY <1>1, SMTT(30)
    <2> QED BY <1>3, <2>1 DEF BlockEnd, h
  <1> QED BY <1>2, <1>3

\* What the edits make of a text is a text.
LEMMA EditsAreTexts ==
  ASSUME NEW t, IsText(t), NEW c, IsConfig(c)
  PROVE  /\ \A x : \A u \in appendProject(t, x) : IsText(u)
         /\ \A i \in DOMAIN c.projects : \A v :
               /\ \A u \in replaceProjectField(t, c, i, v) : IsText(u)
               /\ \A u \in replaceApproval(t, c, i, v) : IsText(u)
               /\ \A u \in insertAllowEntry(t, c, i, v) : IsText(u)
               /\ \A u \in removeAllowEntries(t, c, i, v) : IsText(u)
               /\ \A u \in removeProjectSpan(t, c, i) : IsText(u)
  <1> DEFINE ls == t.lines
  <1>1. AreLines(ls) /\ t.eol \in BOOLEAN /\ Len(ls) \in Nat BY TextLines, ListPlaces DEF AreLines
  <1>2. DOMAIN c.projects = 1 .. Len(c.projects) /\ Len(c.projects) \in Nat BY ListPlaces DEF IsConfig
  <1>3. ASSUME NEW x, NEW u \in appendProject(t, x) PROVE IsText(u)
    <2> DEFINE sep == IF Last(ls) = Blank /\ t.eol THEN <<>> ELSE <<Blank>>
               new == <<Line("project", ""), Line("alias", x.alias),
                        Line("meta", x.meta), Line("approval", x.approval)>>
    <2>1. u = [lines |-> ls \o sep \o new, eol |-> TRUE] BY DEF appendProject
    <2>2. AreLines(sep) BY LinesNew DEF Blank
    <2>3. AreLines(new) BY LinesNew
    <2> HIDE DEF sep, new
    <2>4. AreLines(ls \o sep \o new) BY <1>1, <2>2, <2>3, LinesConcat
    <2> QED BY <2>1, <2>4, TextLines
  <1>4. ASSUME NEW i \in DOMAIN c.projects, NEW v
        PROVE  /\ \A u \in replaceProjectField(t, c, i, v) : IsText(u)
               /\ \A u \in replaceApproval(t, c, i, v) : IsText(u)
               /\ \A u \in insertAllowEntry(t, c, i, v) : IsText(u)
               /\ \A u \in removeAllowEntries(t, c, i, v) : IsText(u)
               /\ \A u \in removeProjectSpan(t, c, i) : IsText(u)
    <2>0. i \in Nat /\ BlockEnd(ls, i) \in 0 .. Len(ls)
      <3>1. i \in Nat BY <1>2, SMTT(30)
      <3> QED BY <1>1, <3>1, BlockEnds
    <2>1. ASSUME NEW u \in replaceProjectField(t, c, i, v) PROVE IsText(u)
      BY <2>1, PatchText DEF replaceProjectField
    <2>2. ASSUME NEW u \in replaceApproval(t, c, i, v) PROVE IsText(u)
      <3> DEFINE h == Headers(ls)
                 start == h[i] + 1
                 end == BlockEnd(ls, i)
                 found == Single(ls, "approval", start, end)
                 allows == Matches(ls, "allow", start, end)
                 at == IF allows = {} THEN end ELSE Min(allows) - 1
      <3>1. /\ EditableProjects(ls, c)
            /\ \/ \E j \in found : u = Patch(t, j, v)
               \/ u = SpliceIn(t, at, <<Line("approval", v)>>)
        BY <2>2 DEF replaceApproval
      <3>2. ASSUME NEW j, u = Patch(t, j, v) PROVE IsText(u) BY <3>2, PatchText
      <3>3. ASSUME u = SpliceIn(t, at, <<Line("approval", v)>>) PROVE IsText(u)
        <4>1. AreLines(<<Line("approval", v)>>) BY LinesNew
        <4>2. start \in Nat \ {0}
          <5>1. Len(h) = Len(c.projects) BY <3>1 DEF EditableProjects
          <5>2. h[i] \in 1 .. Len(ls) BY <1>1, <1>2, <5>1, HeadersFound DEF Headers
          <5> HIDE DEF h
          <5> QED BY <1>1, <5>2, SMTT(30)
        <4>3. at \in 0 .. Len(ls)
          <5>1. CASE allows = {} BY <2>0, <5>1
          <5>2. CASE allows # {}
            <6>1. allows \subseteq start .. end BY DEF Matches
            <6> HIDE DEF allows, start, end
            <6>2. allows \subseteq Nat BY <1>1, <2>0, <4>2, <6>1, SMTT(30) DEF end
            <6>3. \E x \in allows : \A y \in allows : x <= y BY <5>2, <6>2, LeastNatural
            <6>4. Min(allows) \in allows BY <6>3 DEF Min
            <6>5. Min(allows) - 1 \in 0 .. Len(ls)
              <7>1. Min(allows) \in start .. end BY <6>1, <6>4
              <7>2. end \in 0 .. Len(ls) BY <2>0 DEF end
              <7> HIDE DEF ls
              <7> QED BY <1>1, <4>2, <7>1, <7>2, SMTT(30)
            <6> QED BY <5>2, <6>5
          <5> QED BY <5>1, <5>2
        <4> HIDE DEF at
        <4> QED BY <3>3, <4>1, <4>3, SpliceText
      <3> HIDE DEF at
      <3> QED BY <3>1, <3>2, <3>3
    <2>3. ASSUME NEW u \in insertAllowEntry(t, c, i, v) PROVE IsText(u)
      <3>1. u = SpliceIn(t, BlockEnd(ls, i), <<Line("allow", ""), Line("argv", v)>>)
        BY <2>3 DEF insertAllowEntry
      <3>2. AreLines(<<Line("allow", ""), Line("argv", v)>>) BY LinesNew
      <3> QED BY <2>0, <3>1, <3>2, SpliceText
    <2>4. ASSUME NEW u \in removeAllowEntries(t, c, i, v) PROVE IsText(u)
      BY <2>4, CutText DEF removeAllowEntries
    <2>5. ASSUME NEW u \in removeProjectSpan(t, c, i) PROVE IsText(u)
      BY <2>5, CutText DEF removeProjectSpan
    <2> QED BY <2>1, <2>2, <2>3, <2>4, <2>5
  <1> QED BY <1>3, <1>4

---------------------------------------------------------------------------
(* Lines outside the selected block and comments stay as they are.         *)

\* The lines of ls that are not in block i.
Beside(ls, i) ==
    LET h == Ascending(Headings(ls)) IN
    {x \in DOMAIN ls : x < h[i] \/ (i < Cardinality(Headings(ls)) /\ h[i + 1] <= x)}
\* Line x is in block i and does not begin it.
Inside(ls, i, x) ==
    LET h == Ascending(Headings(ls)) IN
    h[i] < x /\ (i < Cardinality(Headings(ls)) => x < h[i + 1])

\* Lines of a kind, and those that begin a project, are lines of the text.
LEMMA Places ==
  ASSUME NEW ls, IsList(ls), NEW S \in SUBSET DOMAIN ls
  PROVE  /\ S \in SUBSET Nat /\ IsFiniteSet(S) /\ Cardinality(S) \in Nat
         /\ Len(Ascending(S)) = Cardinality(S)
         /\ \A k \in 1 .. Cardinality(S) : Ascending(S)[k] \in S
  <1> DEFINE n == Cardinality(S)
             h == Ascending(S)
  <1>1. Len(ls) \in Nat /\ DOMAIN ls = 1 .. Len(ls) BY ListPlaces
  <1>2. IsFiniteSet(S) BY <1>1, IntervalSize, FS_Subset
  <1>3. S \in SUBSET Nat BY <1>1, SMTT(30)
  <1>4. n \in Nat /\ \A k \in 1 .. n : h[k] \in S BY <1>2, <1>3, Enumerates
  <1>5. h = [k \in 1 .. n |-> h[k]]
    <2> DEFINE Nth(k) == CHOOSE i \in S : Cardinality({j \in S : j < i}) = k - 1
    <2>1. h = [k \in 1 .. n |-> Nth(k)] BY DEF Ascending
    <2> HIDE DEF Nth, h
    <2> QED BY <2>1
  <1> HIDE DEF h
  <1>6. Len(h) = n BY <1>4, <1>5, ListForm
  <1> QED BY <1>2, <1>3, <1>4, <1>6 DEF h

\* A policy that parses has one project for every line that begins one.
LEMMA HeadingsCounted ==
  ASSUME NEW t, IsText(t), Validates(t)
  PROVE  /\ Headings(t.lines) \in SUBSET DOMAIN t.lines
         /\ Cardinality(Headings(t.lines)) = Len(Config(t).projects)
  <1> DEFINE ls == t.lines
             p == Decode(ls)
  <1>1. IsList(ls) /\ Len(ls) \in Nat /\ DOMAIN ls = 1 .. Len(ls) BY ListPlaces DEF IsText, IsList
  <1>2. Headings(ls) = Begun(ls, Len(ls)) BY <1>1 DEF Headings, Begun, IsHeading
  <1>3. p.ok BY DEF Validates
  <1>4. IsState(p) /\ Len(p.projects) = Cardinality(Begun(ls, Len(ls))) BY <1>1, <1>3, DecodeState
  <1>5. Len(p.projects) \in Nat /\ DOMAIN p.projects = 1 .. Len(p.projects)
    BY <1>4, ListPlaces DEF IsState, AreProjects
  <1>6. DOMAIN Config(t).projects = DOMAIN p.projects BY DEF Config
  <1>7. Len(Config(t).projects) = Len(p.projects)
    <2>1. IsList(Config(t).projects) BY Configured DEF IsConfig
    <2>2. Len(Config(t).projects) \in Nat /\ 1 .. Len(Config(t).projects) = 1 .. Len(p.projects)
      BY <1>5, <1>6, <2>1, ListPlaces
    <2> HIDE DEF p
    <2>3. ASSUME NEW m \in Nat, NEW n \in Nat, 1 .. m = 1 .. n PROVE m = n
      BY <2>3, IntervalSize
    <2> QED BY <1>5, <2>2, <2>3
  <1>8. Headings(ls) \in SUBSET DOMAIN ls BY DEF Headings
  <1> QED BY <1>2, <1>4, <1>7, <1>8

\* A line that begins a project and that projectHeaderPattern misses, and one that
\* it matches and that begins none.
Missed(line) == IsHeading(line) /\ ~(line.kind = "project" /\ line.usual)
Feigned(line) == line.kind = "project" /\ line.usual /\ line.value = Rest

\* A text has lines of the one sort or of the other, not of both, which would make
\* their number right and the blocks wrong.
Unambiguous(ls) ==
    (\A i \in DOMAIN ls : ~Missed(ls[i])) \/ (\A i \in DOMAIN ls : ~Feigned(ls[i]))
Unmixed == \A t \in Texts : Unambiguous(t.lines)

\* In a text the editor accepts, the lines that look like headers are those that
\* begin a project (projectBlockBounds compares their number).
LEMMA HeadersBegin ==
  ASSUME NEW t, IsText(t), Validates(t), EditableProjects(t.lines, Config(t)), Unambiguous(t.lines)
  PROVE  Headers(t.lines) = Ascending(Headings(t.lines))
  <1> DEFINE ls == t.lines
             M == Matches(ls, "project", 1, Len(ls))
             H == Headings(ls)
  <1>1. IsList(ls) /\ DOMAIN ls = 1 .. Len(ls) BY ListPlaces DEF IsText, IsList
  <1>2. M \in SUBSET DOMAIN ls /\ H \in SUBSET DOMAIN ls /\ (H \in SUBSET M \/ M \in SUBSET H)
    BY <1>1 DEF Matches, Headings, Unambiguous, Missed, Feigned, IsHeading
  <1>3. Cardinality(H) = Len(Config(t).projects) BY HeadingsCounted
  <1>4. Headers(ls) = Ascending(M) BY DEF Headers
  <1>5. Len(Ascending(M)) = Len(Config(t).projects) BY <1>4 DEF EditableProjects
  <1> HIDE DEF M, H
  <1>6. IsFiniteSet(M) /\ IsFiniteSet(H) /\ Len(Ascending(M)) = Cardinality(M) BY <1>1, <1>2, Places
  <1>7. H = M BY <1>2, <1>3, <1>5, <1>6, FS_Subset
  <1> QED BY <1>4, <1>7 DEF H

\* What Outside keeps.
LEMMA OutsideIs ==
  ASSUME NEW t, IsText(t), Validates(t), NEW a \in Aliases(Config(t))
  PROVE  Outside(t, a) = Pick(t.lines, Beside(t.lines, Index(Config(t), a)))
  <1> DEFINE ls == t.lines
             H == Headings(ls)
             h == Ascending(H)
             n == Cardinality(H)
             i == Index(Config(t), a)
             end == IF i < n THEN h[i + 1] - 1 ELSE Len(ls)
  <1>1. IsList(ls) /\ Len(ls) \in Nat /\ DOMAIN ls = 1 .. Len(ls) BY ListPlaces DEF IsText, IsList
  <1>2. H \in SUBSET DOMAIN ls /\ n = Len(Config(t).projects) BY HeadingsCounted
  <1>3. i \in 1 .. n
    <2>1. IsConfig(Config(t)) BY Configured
    <2>2. i \in DOMAIN Config(t).projects BY <2>1, Found
    <2>3. DOMAIN Config(t).projects = 1 .. Len(Config(t).projects) BY <2>1, ListPlaces DEF IsConfig
    <2> QED BY <1>2, <2>2, <2>3
  <1>4. Outside(t, a) = Pick(ls, DOMAIN ls \ (h[i] .. (IF i < Len(h) THEN h[i + 1] - 1 ELSE Len(ls))))
    BY DEF Outside, Cut
  <1>5. Beside(ls, i) = {x \in DOMAIN ls : x < h[i] \/ (i < n /\ h[i + 1] <= x)} BY DEF Beside
  <1> HIDE DEF H, i, ls
  <1>6. Len(h) = n /\ n \in Nat /\ \A k \in 1 .. n : h[k] \in DOMAIN ls BY <1>1, <1>2, Places
  <1> HIDE DEF h, n
  <1>7. Beside(ls, i) = DOMAIN ls \ (h[i] .. end)
    <2>1. h[i] \in 1 .. Len(ls) BY <1>1, <1>3, <1>6
    <2>2. CASE i < n
      <3>1. i + 1 \in 1 .. n BY <1>3, <1>6, <2>2, SMTT(30)
      <3>2. h[i + 1] \in 1 .. Len(ls) BY <1>1, <1>6, <3>1
      <3>3. \A x \in 1 .. Len(ls) : x \notin h[i] .. (h[i + 1] - 1) <=> x < h[i] \/ h[i + 1] <= x
        BY <1>1, <2>1, <3>2, SMTT(30)
      <3> QED BY <1>1, <1>5, <2>2, <3>3
    <2>3. CASE ~(i < n)
      <3>1. \A x \in 1 .. Len(ls) : x \notin h[i] .. Len(ls) <=> x < h[i] BY <1>1, <2>1, SMTT(30)
      <3> QED BY <1>1, <1>5, <2>3, <3>1
    <2> QED BY <2>2, <2>3
  <1> QED BY <1>4, <1>6, <1>7 DEF ls, i

\* A line that neither begins a project nor looks as if it did.
Plain(line) == line.kind \notin {"project", "element"}
\* Without a comment, too.
Bare(line) == Plain(line) /\ line.note = ""

\* From s to t no block but the i-th has changed, and no line that begins a project
\* or looks as if it did is new.
Kept(s, t, i) ==
    /\ Cardinality(Headings(t)) = Cardinality(Headings(s))
    /\ Pick(t, Beside(t, i)) = Pick(s, Beside(s, i))
    /\ \A x \in DOMAIN t : Plain(t[x]) \/ \E k \in DOMAIN s : t[x] = s[k]

\* Every line of s in K is found in t where e says, in the same order, and what is
\* lost or new is plain and in block i.
Moved(s, t, K, e, i) ==
    LET h == Ascending(Headings(s)) IN
    /\ \A k \in K : e[k] \in DOMAIN t /\ t[e[k]] = s[k]
    /\ \A k, m \in K : k < m => e[k] < e[m]
    /\ \A k \in DOMAIN s \ K : Plain(s[k]) /\ Inside(s, i, k)
    /\ \A x \in DOMAIN t :
          \/ \E k \in K : x = e[k]
          \/ /\ Plain(t[x]) /\ e[h[i]] < x
             /\ i < Cardinality(Headings(s)) => x < e[h[i + 1]]

\* Such a change is within block i.
LEMMA BlockKept ==
  ASSUME NEW s, IsList(s), NEW t, IsList(t), NEW K \in SUBSET DOMAIN s, NEW e,
         NEW i \in 1 .. Cardinality(Headings(s)), Moved(s, t, K, e, i)
  PROVE  Kept(s, t, i)
  <1> DEFINE H == Headings(s)
             h == Ascending(H)
             n == Cardinality(H)
             G == Headings(t)
             Image(C) == {e[k] : k \in C}
  <1>1. /\ \A k \in K : e[k] \in DOMAIN t /\ t[e[k]] = s[k]
        /\ \A k, m \in K : k < m => e[k] < e[m]
        /\ \A k \in DOMAIN s \ K :
              Plain(s[k]) /\ h[i] < k /\ (i < n => k < h[i + 1])
        /\ \A x \in DOMAIN t :
              \/ \E k \in K : x = e[k]
              \/ Plain(t[x]) /\ e[h[i]] < x /\ (i < n => x < e[h[i + 1]])
    BY DEF Moved, Inside
  <1>2. /\ Len(s) \in Nat /\ DOMAIN s = 1 .. Len(s) /\ Len(t) \in Nat /\ DOMAIN t = 1 .. Len(t)
        /\ \A k \in DOMAIN s : k \in Nat
        /\ \A x \in DOMAIN t : x \in Nat
    <2>1. Len(s) \in Nat /\ DOMAIN s = 1 .. Len(s) /\ Len(t) \in Nat /\ DOMAIN t = 1 .. Len(t)
      BY ListPlaces
    <2>2. (\A k \in 1 .. Len(s) : k \in Nat) /\ \A x \in 1 .. Len(t) : x \in Nat BY <2>1, SMTT(30)
    <2> QED BY <2>1, <2>2
  <1>3. ASSUME NEW C \in SUBSET K
        PROVE  /\ IsFiniteSet(C) /\ C \in SUBSET Nat /\ Pick(t, Image(C)) = Pick(s, C)
               /\ Cardinality(Image(C)) = Cardinality(C)
               /\ \A k \in 1 .. Cardinality(C) : Ascending(Image(C))[k] = e[Ascending(C)[k]]
    <2>1. IsFiniteSet(C) /\ C \in SUBSET Nat
      <3>1. C \in SUBSET DOMAIN s OBVIOUS
      <3> QED BY <3>1, Places
    <2>2. \A k \in C : e[k] \in Nat BY <1>1, <1>2
    <2>3. \A k, m \in C : k < m => e[k] < e[m] BY <1>1
    <2>4. \A k \in C : t[e[k]] = s[k] BY <1>1
    <2> HIDE DEF H
    <2>5. Pick(t, Image(C)) = Pick(s, C)
      <3>1. \A u, v : (\A k \in C : v[e[k]] = u[k]) => Pick(v, {e[k] : k \in C}) = Pick(u, C)
        BY <2>1, <2>2, <2>3, PickCarried
      <3> QED BY <2>4, <3>1
    <2>6. /\ Cardinality(Image(C)) = Cardinality(C)
          /\ \A k \in 1 .. Cardinality(C) : Ascending(Image(C))[k] = e[Ascending(C)[k]]
      <3> DEFINE D == {e[k] : k \in C}
      <3>1. InOrder(C, e, D) BY <2>1, <2>2, <2>3, Carried
      <3> HIDE DEF D
      <3>2. Cardinality(D) = Cardinality(C) /\ \A k \in 1 .. Cardinality(C) : Ascending(D)[k] = e[Ascending(C)[k]]
        BY <3>1 DEF InOrder
      <3> QED BY <3>2 DEF D
    <2> QED BY <2>1, <2>5, <2>6
  <1>4. H \in SUBSET K /\ G = Image(H)
    <2>1. ASSUME NEW k \in H PROVE k \in K BY <1>1 DEF Headings, Plain
    <2>2. ASSUME NEW x \in G PROVE x \in Image(H)
      <3>1. x \in DOMAIN t /\ ~Plain(t[x]) BY DEF Headings, Plain
      <3>2. PICK k \in K : x = e[k] BY <1>1, <3>1
      <3>3. t[x] = s[k] /\ k \in DOMAIN s BY <1>1, <3>2
      <3>4. k \in H BY <3>3 DEF Headings
      <3> QED BY <3>2, <3>4
    <2>3. ASSUME NEW k \in H PROVE e[k] \in G
      <3>1. k \in K BY <2>1
      <3>2. e[k] \in DOMAIN t /\ t[e[k]] = s[k] BY <1>1, <3>1
      <3> QED BY <3>2 DEF Headings
    <2> HIDE DEF H, G
    <2> QED BY <2>1, <2>2, <2>3
  <1>5. \A x \in DOMAIN t : Plain(t[x]) \/ \E k \in DOMAIN s : t[x] = s[k] BY <1>1
  <1> HIDE DEF H, G
  <1>6. Cardinality(G) = n /\ \A k \in 1 .. n : Ascending(G)[k] = e[h[k]] BY <1>3, <1>4
  <1>7. n \in Nat /\ \A k \in 1 .. n : h[k] \in K
    <2>1. n \in Nat /\ \A k \in 1 .. n : h[k] \in H BY <1>3, <1>4, Enumerates
    <2> QED BY <1>4, <2>1
  <1>8. \A k, m \in K : /\ k \in Nat /\ m \in Nat
                        /\ e[k] < e[m] <=> k < m
                        /\ e[k] <= e[m] <=> k <= m
    <2> SUFFICES ASSUME NEW k \in K, NEW m \in K
                 PROVE  /\ k \in Nat /\ m \in Nat /\ (e[k] < e[m] <=> k < m)
                        /\ e[k] <= e[m] <=> k <= m
      OBVIOUS
    <2>1. k \in Nat /\ m \in Nat /\ e[k] \in Nat /\ e[m] \in Nat BY <1>1, <1>2
    <2>2. (k < m => e[k] < e[m]) /\ (m < k => e[m] < e[k]) /\ (k = m => e[k] = e[m]) BY <1>1
    <2> QED BY <2>1, <2>2, SMTT(30)
  <1> DEFINE B == Beside(s, i)
             D == Beside(t, i)
  <1>9. /\ \A k : k \in B <=> k \in DOMAIN s /\ (k < h[i] \/ (i < n /\ h[i + 1] <= k))
        /\ \A x : x \in D <=> x \in DOMAIN t /\ (x < e[h[i]] \/ (i < n /\ e[h[i + 1]] <= x))
    <2>1. i < n => i + 1 \in 1 .. n BY <1>7, SMTT(30) DEF n, H
    <2>2. i \in 1 .. n BY DEF n, H
    <2>3. Ascending(G)[i] = e[h[i]] /\ (i < n => Ascending(G)[i + 1] = e[h[i + 1]])
      BY <1>6, <2>1, <2>2
    <2>4. \A k : k \in B <=> k \in DOMAIN s /\ (k < h[i] \/ (i < n /\ h[i + 1] <= k))
      BY DEF Beside, H
    <2>5. \A x : x \in D <=> x \in DOMAIN t /\ (x < Ascending(G)[i] \/ (i < Cardinality(G) /\ Ascending(G)[i + 1] <= x))
      BY DEF Beside, G
    <2> HIDE DEF h, n, B, D
    <2> QED BY <1>6, <2>3, <2>4, <2>5
  <1>10. h[i] \in K /\ (i < n => h[i + 1] \in K)
    <2>1. i < n => i + 1 \in 1 .. n BY <1>7, SMTT(30) DEF n, H
    <2>2. i \in 1 .. n BY DEF n, H
    <2> QED BY <1>7, <2>1, <2>2
  <1> HIDE DEF h, n, B, D
  <1>11. B \in SUBSET K
    <2> SUFFICES ASSUME NEW k \in B, k \notin K PROVE FALSE OBVIOUS
    <2>1. k \in DOMAIN s /\ (k < h[i] \/ (i < n /\ h[i + 1] <= k)) BY <1>9
    <2>2. h[i] < k /\ (i < n => k < h[i + 1]) BY <1>1, <2>1
    <2>3. k \in Nat /\ h[i] \in Nat /\ (i < n => h[i + 1] \in Nat) BY <1>2, <1>10, <2>1
    <2> QED BY <2>1, <2>2, <2>3, SMTT(30)
  <1>12. D = Image(B)
    <2>1. ASSUME NEW x \in D PROVE x \in Image(B)
      <3>1. x \in DOMAIN t /\ (x < e[h[i]] \/ (i < n /\ e[h[i + 1]] <= x)) BY <1>9
      <3>2. CASE \E k \in K : x = e[k]
        <4>1. PICK k \in K : x = e[k] BY <3>2
        <4>2. k < h[i] \/ (i < n /\ h[i + 1] <= k) BY <1>8, <1>10, <3>1, <4>1
        <4>3. k \in B BY <1>9, <4>2
        <4> QED BY <4>1, <4>3
      <3>3. CASE e[h[i]] < x /\ (i < n => x < e[h[i + 1]])
        <4>1. x \in Nat /\ e[h[i]] \in Nat /\ (i < n => e[h[i + 1]] \in Nat) BY <1>1, <1>2, <1>10, <3>1
        <4>2. FALSE BY <3>1, <3>3, <4>1, SMTT(30)
        <4> QED BY <4>2
      <3> QED BY <1>1, <3>1, <3>2, <3>3
    <2>2. ASSUME NEW k \in B PROVE e[k] \in D
      <3>1. k \in K /\ (k < h[i] \/ (i < n /\ h[i + 1] <= k)) BY <1>9, <1>11
      <3>2. e[k] < e[h[i]] \/ (i < n /\ e[h[i + 1]] <= e[k]) BY <1>8, <1>10, <3>1
      <3> QED BY <1>1, <1>9, <3>1, <3>2
    <2> QED BY <2>1, <2>2
  <1>13. Pick(t, D) = Pick(s, B) BY <1>3, <1>11, <1>12
  <1> QED BY <1>5, <1>6, <1>13 DEF Kept, B, D, G, H, n

\* Comments stay when every line keeps its own and new lines have none.
LEMMA CommentsCarried ==
  ASSUME NEW t, IsList(t.lines), NEW u, IsList(u.lines), NEW e,
         \A k \in DOMAIN t.lines : e[k] \in DOMAIN u.lines /\ u.lines[e[k]].note = t.lines[k].note,
         \A k, m \in DOMAIN t.lines : k < m => e[k] < e[m],
         \A x \in DOMAIN u.lines : u.lines[x].note = "" \/ \E k \in DOMAIN t.lines : x = e[k]
  PROVE  Comments(u) = Comments(t)
  <1> DEFINE C == {i \in DOMAIN t.lines : t.lines[i].note # ""}
             D == {i \in DOMAIN u.lines : u.lines[i].note # ""}
  <1>1. C \in SUBSET DOMAIN t.lines /\ D \in SUBSET DOMAIN u.lines OBVIOUS
  <1>2. D = {e[k] : k \in C} OBVIOUS
  <1>3. \A k \in C : e[k] \in D BY <1>2
  <1>4. \A k \in C : Notes(u.lines)[e[k]] = Notes(t.lines)[k] BY <1>1 DEF Notes
  <1>5. \A k, m \in C : k < m => e[k] < e[m] OBVIOUS
  <1>6. Comments(t) = Pick(Notes(t.lines), C) /\ Comments(u) = Pick(Notes(u.lines), D) BY DEF Comments
  <1> HIDE DEF C, D
  <1>7. C \in SUBSET Nat /\ IsFiniteSet(C) /\ D \in SUBSET Nat BY <1>1, Places
  <1>8. \A v, w : (\A k \in C : w[e[k]] = v[k]) => Pick(w, {e[k] : k \in C}) = Pick(v, C)
    BY <1>3, <1>5, <1>7, PickCarried
  <1>9. Pick(Notes(u.lines), D) = Pick(Notes(t.lines), C) BY <1>2, <1>4, <1>8
  <1> QED BY <1>6, <1>9

\* A value replaced.
LEMMA PatchKept ==
  ASSUME NEW t, IsText(t), NEW i \in 1 .. Cardinality(Headings(t.lines)), NEW at \in DOMAIN t.lines,
         NEW v, Plain(t.lines[at]), Inside(t.lines, i, at)
  PROVE  Kept(t.lines, Patch(t, at, v).lines, i) /\ Comments(Patch(t, at, v)) = Comments(t)
  <1> DEFINE ls == t.lines
             us == [ls EXCEPT ![at] = [ls[at] EXCEPT !.value = v]]
             K == DOMAIN ls \ {at}
             e == [k \in DOMAIN ls |-> k]
             h == Ascending(Headings(ls))
             n == Cardinality(Headings(ls))
  <1>1. AreLines(ls) /\ DOMAIN t = {"lines", "eol"} BY TextLines
  <1>2. Patch(t, at, v).lines = us BY <1>1 DEF Patch
  <1>3. IsList(us) /\ DOMAIN us = DOMAIN ls BY <1>1, ListExcept DEF AreLines
  <1>4. us[at].kind = ls[at].kind /\ us[at].note = ls[at].note
    <2>1. DOMAIN ls[at] = {"kind", "value", "open", "usual", "note"}
      <3>1. IsLine(ls[at]) BY <1>1 DEF AreLines
      <3>2. ls[at] = [kind |-> ls[at].kind, value |-> ls[at].value, open |-> ls[at].open,
                      usual |-> ls[at].usual, note |-> ls[at].note]
        BY <3>1 DEF IsLine
      <3>3. DOMAIN [kind |-> ls[at].kind, value |-> ls[at].value, open |-> ls[at].open,
                    usual |-> ls[at].usual, note |-> ls[at].note]
              = {"kind", "value", "open", "usual", "note"}
        OBVIOUS
      <3> QED BY <3>2, <3>3
    <2> QED BY <2>1
  <1>5. \A k \in K : us[k] = ls[k] OBVIOUS
  <1>6. h[i] \in DOMAIN ls /\ (i < n => h[i + 1] \in DOMAIN ls)
    <2>1. Headings(ls) \in SUBSET DOMAIN ls BY DEF Headings
    <2>2. n \in Nat /\ \A k \in 1 .. n : h[k] \in Headings(ls) BY <1>1, <2>1, Places DEF AreLines
    <2> HIDE DEF h, ls
    <2>3. i < n => i + 1 \in 1 .. n BY <2>2, SMTT(30) DEF ls
    <2> QED BY <2>1, <2>2, <2>3 DEF ls
  <1> HIDE DEF us
  <1>7. Moved(ls, us, K, e, i)
    <2>1. \A k \in K : e[k] \in DOMAIN us /\ us[e[k]] = ls[k] BY <1>3, <1>5
    <2>2. \A k \in DOMAIN ls \ K : Plain(ls[k]) /\ Inside(ls, i, k) OBVIOUS
    <2>3. h[i] < at /\ (i < n => at < h[i + 1]) BY DEF Inside
    <2>4. Plain(us[at]) /\ e[h[i]] < at /\ (i < n => at < e[h[i + 1]]) BY <1>4, <1>6, <2>3 DEF Plain
    <2>5. \A x \in DOMAIN us : (\E k \in K : x = e[k]) \/ x = at BY <1>3
    <2>6. \A k, m \in K : k < m => e[k] < e[m] OBVIOUS
    <2> HIDE DEF e, K, h
    <2> QED BY <2>1, <2>2, <2>4, <2>5, <2>6 DEF Moved, h
  <1>8. K \in SUBSET DOMAIN ls OBVIOUS
  <1>9. Comments(Patch(t, at, v)) = Comments(t)
    <2>1. \A k \in DOMAIN ls : e[k] \in DOMAIN us /\ us[e[k]].note = ls[k].note BY <1>3, <1>4, <1>5
    <2>2. \A k, m \in DOMAIN ls : k < m => e[k] < e[m] OBVIOUS
    <2>3. \A x \in DOMAIN us : \E k \in DOMAIN ls : x = e[k] BY <1>3
    <2> HIDE DEF e
    <2> QED BY <1>1, <1>2, <1>3, <2>1, <2>2, <2>3, CommentsCarried DEF AreLines
  <1> HIDE DEF e, K
  <1>10. Kept(ls, us, i) BY <1>1, <1>3, <1>7, <1>8, BlockKept DEF AreLines
  <1> QED BY <1>2, <1>9, <1>10

\* Lines cut out.
LEMMA CutKept ==
  ASSUME NEW t, IsText(t), NEW i \in 1 .. Cardinality(Headings(t.lines)), NEW gone,
         \A k \in gone : Plain(t.lines[k]) /\ Inside(t.lines, i, k)
  PROVE  Kept(t.lines, Cut(t, gone).lines, i)
  <1> DEFINE ls == t.lines
             K == DOMAIN ls \ gone
             us == Pick(ls, K)
             n == Cardinality(K)
             e == [k \in K |-> CHOOSE x \in 1 .. n : Ascending(K)[x] = k]
  <1>1. IsList(ls) BY TextLines DEF AreLines
  <1>2. K \in SUBSET DOMAIN ls /\ \A k \in DOMAIN ls \ K : k \in gone OBVIOUS
  <1>3. Cut(t, gone).lines = us BY DEF Cut
  <1> SUFFICES Kept(ls, us, i) BY <1>3
  <1> HIDE DEF K
  <1>4. K \in SUBSET Nat /\ IsFiniteSet(K) BY <1>1, <1>2, Places
  <1>5. /\ n \in Nat
        /\ \A x \in 1 .. n : Ascending(K)[x] \in K
        /\ \A k \in K : \E x \in 1 .. n : Ascending(K)[x] = k
        /\ \A x, y \in 1 .. n : x < y => Ascending(K)[x] < Ascending(K)[y]
    BY <1>4, Enumerates
  <1>6. IsList(us) /\ DOMAIN us = 1 .. n /\ \A x \in 1 .. n : us[x] = ls[Ascending(K)[x]]
    <2>1. IsList(us) BY <1>1, <1>2, Picked
    <2> QED BY <2>1 DEF Pick
  <1>7. \A k \in K : e[k] \in 1 .. n /\ Ascending(K)[e[k]] = k BY <1>5
  <1> HIDE DEF e, us, n
  <1>8. \A x, y \in 1 .. n : x \in Nat /\ y \in Nat /\ (Ascending(K)[x] < Ascending(K)[y] => x < y)
    <2> SUFFICES ASSUME NEW x \in 1 .. n, NEW y \in 1 .. n
                 PROVE  x \in Nat /\ y \in Nat /\ (Ascending(K)[x] < Ascending(K)[y] => x < y)
      OBVIOUS
    <2>1. y < x => Ascending(K)[y] < Ascending(K)[x] BY <1>5
    <2>2. Ascending(K)[x] \in Nat /\ Ascending(K)[y] \in Nat BY <1>4, <1>5
    <2>3. x = y => Ascending(K)[x] = Ascending(K)[y] OBVIOUS
    <2> QED BY <1>5, <2>1, <2>2, <2>3, SMTT(30)
  <1>9. Moved(ls, us, K, e, i)
    <2>1. \A k \in K : e[k] \in DOMAIN us /\ us[e[k]] = ls[k] BY <1>6, <1>7
    <2>2. \A k, m \in K : k < m => e[k] < e[m] BY <1>7, <1>8
    <2>3. \A k \in DOMAIN ls \ K : Plain(ls[k]) /\ Inside(ls, i, k) BY <1>2
    <2>4. ASSUME NEW x \in DOMAIN us PROVE \E k \in K : x = e[k]
      <3> DEFINE k == Ascending(K)[x]
                 y == e[k]
      <3>1. x \in 1 .. n /\ k \in K /\ y \in 1 .. n /\ Ascending(K)[y] = k BY <1>5, <1>6, <1>7
      <3>2. (x < y => Ascending(K)[x] < Ascending(K)[y]) /\ (y < x => Ascending(K)[y] < Ascending(K)[x])
        BY <1>5, <3>1
      <3>3. k \in Nat BY <1>4, <3>1
      <3> HIDE DEF k, y
      <3>4. Ascending(K)[x] = k BY DEF k
      <3>5. x = y BY <1>5, <3>1, <3>2, <3>3, <3>4, SMTT(30)
      <3> QED BY <3>1, <3>5 DEF y
    <2> QED BY <2>1, <2>2, <2>3, <2>4 DEF Moved
  <1> QED BY <1>1, <1>2, <1>6, <1>9, BlockKept

\* u is the one list after the other.
Joins(s, t, u) ==
    /\ IsList(u) /\ Len(u) = Len(s) + Len(t)
    /\ \A k \in 1 .. Len(s) : u[k] = s[k]
    /\ \A k \in 1 .. Len(t) : u[k + Len(s)] = t[k]

\* Two lists put together.
LEMMA Concat ==
  ASSUME NEW s, IsList(s), NEW t, IsList(t)
  PROVE  Joins(s, t, s \o t)
  <1> DEFINE u == s \o t
             U == Range(s) \cup Range(t)
  <1>1. s \in Seq(U) /\ t \in Seq(U) BY SMTT(30) DEF IsList
  <1>2. u \in Seq(U) /\ Len(u) = Len(s) + Len(t) BY <1>1, SMTT(30)
  <1>3. \A k \in 1 .. Len(s) : u[k] = s[k] BY <1>1, SMTT(30)
  <1>4. \A k \in 1 .. Len(t) : u[k + Len(s)] = t[k] BY <1>1, SMTT(30)
  <1> HIDE DEF u
  <1>5. Len(u) \in Nat /\ u = [k \in 1 .. Len(u) |-> u[k]] BY <1>2, SMTT(30)
  <1>6. IsList(u) BY <1>5, ListForm
  <1> QED BY <1>2, <1>3, <1>4, <1>6 DEF u, Joins

\* Part of a list.
LEMMA Part ==
  ASSUME NEW s, IsList(s), NEW m \in 1 .. Len(s) + 1, NEW n \in 0 .. Len(s), m <= n + 1
  PROVE  /\ IsList(SubSeq(s, m, n)) /\ Len(SubSeq(s, m, n)) = n + 1 - m
         /\ \A k \in m .. n : SubSeq(s, m, n)[k + 1 - m] = s[k]
  <1> DEFINE u == SubSeq(s, m, n)
  <1>1. s \in Seq(Range(s)) BY DEF IsList
  <1>2. u \in Seq(Range(s)) /\ Len(u) = n + 1 - m BY <1>1, SMTT(30)
  <1>3. \A k \in m .. n : u[k + 1 - m] = s[k] BY <1>1, SMTT(30)
  <1> HIDE DEF u
  <1>4. Len(u) \in Nat /\ u = [k \in 1 .. Len(u) |-> u[k]] BY <1>2, SMTT(30)
  <1>5. IsList(u) BY <1>4, ListForm
  <1> QED BY <1>2, <1>3, <1>5 DEF u

\* us is ls with the list new after its first entries.
Spliced(ls, at, new, us) ==
    /\ IsList(us) /\ Len(us) = Len(ls) + Len(new)
    /\ \A k \in 1 .. at : us[k] = ls[k]
    /\ \A k \in 1 .. Len(new) : us[k + at] = new[k]
    /\ \A k \in (at + 1) .. Len(ls) : us[k + Len(new)] = ls[k]

\* Where the lines are after an insertion.
LEMMA SplicePlaces ==
  ASSUME NEW t, IsText(t), NEW at \in 0 .. Len(t.lines), NEW new, IsList(new)
  PROVE  Spliced(t.lines, at, new, SpliceIn(t, at, new).lines)
  <1> DEFINE ls == t.lines
             n == Len(ls)
             p == SubSeq(ls, 1, at)
             q == SubSeq(ls, at + 1, n)
             m == Len(new)
             pn == p \o new
             us == pn \o q
  <1>1. IsList(ls) /\ n \in Nat /\ m \in Nat /\ at \in 0 .. n BY TextLines, ListPlaces DEF AreLines
  <1>2. at \in Nat /\ 1 \in 1 .. n + 1 /\ at + 1 \in 1 .. n + 1 /\ n \in 0 .. n /\ 1 <= at + 1 /\ at + 1 <= n + 1
        /\ at + 1 - 1 = at /\ n + 1 - (at + 1) = n - at
    <2> HIDE DEF ls, n, m
    <2> QED BY <1>1, SMTT(30)
  <1>3. IsList(p) /\ Len(p) = at + 1 - 1 /\ \A k \in 1 .. at : p[k + 1 - 1] = ls[k]
    <2> HIDE DEF ls
    <2> QED BY <1>1, <1>2, Part DEF n
  <1>4. IsList(q) /\ Len(q) = n + 1 - (at + 1) /\ \A k \in (at + 1) .. n : q[k + 1 - (at + 1)] = ls[k]
    <2> HIDE DEF ls
    <2> QED BY <1>1, <1>2, Part DEF n
  <1>5. SpliceIn(t, at, new).lines = us BY DEF SpliceIn
  <1> SUFFICES /\ IsList(us) /\ Len(us) = n + m
               /\ \A k \in 1 .. at : us[k] = ls[k]
               /\ \A k \in 1 .. m : us[k + at] = new[k]
               /\ \A k \in (at + 1) .. n : us[k + m] = ls[k]
    <2> HIDE DEF us
    <2> QED BY <1>5 DEF Spliced
  <1> HIDE DEF ls, n, p, q, m
  <1>6. Len(p) = at /\ Len(q) = n - at BY <1>2, <1>3, <1>4
  <1>7. /\ IsList(pn) /\ Len(pn) = Len(p) + m
        /\ \A k \in 1 .. Len(p) : pn[k] = p[k]
        /\ \A k \in 1 .. m : pn[k + Len(p)] = new[k]
    <2>1. Joins(p, new, pn) BY <1>3, Concat
    <2> HIDE DEF pn
    <2> QED BY <2>1 DEF Joins, m
  <1> HIDE DEF pn
  <1>8. /\ IsList(us) /\ Len(us) = Len(pn) + Len(q)
        /\ \A k \in 1 .. Len(pn) : us[k] = pn[k]
        /\ \A k \in 1 .. Len(q) : us[k + Len(pn)] = q[k]
    <2>1. Joins(pn, q, us) BY <1>4, <1>7, Concat
    <2> HIDE DEF us
    <2> QED BY <2>1 DEF Joins
  <1> HIDE DEF us
  <1>9. Len(pn) = at + m /\ Len(us) = n + m BY <1>1, <1>2, <1>6, <1>7, <1>8, SMTT(30)
  <1>10. ASSUME NEW k \in 1 .. at PROVE us[k] = ls[k]
    <2>1. k \in 1 .. Len(p) /\ k \in 1 .. Len(pn) /\ k + 1 - 1 = k BY <1>1, <1>2, <1>6, <1>9, SMTT(30)
    <2> QED BY <1>3, <1>7, <1>8, <2>1
  <1>11. ASSUME NEW k \in 1 .. m PROVE us[k + at] = new[k]
    <2>1. k + Len(p) = k + at /\ k + at \in 1 .. Len(pn) BY <1>1, <1>2, <1>6, <1>9, SMTT(30)
    <2> QED BY <1>7, <1>8, <2>1
  <1>12. ASSUME NEW k \in (at + 1) .. n PROVE us[k + m] = ls[k]
    <2> DEFINE j == k + 1 - (at + 1)
    <2>1. j \in 1 .. Len(q) /\ j + Len(pn) = k + m BY <1>1, <1>2, <1>6, <1>9, SMTT(30)
    <2> HIDE DEF j
    <2>2. us[j + Len(pn)] = q[j] BY <1>8, <2>1
    <2>3. q[j] = ls[k] BY <1>4 DEF j
    <2> QED BY <2>1, <2>2, <2>3
  <1> QED BY <1>8, <1>9, <1>10, <1>11, <1>12

\* Lines inserted.
LEMMA SpliceKept ==
  ASSUME NEW t, IsText(t), NEW i \in 1 .. Cardinality(Headings(t.lines)), NEW at \in 0 .. Len(t.lines),
         NEW new, IsList(new), \A k \in DOMAIN new : Bare(new[k]),
         Inside(t.lines, i, at + 1) \/ (at = BlockEnd(t.lines, i) /\ Headers(t.lines) = Ascending(Headings(t.lines)))
  PROVE  Kept(t.lines, SpliceIn(t, at, new).lines, i) /\ Comments(SpliceIn(t, at, new)) = Comments(t)
  <1> DEFINE ls == t.lines
             us == SpliceIn(t, at, new).lines
             L == Len(ls)
             m == Len(new)
             e == [k \in DOMAIN ls |-> IF k <= at THEN k ELSE k + m]
             H == Headings(ls)
             h == Ascending(H)
             n == Cardinality(H)
  <1>1. IsList(ls) /\ L \in Nat /\ DOMAIN ls = 1 .. L /\ m \in Nat /\ DOMAIN new = 1 .. m
        /\ at \in 0 .. L
    BY TextLines, ListPlaces DEF AreLines
  <1>2. /\ IsList(us) /\ Len(us) = L + m
        /\ \A k \in 1 .. at : us[k] = ls[k]
        /\ \A k \in 1 .. m : us[k + at] = new[k]
        /\ \A k \in (at + 1) .. L : us[k + m] = ls[k]
    <2>1. Spliced(ls, at, new, us) BY SplicePlaces
    <2> HIDE DEF us
    <2> QED BY <2>1 DEF Spliced
  <1>3. /\ n \in Nat /\ Len(h) = n /\ \A k \in 1 .. n : h[k] \in 1 .. L
        /\ \A k, l \in 1 .. n : k < l => h[k] < h[l]
    <2>1. H \in SUBSET DOMAIN ls BY DEF Headings
    <2>2. H \in SUBSET Nat /\ IsFiniteSet(H) /\ n \in Nat /\ Len(h) = n /\ \A k \in 1 .. n : h[k] \in H
      <3> HIDE DEF H
      <3> QED BY <1>1, <2>1, Places
    <2>3. \A k, l \in 1 .. n : k < l => h[k] < h[l] BY <2>2, Enumerates
    <2> QED BY <1>1, <2>1, <2>2, <2>3
  <1>4. i \in 1 .. n /\ i < i + 1 /\ (i < n => i + 1 \in 1 .. n) BY <1>3, SMTT(30) DEF n, H
  <1>5. DOMAIN us = 1 .. (L + m) BY <1>2, ListPlaces
  <1> HIDE DEF us
  <1>6. \A k \in 1 .. L : e[k] = IF k <= at THEN k ELSE k + m BY <1>1
  <1>7. h[i] <= at /\ (i < n => at < h[i + 1])
    <2>1. h[i] \in 1 .. L /\ (i < n => h[i + 1] \in 1 .. L /\ h[i] < h[i + 1]) BY <1>3, <1>4
    <2>2. CASE Inside(ls, i, at + 1)
      <3>1. h[i] < at + 1 /\ (i < n => at + 1 < h[i + 1]) BY <2>2 DEF Inside
      <3> HIDE DEF h, n, ls, L
      <3> QED BY <1>1, <2>1, <3>1, SMTT(30)
    <2>3. CASE at = BlockEnd(ls, i) /\ Headers(ls) = h
      <3>1. at = IF i < n THEN h[i + 1] - 1 ELSE L BY <1>3, <2>3 DEF BlockEnd
      <3> HIDE DEF h, n, ls, L
      <3> QED BY <1>1, <2>1, <3>1, SMTT(30)
    <2> QED BY <2>2, <2>3
  <1> HIDE DEF e, h, n, m, L
  <1>8. Moved(ls, us, DOMAIN ls, e, i) /\ Comments(SpliceIn(t, at, new)) = Comments(t)
    <2>1. ASSUME NEW k \in 1 .. L PROVE e[k] \in 1 .. (L + m) /\ us[e[k]] = ls[k]
      <3>1. CASE k <= at
        <4>1. k \in 1 .. at /\ k \in 1 .. (L + m) BY <1>1, <3>1, SMTT(30)
        <4> QED BY <1>2, <1>6, <3>1, <4>1
      <3>2. CASE ~(k <= at)
        <4>1. k \in (at + 1) .. L /\ k + m \in 1 .. (L + m) BY <1>1, <3>2, SMTT(30)
        <4> QED BY <1>2, <1>6, <3>2, <4>1
      <3> QED BY <3>1, <3>2
    <2>2. ASSUME NEW k \in 1 .. L, NEW l \in 1 .. L, k < l PROVE e[k] < e[l]
      <3> HIDE DEF ls, L
      <3> QED BY <1>1, <1>6, <2>2, SMTT(30)
    <2>3. ASSUME NEW x \in 1 .. (L + m)
          PROVE  \/ \E k \in 1 .. L : x = e[k]
                 \/ \E j \in 1 .. m : x = j + at
      <3> HIDE DEF ls, L
      <3>1. CASE x <= at
        <4>1. x \in 1 .. L BY <1>1, <3>1, SMTT(30)
        <4> QED BY <1>6, <3>1, <4>1
      <3>2. CASE at + m < x
        <4>1. x - m \in 1 .. L /\ ~(x - m <= at) /\ x - m + m = x BY <1>1, <3>2, SMTT(30)
        <4> QED BY <1>6, <4>1
      <3>3. CASE at < x /\ x <= at + m
        <4>1. x - at \in 1 .. m /\ x = (x - at) + at BY <1>1, <3>3, SMTT(30)
        <4> QED BY <4>1
      <3>4. x <= at \/ at + m < x \/ (at < x /\ x <= at + m) BY <1>1, SMTT(30)
      <3> QED BY <3>1, <3>2, <3>3, <3>4
    <2>4. ASSUME NEW j \in 1 .. m
          PROVE  Plain(us[j + at]) /\ e[h[i]] < j + at /\ (i < n => j + at < e[h[i + 1]])
      <3>1. Plain(us[j + at]) BY <1>1, <1>2 DEF Bare
      <3>2. h[i] \in 1 .. L /\ (i < n => h[i + 1] \in 1 .. L) BY <1>3, <1>4
      <3>3. e[h[i]] = h[i] BY <1>6, <1>7, <3>2
      <3>4. i < n => e[h[i + 1]] = h[i + 1] + m
        <4> SUFFICES ASSUME i < n PROVE e[h[i + 1]] = h[i + 1] + m OBVIOUS
        <4>1. h[i + 1] \in 1 .. L /\ at < h[i + 1] BY <1>7, <3>2
        <4> DEFINE y == h[i + 1]
        <4>2. ~(y <= at)
          <5> HIDE DEF y, ls, L
          <5>1. y \in 1 .. L /\ at < y BY <4>1 DEF y
          <5> QED BY <1>1, <5>1, SMTT(30)
        <4> QED BY <1>6, <4>1, <4>2
      <3>5. h[i] < j + at /\ (i < n => j + at < h[i + 1] + m)
        <4> HIDE DEF ls, L
        <4> QED BY <1>1, <1>7, <3>2, SMTT(30)
      <3> QED BY <3>1, <3>3, <3>4, <3>5
    <2>5. \A x \in DOMAIN us :
             \/ \E k \in DOMAIN ls : x = e[k]
             \/ Plain(us[x]) /\ e[h[i]] < x /\ (i < n => x < e[h[i + 1]])
      BY <1>1, <1>5, <2>3, <2>4
    <2> HIDE DEF ls, L
    <2>6. (\A k \in DOMAIN ls : e[k] \in DOMAIN us /\ us[e[k]] = ls[k]) /\ \A k, l \in DOMAIN ls : k < l => e[k] < e[l]
      BY <1>1, <1>5, <2>1, <2>2
    <2>7. Comments(SpliceIn(t, at, new)) = Comments(t)
      <3>1. \A x \in DOMAIN us : us[x].note = "" \/ \E k \in DOMAIN ls : x = e[k]
        <4>1. \A j \in 1 .. m : us[j + at].note = "" BY <1>1, <1>2 DEF Bare
        <4> QED BY <1>1, <1>5, <2>3, <4>1
      <3>2. \A k \in DOMAIN ls : us[e[k]].note = ls[k].note BY <2>6
      <3> QED BY <1>1, <1>2, <2>6, <3>1, <3>2, CommentsCarried DEF us, ls
    <2> QED BY <2>5, <2>6, <2>7 DEF Moved, h, n, H
  <1>9. Kept(ls, us, i) BY <1>1, <1>2, <1>8, BlockKept
  <1> QED BY <1>8, <1>9 DEF us

\* Between a header and the end of its block (projectBlockBounds).
LEMMA BlockInside ==
  ASSUME NEW t, IsText(t), Validates(t), EditableProjects(t.lines, Config(t)), Unambiguous(t.lines),
         NEW i \in DOMAIN Config(t).projects
  PROVE  LET from == Headers(t.lines)[i] + 1
             end == BlockEnd(t.lines, i)
         IN /\ i \in 1 .. Cardinality(Headings(t.lines))
            /\ from \in Nat \ {0} /\ end \in 0 .. Len(t.lines)
            /\ \A x \in from .. end : x \in DOMAIN t.lines /\ Inside(t.lines, i, x)
  <1> DEFINE ls == t.lines
             H == Headings(ls)
             h == Ascending(H)
             n == Cardinality(H)
             end == BlockEnd(ls, i)
  <1>1. IsList(ls) /\ Len(ls) \in Nat /\ DOMAIN ls = 1 .. Len(ls) BY TextLines, ListPlaces DEF AreLines
  <1>2. H \in SUBSET DOMAIN ls /\ n = Len(Config(t).projects) BY HeadingsCounted
  <1>3. i \in 1 .. n
    <2>1. IsList(Config(t).projects) BY Configured DEF IsConfig
    <2> QED BY <1>2, <2>1, ListPlaces
  <1>4. Headers(ls) = h BY HeadersBegin
  <1> SUFFICES /\ i \in 1 .. n /\ h[i] + 1 \in Nat \ {0} /\ end \in 0 .. Len(ls)
               /\ \A x \in (h[i] + 1) .. end : x \in DOMAIN ls /\ Inside(ls, i, x)
    BY <1>4
  <1>5. Len(h) = n /\ n \in Nat /\ \A k \in 1 .. n : h[k] \in DOMAIN ls
    <2> HIDE DEF H
    <2> QED BY <1>1, <1>2, Places
  <1>6. end = IF i < n THEN h[i + 1] - 1 ELSE Len(ls) BY <1>4, <1>5 DEF BlockEnd
  <1>7. \A x : Inside(ls, i, x) <=> h[i] < x /\ (i < n => x < h[i + 1]) BY DEF Inside
  <1> HIDE DEF h, n, end, ls
  <1>8. h[i] \in 1 .. Len(ls) /\ (i < n => h[i + 1] \in 1 .. Len(ls))
    <2>1. i < n => i + 1 \in 1 .. n BY <1>3, <1>5, SMTT(30)
    <2> QED BY <1>1, <1>3, <1>5, <2>1
  <1>9. ASSUME NEW l \in Nat, NEW b \in 1 .. l, NEW d, d = l \/ \E m \in 1 .. l : d = m - 1
        PROVE  /\ b + 1 \in Nat \ {0} /\ d \in 0 .. l
               /\ \A x \in (b + 1) .. d : x \in 1 .. l /\ b < x
               /\ \A m \in 1 .. l : d = m - 1 => \A x \in (b + 1) .. d : x < m
    BY <1>9, SMTT(30)
  <1>10. end = Len(ls) \/ \E m \in 1 .. Len(ls) : end = m - 1 BY <1>6, <1>8
  <1>11. /\ h[i] + 1 \in Nat \ {0} /\ end \in 0 .. Len(ls)
         /\ \A x \in (h[i] + 1) .. end : x \in 1 .. Len(ls) /\ h[i] < x
         /\ \A m \in 1 .. Len(ls) : end = m - 1 => \A x \in (h[i] + 1) .. end : x < m
    BY <1>1, <1>8, <1>9, <1>10
  <1>12. i < n => \A x \in (h[i] + 1) .. end : x < h[i + 1] BY <1>6, <1>8, <1>11
  <1> QED BY <1>1, <1>3, <1>7, <1>11, <1>12

\* New lines are plain and without a comment.
LEMMA NewPlain ==
  /\ \A v : \A k \in DOMAIN <<Line("approval", v)>> : Bare(<<Line("approval", v)>>[k])
  /\ \A v : \A k \in DOMAIN <<Line("allow", ""), Line("argv", v)>> :
        Bare(<<Line("allow", ""), Line("argv", v)>>[k])
  <1>1. \A v : Bare(Line("approval", v)) /\ Bare(Line("allow", v)) /\ Bare(Line("argv", v))
    BY DEF Bare, Plain, Line
  <1>2. ASSUME NEW a, NEW b, NEW k \in DOMAIN <<a, b>> PROVE <<a, b>>[k] = a \/ <<a, b>>[k] = b
    BY SMTT(30)
  <1>3. ASSUME NEW a, NEW k \in DOMAIN <<a>> PROVE <<a>>[k] = a BY SMTT(30)
  <1> QED BY <1>1, <1>2, <1>3

\* The edits within a block keep the lines outside it and the comments.
LEMMA FieldKept ==
  ASSUME NEW t, IsText(t), Validates(t), Unambiguous(t.lines), NEW i \in DOMAIN Config(t).projects, NEW v,
         NEW u \in replaceProjectField(t, Config(t), i, v)
  PROVE  Kept(t.lines, u.lines, i) /\ Comments(u) = Comments(t)
  <1> DEFINE ls == t.lines
             from == Headers(ls)[i] + 1
             end == BlockEnd(ls, i)
  <1>1. EditableProjects(ls, Config(t)) /\ \E j \in Single(ls, "meta", from, end) : u = Patch(t, j, v)
    BY DEF replaceProjectField
  <1>2. PICK j \in Single(ls, "meta", from, end) : u = Patch(t, j, v) BY <1>1
  <1>3. j \in from .. end /\ Plain(ls[j]) BY DEF Single, Matches, Plain
  <1>4. i \in 1 .. Cardinality(Headings(ls)) /\ j \in DOMAIN ls /\ Inside(ls, i, j) BY <1>1, <1>3, BlockInside
  <1>5. Kept(ls, Patch(t, j, v).lines, i) /\ Comments(Patch(t, j, v)) = Comments(t)
    BY <1>3, <1>4, PatchKept
  <1> QED BY <1>2, <1>5

\* Writing the approval pool (replaceApproval) touches only the block of the project.
LEMMA ApprovalKept ==
  ASSUME NEW t, IsText(t), Validates(t), Unambiguous(t.lines), NEW i \in DOMAIN Config(t).projects, NEW v,
         NEW u \in replaceApproval(t, Config(t), i, v)
  PROVE  Kept(t.lines, u.lines, i) /\ Comments(u) = Comments(t)
  <1> DEFINE ls == t.lines
             from == Headers(ls)[i] + 1
             end == BlockEnd(ls, i)
             allows == Matches(ls, "allow", from, end)
             new == <<Line("approval", v)>>
             at == IF allows = {} THEN end ELSE Min(allows) - 1
  <1>1. /\ EditableProjects(ls, Config(t))
        /\ \/ \E j \in Single(ls, "approval", from, end) : u = Patch(t, j, v)
           \/ u = SpliceIn(t, at, new)
    BY DEF replaceApproval
  <1>2. /\ i \in 1 .. Cardinality(Headings(ls)) /\ from \in Nat \ {0} /\ end \in 0 .. Len(ls)
        /\ \A x \in from .. end : x \in DOMAIN ls /\ Inside(ls, i, x)
    BY <1>1, BlockInside
  <1>3. CASE \E j \in Single(ls, "approval", from, end) : u = Patch(t, j, v)
    <2>1. PICK j \in Single(ls, "approval", from, end) : u = Patch(t, j, v) BY <1>3
    <2>2. j \in from .. end /\ Plain(ls[j]) BY DEF Single, Matches, Plain
    <2>3. Kept(ls, Patch(t, j, v).lines, i) /\ Comments(Patch(t, j, v)) = Comments(t)
      BY <1>2, <2>2, PatchKept
    <2> QED BY <2>1, <2>3
  <1>4. CASE u = SpliceIn(t, at, new)
    <2>1. IsList(new) /\ \A k \in DOMAIN new : Bare(new[k]) BY LinesNew, NewPlain DEF AreLines
    <2>2. Headers(ls) = Ascending(Headings(ls)) BY <1>1, HeadersBegin
    <2>3. /\ at \in 0 .. Len(ls)
          /\ Inside(ls, i, at + 1) \/ at = BlockEnd(ls, i)
      <3>1. CASE allows = {} BY <1>2, <3>1
      <3>2. CASE allows # {}
        <4>1. Len(ls) \in Nat BY TextLines, ListPlaces DEF AreLines
        <4>2. allows \subseteq from .. end BY DEF Matches
        <4> HIDE DEF allows, from, end
        <4>3. allows \subseteq Nat
          <5> HIDE DEF ls
          <5> QED BY <1>2, <4>1, <4>2, SMTT(30)
        <4>4. \E x \in allows : \A y \in allows : x <= y BY <3>2, <4>3, LeastNatural
        <4>5. Min(allows) \in from .. end BY <4>2, <4>4 DEF Min
        <4> DEFINE m == Min(allows)
        <4>6. m - 1 \in 0 .. Len(ls) /\ (m - 1) + 1 = m
          <5>1. m \in from .. end BY <4>5
          <5> HIDE DEF m, ls
          <5> QED BY <1>2, <4>1, <5>1, SMTT(30)
        <4> QED BY <1>2, <3>2, <4>5, <4>6
      <3> QED BY <3>1, <3>2
    <2> HIDE DEF at, new
    <2>4. Kept(ls, SpliceIn(t, at, new).lines, i) /\ Comments(SpliceIn(t, at, new)) = Comments(t)
      BY <1>2, <2>1, <2>2, <2>3, SpliceKept
    <2> QED BY <1>4, <2>4
  <1> HIDE DEF at, new
  <1> QED BY <1>1, <1>3, <1>4

\* Adding an allowlist entry (insertAllowEntry) touches only the block of the project.
LEMMA AllowKept ==
  ASSUME NEW t, IsText(t), Validates(t), Unambiguous(t.lines), NEW i \in DOMAIN Config(t).projects, NEW v,
         NEW u \in insertAllowEntry(t, Config(t), i, v)
  PROVE  Kept(t.lines, u.lines, i) /\ Comments(u) = Comments(t)
  <1> DEFINE ls == t.lines
             at == BlockEnd(ls, i)
             new == <<Line("allow", ""), Line("argv", v)>>
  <1>1. EditableProjects(ls, Config(t)) /\ u = SpliceIn(t, at, new) BY DEF insertAllowEntry, EditableAllows
  <1>2. i \in 1 .. Cardinality(Headings(ls)) /\ at \in 0 .. Len(ls) BY <1>1, BlockInside
  <1>3. IsList(new) /\ \A k \in DOMAIN new : Bare(new[k]) BY LinesNew, NewPlain DEF AreLines
  <1>4. Headers(ls) = Ascending(Headings(ls)) BY <1>1, HeadersBegin
  <1> HIDE DEF new
  <1>5. Kept(ls, SpliceIn(t, at, new).lines, i) /\ Comments(SpliceIn(t, at, new)) = Comments(t)
    BY <1>2, <1>3, <1>4, SpliceKept
  <1> QED BY <1>1, <1>5

\* Removing allowlist entries (removeAllowEntries) touches only the block of the project.
LEMMA DisallowKept ==
  ASSUME NEW t, IsText(t), Validates(t), Unambiguous(t.lines), NEW i \in DOMAIN Config(t).projects, NEW v,
         NEW u \in removeAllowEntries(t, Config(t), i, v)
  PROVE  Kept(t.lines, u.lines, i) /\ OnlyEntriesGone(t, u)
  <1> DEFINE ls == t.lines
             allow == Config(t).projects[i].allow
             remove == {k \in DOMAIN allow : allow[k] = v}
             from == Headers(ls)[i] + 1
             end == BlockEnd(ls, i)
             A == Matches(ls, "allow", from, end)
             g == Ascending(A)
             gone == UNION {{g[k]} \cup ArgvLines(ls, i, k) : k \in remove}
  <1>1. EditableProjects(ls, Config(t)) /\ Len(g) = Len(allow) /\ u = Cut(t, gone)
    BY DEF removeAllowEntries, EditableAllows, AllowHeaders
  <1>2. /\ i \in 1 .. Cardinality(Headings(ls)) /\ from \in Nat \ {0} /\ end \in 0 .. Len(ls)
        /\ \A x \in from .. end : x \in DOMAIN ls /\ Inside(ls, i, x)
    BY <1>1, BlockInside
  <1>3. IsList(ls) /\ Len(ls) \in Nat BY TextLines, ListPlaces DEF AreLines
  <1>4. A \in SUBSET (from .. end) /\ \A x \in A : ls[x].kind = "allow" BY DEF Matches
  <1>5. DOMAIN allow = 1 .. Len(allow)
    <2>1. IsList(allow) BY Configured DEF IsConfig
    <2> QED BY <2>1, ListPlaces
  <1>6. \A k : ArgvLines(ls, i, k) = Matches(ls, "argv", g[k] + 1, IF k < Len(g) THEN g[k + 1] - 1 ELSE end)
    BY DEF ArgvLines, AllowHeaders
  <1>7. remove \subseteq 1 .. Len(g) BY <1>1, <1>5
  <1> HIDE DEF A, from, end, remove
  <1>8. A \in SUBSET DOMAIN ls BY <1>2, <1>4
  <1>9. Len(g) \in Nat /\ \A k \in 1 .. Len(g) : g[k] \in A BY <1>3, <1>8, Places
  <1> HIDE DEF g
  <1>10. ASSUME NEW k \in remove, NEW x \in {g[k]} \cup ArgvLines(ls, i, k)
         PROVE  x \in from .. end /\ ls[x].kind \in {"allow", "argv"}
    <2>1. k \in 1 .. Len(g) /\ g[k] \in A BY <1>7, <1>9
    <2>2. CASE x = g[k] BY <1>4, <2>1, <2>2
    <2>3. CASE x \in ArgvLines(ls, i, k)
      <3> DEFINE to == IF k < Len(g) THEN g[k + 1] - 1 ELSE end
      <3>1. x \in (g[k] + 1) .. to /\ ls[x].kind = "argv" BY <1>6, <2>3 DEF Matches
      <3>2. g[k] \in from .. end /\ (k < Len(g) => g[k + 1] \in from .. end)
        <4>1. k < Len(g) => k + 1 \in 1 .. Len(g) BY <1>9, <2>1, SMTT(30)
        <4> QED BY <1>4, <1>9, <2>1, <4>1
      <3>3. x \in from .. end
        <4> HIDE DEF ls
        <4> QED BY <1>2, <1>3, <3>1, <3>2, SMTT(30)
      <3> QED BY <3>1, <3>3
    <2> QED BY <2>2, <2>3
  <1>11. \A x \in gone : x \in DOMAIN ls /\ ls[x].kind \in {"allow", "argv"} /\ Inside(ls, i, x)
    BY <1>2, <1>10
  <1> HIDE DEF gone
  <1>12. \A x \in gone : Plain(ls[x]) /\ Inside(ls, i, x) BY <1>11 DEF Plain
  <1>13. Kept(ls, Cut(t, gone).lines, i) BY <1>2, <1>12, CutKept
  <1>14. OnlyEntriesGone(t, u)
    <2>1. gone \in SUBSET {x \in DOMAIN ls : ls[x].kind \in {"allow", "argv"}} BY <1>11
    <2> QED BY <1>1, <2>1 DEF OnlyEntriesGone
  <1> QED BY <1>1, <1>13, <1>14

\* No line such an edit adds can be mistaken for the beginning of a project.
LEMMA StaysUnambiguous ==
  ASSUME NEW s, Unambiguous(s), NEW t,
         \A x \in DOMAIN t : \/ ~Missed(t[x]) /\ ~Feigned(t[x])
                            \/ \E k \in DOMAIN s : t[x] = s[k]
  PROVE  Unambiguous(t)
  BY DEF Unambiguous

\* What an edit within a block does to the comments of its text.
NotesKept(o, t, u) ==
    /\ o.kind # "disallow" => Comments(u) = Comments(t)
    /\ o.kind = "disallow" => OnlyEntriesGone(t, u)

\* So such an edit keeps what it should.
LEMMA KeptLines ==
  ASSUME NEW o, NEW t, IsText(t), Validates(t), Unambiguous(t.lines), NEW u, IsText(u), Validates(u),
         Known(o, Config(t)), Known(o, Config(u)),
         Index(Config(u), o.alias) = Index(Config(t), o.alias),
         Kept(t.lines, u.lines, Index(Config(t), o.alias)), NotesKept(o, t, u)
  PROVE  KeepsLines(o, t, u) /\ Unambiguous(u.lines)
  <1>1. /\ Outside(t, o.alias) = Pick(t.lines, Beside(t.lines, Index(Config(t), o.alias)))
        /\ Outside(u, o.alias) = Pick(u.lines, Beside(u.lines, Index(Config(u), o.alias)))
    BY OutsideIs DEF Known
  <1>2. Outside(u, o.alias) = Outside(t, o.alias) BY <1>1 DEF Kept
  <1>3. KeepsLines(o, t, u) BY <1>2 DEF KeepsLines, NotesKept
  <1>4. \A x \in DOMAIN u.lines : \/ ~Missed(u.lines[x]) /\ ~Feigned(u.lines[x])
                                 \/ \E k \in DOMAIN t.lines : u.lines[x] = t.lines[k]
    BY DEF Kept, Plain, Missed, Feigned, IsHeading
  <1>5. Unambiguous(u.lines) BY <1>4, StaysUnambiguous
  <1> QED BY <1>3, <1>5

\* The selected project keeps its place.
LEMMA WithIndex ==
  ASSUME NEW c, IsConfig(c), NEW o, Known(o, c), NEW f \in Editable, NEW v,
         IsConfig(With(o, c, f, v)), Distinct(With(o, c, f, v))
  PROVE  /\ Known(o, With(o, c, f, v))
         /\ Index(With(o, c, f, v), o.alias) = Index(c, o.alias)
  <1> DEFINE d == With(o, c, f, v)
             n == Index(c, o.alias)
  <1>1. n \in DOMAIN c.projects /\ c.projects[n].alias = o.alias BY Found DEF Known
  <1>2. DOMAIN c = {"projects", "settings"} /\ DOMAIN c.projects[n] = {"alias", "meta", "allow", "approval"}
    BY <1>1 DEF IsConfig
  <1>3. n \in DOMAIN d.projects /\ d.projects[n].alias = o.alias BY <1>1, <1>2 DEF With, Editable
  <1> HIDE DEF d, n
  <1>4. o.alias \in Aliases(d) BY <1>3 DEF Aliases
  <1>5. \A k \in DOMAIN d.projects : d.projects[k].alias = o.alias => k = Index(d, o.alias)
    BY <1>4, Found DEF d
  <1> QED BY <1>3, <1>4, <1>5 DEF Known, d, n

\* Removing a project takes its block and nothing else.
LEMMA SpanOutside ==
  ASSUME NEW t, IsText(t), Validates(t), Unambiguous(t.lines), NEW a \in Aliases(Config(t)), NEW u,
         u \in removeProjectSpan(t, Config(t), Index(Config(t), a)), a \notin Aliases(Config(u))
  PROVE  Outside(u, a) = Outside(t, a) /\ Unambiguous(u.lines)
  <1> DEFINE ls == t.lines
             i == Index(Config(t), a)
             h == Ascending(Headings(ls))
  <1>1. EditableProjects(ls, Config(t)) /\ u = Cut(t, Headers(ls)[i] .. BlockEnd(ls, i))
    BY DEF removeProjectSpan
  <1>2. Headers(ls) = h BY <1>1, HeadersBegin
  <1>3. u = Cut(t, h[i] .. (IF i < Len(h) THEN h[i + 1] - 1 ELSE Len(ls))) BY <1>1, <1>2 DEF BlockEnd
  <1>4. Outside(t, a) = u.lines BY <1>3 DEF Outside
  <1>5. Outside(u, a) = u.lines BY DEF Outside
  <1>6. Unambiguous(u.lines)
    <2> DEFINE S == DOMAIN ls \ (Headers(ls)[i] .. BlockEnd(ls, i))
               us == Pick(ls, S)
    <2>1. IsList(ls) BY TextLines DEF AreLines
    <2>2. S \in SUBSET DOMAIN ls /\ u.lines = us BY <1>1 DEF Cut
    <2> HIDE DEF S
    <2>3. Range(us) = {ls[k] : k \in S} BY <2>1, <2>2, Picked
    <2>4. \A x \in DOMAIN us : us[x] \in Range(us) BY DEF Range
    <2> HIDE DEF us
    <2>5. \A x \in DOMAIN us : \E k \in DOMAIN ls : us[x] = ls[k] BY <2>2, <2>3, <2>4
    <2>6. \A x \in DOMAIN u.lines : \E k \in DOMAIN t.lines : u.lines[x] = t.lines[k] BY <2>2, <2>5
    <2> HIDE DEF ls
    <2> QED BY <2>6, StaysUnambiguous
  <1> QED BY <1>4, <1>5, <1>6

\* Entries that two lists share.
LEMMA PickSame ==
  ASSUME NEW S \in SUBSET Nat, IsFiniteSet(S), NEW s, NEW t, \A k \in S : t[k] = s[k]
  PROVE  Pick(t, S) = Pick(s, S)
  <1>1. \A k \in 1 .. Cardinality(S) : Ascending(S)[k] \in S BY Enumerates
  <1>2. \A k \in 1 .. Cardinality(S) : t[Ascending(S)[k]] = s[Ascending(S)[k]] BY <1>1
  <1> QED BY <1>2 DEF Pick

\* A new project follows all lines there are, after a blank line perhaps.
LEMMA AppendOutside ==
  ASSUME NEW t, IsText(t), Validates(t), NEW x, x.alias \notin Aliases(Config(t)),
         NEW u \in appendProject(t, x), IsText(u), Validates(u),
         Config(u).projects = Append(Config(t).projects, x)
  PROVE  /\ Outside(u, x.alias) = t.lines \/ Outside(u, x.alias) = Append(t.lines, Blank)
         /\ Comments(u) = Comments(t)
         /\ Unambiguous(t.lines) => Unambiguous(u.lines)
  <1> DEFINE ls == t.lines
             sep == IF Last(ls) = Blank /\ t.eol THEN <<>> ELSE <<Blank>>
             new == <<Line("project", ""), Line("alias", x.alias),
                      Line("meta", x.meta), Line("approval", x.approval)>>
             v == ls \o sep
             us == v \o new
             L == Len(ls)
             m == Len(v)
             ps == Config(t).projects
             n == Len(ps)
             G == Headings(us)
  <1>1. u.lines = us
    <2>1. u = [lines |-> us, eol |-> TRUE] BY DEF appendProject
    <2> HIDE DEF us
    <2> QED BY <2>1
  <1>2. IsList(ls) /\ L \in Nat /\ DOMAIN ls = 1 .. L BY TextLines, ListPlaces DEF AreLines
  <1>3. IsList(sep) /\ (sep = <<>> \/ sep = <<Blank>>) BY LinesNew DEF AreLines, Blank
  <1>4. IsList(new) BY LinesNew DEF AreLines
  <1>5. /\ Len(new) = 4 /\ new[1].kind = "project" /\ new[1].value # Rest
        /\ new[1].usual
        /\ \A k \in 1 .. 4 : new[k].note = "" /\ (k # 1 => Plain(new[k]))
    <2>1. Len(new) = 4 /\ new[1] = Line("project", "") /\ new[2] = Line("alias", x.alias)
          /\ new[3] = Line("meta", x.meta) /\ new[4] = Line("approval", x.approval)
      BY SMTT(30)
    <2>2. \A k \in 1 .. 4 : k = 1 \/ k = 2 \/ k = 3 \/ k = 4 BY SMTT(30)
    <2>3. /\ Line("project", "").kind = "project" /\ Line("project", "").value # Rest
          /\ Line("project", "").usual /\ Line("project", "").note = ""
          /\ Bare(Line("alias", x.alias)) /\ Bare(Line("meta", x.meta)) /\ Bare(Line("approval", x.approval))
      BY DEF Line, Rest, Bare, Plain
    <2> HIDE DEF new
    <2> QED BY <2>1, <2>2, <2>3 DEF Bare
  <1>6. Len(sep) \in Nat /\ \A k \in 1 .. Len(sep) : Bare(sep[k])
    <2>1. CASE sep = <<>>
      <3>1. Len(<<>>) = 0 /\ 1 .. 0 = {} /\ 0 \in Nat BY SMTT(30)
      <3> QED BY <2>1, <3>1
    <2>2. CASE sep = <<Blank>>
      <3>1. Len(<<Blank>>) = 1 /\ <<Blank>>[1] = Blank /\ \A k \in 1 .. 1 : k = 1 BY SMTT(30)
      <3>2. 1 \in Nat BY SMTT(30)
      <3>3. Bare(Blank) BY DEF Blank, Line, Bare, Plain
      <3> HIDE DEF sep
      <3> QED BY <2>2, <3>1, <3>2, <3>3
    <2> QED BY <1>3, <2>1, <2>2
  <1> HIDE DEF sep, new
  <1>7. Joins(ls, sep, v) BY <1>2, <1>3, Concat
  <1>8. IsList(v) /\ m = L + Len(sep) /\ m \in Nat /\ DOMAIN v = 1 .. m BY <1>7, ListPlaces DEF Joins
  <1>9. v = ls \/ v = Append(ls, Blank)
    <2>1. v = [k \in 1 .. m |-> v[k]] /\ ls = [k \in 1 .. L |-> ls[k]] BY <1>2, <1>8, ListPlaces
    <2>2. \A k \in 1 .. L : v[k] = ls[k] BY <1>7 DEF Joins
    <2>3. CASE sep = <<>>
      <3>1. m = L
        <4>1. Len(<<>>) = 0 BY SMTT(30)
        <4>2. m = L + 0 BY <1>8, <2>3, <4>1
        <4> HIDE DEF m, L
        <4> QED BY <1>2, <4>2, SMTT(30)
      <3> HIDE DEF v, m
      <3> QED BY <2>1, <2>2, <3>1
    <2>4. CASE sep = <<Blank>>
      <3> DEFINE w == Append(ls, Blank)
      <3>1. Len(<<Blank>>) = 1 /\ <<Blank>>[1] = Blank /\ 1 \in 1 .. 1 BY SMTT(30)
      <3>2. m = L + 1 BY <1>8, <2>4, <3>1
      <3>3. v[1 + L] = Blank BY <1>7, <2>4, <3>1 DEF Joins
      <3>4. Extended(ls, Blank, w) BY <1>2, ListAppend
      <3> HIDE DEF w
      <3>5. IsList(w) /\ Len(w) = L + 1 /\ (\A k \in 1 .. L : w[k] = ls[k]) /\ w[L + 1] = Blank
        BY <3>4 DEF Extended
      <3> HIDE DEF v, m, L
      <3>6. w = [k \in 1 .. (L + 1) |-> w[k]] BY <3>5, ListPlaces
      <3>7. 1 + L = L + 1 /\ \A k \in 1 .. (L + 1) : k \in 1 .. L \/ k = L + 1 BY <1>2, SMTT(30)
      <3>8. \A k \in 1 .. (L + 1) : v[k] = w[k] BY <2>2, <3>3, <3>5, <3>7
      <3>9. v = w BY <2>1, <3>2, <3>6, <3>8
      <3> QED BY <3>9 DEF w
    <2> QED BY <1>3, <2>3, <2>4
  <1>10. /\ \A k \in 1 .. L : v[k] = ls[k]
         /\ \A k \in 1 .. m : k \in 1 .. L \/ Bare(v[k])
    <2>1. /\ \A k \in 1 .. L : v[k] = ls[k]
          /\ \A k \in 1 .. Len(sep) : v[k + L] = sep[k]
      BY <1>7 DEF Joins
    <2> HIDE DEF v, m, L
    <2>2. ASSUME NEW k \in 1 .. m, k \notin 1 .. L PROVE k - L \in 1 .. Len(sep) /\ (k - L) + L = k
      BY <1>2, <1>6, <1>8, <2>2, SMTT(30)
    <2>3. ASSUME NEW k \in 1 .. m, k \notin 1 .. L PROVE Bare(v[k])
      <3>1. k - L \in 1 .. Len(sep) /\ (k - L) + L = k BY <2>2, <2>3
      <3>2. v[(k - L) + L] = sep[k - L] BY <2>1, <3>1
      <3>3. v[k] = sep[k - L] BY <3>1, <3>2
      <3> QED BY <1>6, <3>1, <3>3
    <2> QED BY <2>1, <2>3
  <1> HIDE DEF v
  <1>11. Joins(v, new, us) BY <1>4, <1>8, Concat
  <1>12. IsList(us) /\ Len(us) = m + 4 /\ DOMAIN us = 1 .. (m + 4)
    <2>1. IsList(us) /\ Len(us) = m + 4 BY <1>5, <1>11 DEF Joins
    <2> QED BY <2>1, ListPlaces
  <1>13. /\ \A k \in 1 .. m : us[k] = v[k]
         /\ \A k \in 1 .. 4 : us[k + m] = new[k]
    BY <1>5, <1>11 DEF Joins
  <1> HIDE DEF us, m, L
  <1>14. \A k \in 1 .. (m + 4) : k \in 1 .. m \/ \E j \in 1 .. 4 : k = j + m
    <2> SUFFICES ASSUME NEW k \in 1 .. (m + 4), k \notin 1 .. m PROVE \E j \in 1 .. 4 : k = j + m OBVIOUS
    <2>1. k - m \in 1 .. 4 /\ k = (k - m) + m BY <1>8, SMTT(30)
    <2> QED BY <2>1
  <1>15. m + 1 \in G /\ \A k \in G : k <= m + 1
    <2>1. 1 \in 1 .. 4 /\ 1 + m = m + 1 /\ m + 1 \in 1 .. (m + 4) /\ m + 1 <= m + 1
          /\ \A k \in 1 .. m : k <= m + 1
      BY <1>8, SMTT(30)
    <2>2. us[m + 1] = new[1] BY <1>13, <2>1
    <2>3. m + 1 \in G BY <1>5, <1>12, <2>1, <2>2 DEF Headings
    <2>4. ASSUME NEW k \in G PROVE k <= m + 1
      <3>1. k \in 1 .. (m + 4) /\ ~Plain(us[k]) BY <1>12 DEF Headings, Plain
      <3>2. CASE k \in 1 .. m BY <2>1, <3>2
      <3>3. CASE \E j \in 1 .. 4 : k = j + m
        <4>1. PICK j \in 1 .. 4 : k = j + m BY <3>3
        <4>2. j = 1 BY <1>5, <1>13, <3>1, <4>1
        <4> QED BY <2>1, <4>1, <4>2
      <3> QED BY <1>14, <3>1, <3>2, <3>3
    <2> QED BY <2>3, <2>4
  <1>16. IsList(ps) /\ n \in Nat /\ DOMAIN ps = 1 .. n BY Configured, ListPlaces DEF IsConfig
  <1>17. /\ Len(Config(u).projects) = n + 1 /\ DOMAIN Config(u).projects = 1 .. (n + 1)
         /\ Config(u).projects[n + 1] = x
    <2> DEFINE w == Append(ps, x)
    <2>1. Extended(ps, x, w) BY <1>16, ListAppend
    <2> HIDE DEF w
    <2>2. Config(u).projects = w BY DEF w
    <2>3. Len(w) = n + 1 /\ DOMAIN w = 1 .. (n + 1) /\ w[n + 1] = x BY <2>1 DEF Extended
    <2> QED BY <2>2, <2>3
  <1>18. x.alias \in Aliases(Config(u)) /\ Index(Config(u), x.alias) = n + 1
    <2>1. n + 1 \in 1 .. (n + 1) BY <1>16, SMTT(30)
    <2>2. IsConfig(Config(u)) /\ Distinct(Config(u)) BY Configured
    <2>3. x.alias \in Aliases(Config(u)) BY <1>17, <2>1 DEF Aliases
    <2> HIDE DEF n, ps
    <2> QED BY <1>17, <2>1, <2>2, <2>3, Found
  <1> HIDE DEF n, ps
  <1>19. Cardinality(G) = n + 1 /\ G \in SUBSET DOMAIN us BY <1>1, <1>17, HeadingsCounted
  <1> HIDE DEF G
  <1>20. Ascending(G)[n + 1] = m + 1
    <2> DEFINE h == Ascending(G)
    <2>1. G \in SUBSET Nat /\ IsFiniteSet(G) BY <1>12, <1>19, Places
    <2>2. /\ \A k \in 1 .. (n + 1) : h[k] \in G
          /\ \E k \in 1 .. (n + 1) : h[k] = m + 1
          /\ \A k, l \in 1 .. (n + 1) : k < l => h[k] < h[l]
      BY <1>15, <1>19, <2>1, Enumerates
    <2> HIDE DEF h
    <2>3. PICK k \in 1 .. (n + 1) : h[k] = m + 1 BY <2>2
    <2>4. n + 1 \in 1 .. (n + 1) /\ (k # n + 1 => k < n + 1) BY <1>16, SMTT(30)
    <2>5. h[n + 1] \in Nat /\ h[n + 1] <= m + 1 BY <1>15, <2>1, <2>2, <2>4
    <2>6. k # n + 1 => m + 1 < h[n + 1] BY <2>2, <2>3, <2>4
    <2>7. ~(m + 1 < h[n + 1]) BY <1>8, <2>5, SMTT(30)
    <2> QED BY <2>3, <2>6, <2>7 DEF h
  <1>21. Beside(us, n + 1) = 1 .. m
    <2>1. Beside(us, n + 1) = {k \in DOMAIN us : k < m + 1 \/ (n + 1 < n + 1 /\ Ascending(G)[n + 1 + 1] <= k)}
      BY <1>19, <1>20 DEF Beside, G
    <2>2. ~(n + 1 < n + 1) BY <1>16, SMTT(30)
    <2>3. \A k : k \in 1 .. (m + 4) /\ k < m + 1 <=> k \in 1 .. m BY <1>8, SMTT(30)
    <2>4. \A k : k \in Beside(us, n + 1) <=> k \in 1 .. m BY <1>12, <2>1, <2>2, <2>3
    <2> QED BY <2>4
  <1>22. Outside(u, x.alias) = v
    <2>1. Outside(u, x.alias) = Pick(us, 1 .. m) BY <1>1, <1>18, <1>21, OutsideIs
    <2>2. 1 .. m \in SUBSET Nat /\ IsFiniteSet(1 .. m)
      <3>1. \A k \in 1 .. m : k \in Nat BY <1>8, SMTT(30)
      <3> QED BY <1>8, <3>1, IntervalSize
    <2>3. Pick(us, 1 .. m) = Pick(v, 1 .. m) BY <1>13, <2>2, PickSame
    <2>4. Pick(v, DOMAIN v) = v BY <1>8, PickAll
    <2> QED BY <1>8, <2>1, <2>3, <2>4
  <1>23. 1 .. L \subseteq 1 .. m /\ 1 .. m \subseteq 1 .. (m + 4) BY <1>2, <1>6, <1>8, SMTT(30)
  <1>24. \A k \in 1 .. L : us[k] = ls[k] BY <1>10, <1>13, <1>23
  <1>25. ASSUME NEW k \in 1 .. (m + 4)
         PROVE  k \in 1 .. L \/ (us[k].note = "" /\ ~Missed(us[k]) /\ ~Feigned(us[k]))
    <2>1. CASE k \in 1 .. m
      <3>1. us[k] = v[k] BY <1>13, <2>1
      <3> QED BY <1>10, <2>1, <3>1 DEF Bare, Plain, Missed, Feigned, IsHeading
    <2>2. CASE \E j \in 1 .. 4 : k = j + m
      <3>1. PICK j \in 1 .. 4 : k = j + m BY <2>2
      <3>2. us[k] = new[j] BY <1>13, <3>1
      <3>3. ~Missed(new[j]) /\ ~Feigned(new[j])
        <4>1. CASE j = 1 BY <1>5, <4>1 DEF Missed, Feigned
        <4>2. CASE j # 1 BY <1>5, <4>2 DEF Plain, Missed, Feigned, IsHeading
        <4> QED BY <4>1, <4>2
      <3> QED BY <1>5, <3>2, <3>3
    <2> QED BY <1>14, <2>1, <2>2
  <1>26. Comments(u) = Comments(t)
    <2> DEFINE e == [k \in DOMAIN ls |-> k]
    <2>1. \A k \in DOMAIN ls : e[k] \in DOMAIN us /\ us[e[k]].note = ls[k].note
      BY <1>2, <1>12, <1>23, <1>24
    <2>2. \A k, l \in DOMAIN ls : k < l => e[k] < e[l] OBVIOUS
    <2>3. \A k \in DOMAIN us : us[k].note = "" \/ \E l \in DOMAIN ls : k = e[l] BY <1>2, <1>12, <1>25
    <2> HIDE DEF e
    <2> QED BY <1>1, <1>2, <1>12, <2>1, <2>2, <2>3, CommentsCarried
  <1>27. Unambiguous(t.lines) => Unambiguous(u.lines)
    <2>1. \A k \in DOMAIN us : (~Missed(us[k]) /\ ~Feigned(us[k])) \/ \E l \in DOMAIN ls : us[k] = ls[l]
      BY <1>2, <1>12, <1>24, <1>25
    <2> QED BY <1>1, <2>1, StaysUnambiguous
  <1> QED BY <1>9, <1>22, <1>26, <1>27

\* What the operations keep, by what they edit.
LEMMA WithKept ==
  ASSUME NEW t, IsText(t), Validates(t), Unambiguous(t.lines), NEW o, Known(o, Config(t)),
         NEW f \in Editable, NEW v, NEW u, IsText(u), Agrees(u, With(o, Config(t), f, v)),
         Kept(t.lines, u.lines, Index(Config(t), o.alias)), NotesKept(o, t, u)
  PROVE  KeepsLines(o, t, u) /\ Unambiguous(u.lines)
  <1> DEFINE c == Config(t)
             d == With(o, c, f, v)
  <1>1. Validates(u) /\ Config(u) = d BY DEF Agrees
  <1>2. IsConfig(c) /\ IsConfig(Config(u)) /\ Distinct(Config(u)) BY <1>1, Configured
  <1>3. Known(o, d) /\ Index(d, o.alias) = Index(c, o.alias)
    <2>1. IsConfig(d) /\ Distinct(d) BY <1>1, <1>2
    <2> HIDE DEF c
    <2> QED BY <1>2, <2>1, WithIndex DEF c
  <1> HIDE DEF d
  <1> QED BY <1>1, <1>3, KeptLines

\* Creating a project (CreateProject) keeps every line of the file and every comment.
LEMMA AppendKept ==
  ASSUME NEW t, IsText(t), Validates(t), NEW o, o.kind = "create", NEW x, x.alias = o.alias,
         ~Known(o, Config(t)), NEW u \in appendProject(t, x), IsText(u),
         Agrees(u, [Config(t) EXCEPT !.projects = Append(@, x)])
  PROVE  KeepsLines(o, t, u) /\ (Unambiguous(t.lines) => Unambiguous(u.lines))
  <1> DEFINE c == Config(t)
             d == [c EXCEPT !.projects = Append(@, x)]
  <1>1. Validates(u) /\ Config(u) = d BY DEF Agrees
  <1>2. DOMAIN c = {"projects", "settings"} BY Configured DEF IsConfig
  <1> HIDE DEF c
  <1>3. Config(u).projects = Append(c.projects, x) BY <1>1, <1>2
  <1>4. x.alias \notin Aliases(c) BY DEF Known, c
  <1>5. /\ Outside(u, o.alias) = t.lines \/ Outside(u, o.alias) = Append(t.lines, Blank)
        /\ Comments(u) = Comments(t) /\ (Unambiguous(t.lines) => Unambiguous(u.lines))
    BY <1>1, <1>3, <1>4, AppendOutside DEF c
  <1>6. Outside(t, o.alias) = t.lines BY <1>4 DEF Outside, c
  <1> QED BY <1>5, <1>6 DEF KeepsLines

\* Removing a project (removeProjectSpan), or putting it back, keeps the lines outside its block.
LEMMA SpanKept ==
  ASSUME NEW t, IsText(t), Validates(t), Unambiguous(t.lines), NEW o, o.alias \in Aliases(Config(t)),
         NEW u, u \in removeProjectSpan(t, Config(t), Index(Config(t), o.alias)),
         Config(u) = Without(Config(t), o.alias)
  PROVE  /\ o.kind = "remove" => KeepsLines(o, t, u)
         /\ o.kind = "restore" => KeepsLines(o, u, t)
         /\ Unambiguous(u.lines)
  <1> DEFINE c == Config(t)
             d == Without(c, o.alias)
  <1>1. IsConfig(c) /\ Distinct(c) BY Configured
  <1>2. TheOne(d, o.alias) = {} BY <1>1, WithoutChanges
  <1> HIDE DEF d
  <1>3. o.alias \notin Aliases(d)
    <2> SUFFICES ASSUME NEW i \in DOMAIN d.projects, d.projects[i].alias = o.alias PROVE FALSE
      BY DEF Aliases
    <2>1. d.projects[i] \in Range(d.projects) BY DEF Range
    <2>2. d.projects[i] \in TheOne(d, o.alias) BY <2>1 DEF TheOne
    <2> QED BY <1>2, <2>2
  <1>4. o.alias \notin Aliases(Config(u)) BY <1>3 DEF d
  <1>5. Outside(u, o.alias) = Outside(t, o.alias) /\ Unambiguous(u.lines) BY <1>4, SpanOutside
  <1> QED BY <1>5 DEF KeepsLines

---------------------------------------------------------------------------
(* The invariant and the theorems.                                         *)

\* An artifact holds the text before a removal and the text after it, and taking
\* the project's block out of the one gives the other.
ArtifactOK(a) ==
    LET stored == Config(a.before) IN
    /\ IsText(a.before) /\ Validates(a.before) /\ a.project \in Aliases(stored)
    /\ Without(stored, a.project) = Config(a.after)
    /\ removeProjectSpan(a.before, stored, Index(stored, a.project)) = {a.after}
    /\ Unmixed => Unambiguous(a.before.lines)

\* What an operation leaves as it is, of texts whose blocks the editor finds.
Held(o, t, u) == Unmixed => KeepsLines(o, t, u) /\ Unambiguous(u.lines)

Results == {"none", "changed", "no_change", "error", "refused", "stale"}

TextInv ==
    /\ IsText(text) /\ Validates(text) /\ (Unmixed => Unambiguous(text.lines))
    /\ IsList(saved) /\ IsList(former) /\ Len(saved) = Len(former)
    /\ \A i \in DOMAIN saved : saved[i].before = former[i] /\ ArtifactOK(saved[i])
    /\ last.result \in Results
    /\ steps \in 0 .. MaxOps

\* The type invariant is a part of it.
LEMMA InvTyped == TextInv => TypeOK
  <1> SUFFICES ASSUME TextInv PROVE TypeOK OBVIOUS
  <1>1. text.eol \in BOOLEAN /\ \A i \in DOMAIN text.lines : IsLine(text.lines[i])
    BY TextLines DEF TextInv, AreLines
  <1> QED BY <1>1 DEF TextInv, TypeOK, Results, IsLine

\* An operation of Next other than a removal or a restore: it commits an edit with
\* the meaning it intends, or leaves the file alone.
LEMMA Edited ==
  ASSUME TextInv, NEW o \in Ops, NEW c, c = Config(text), IsConfig(c), Distinct(c),
         \/ o.kind = "create" /\ CreateProject(o, c)
         \/ o.kind = "metadata" /\ UpdateProjectMetadata(o, c)
         \/ o.kind = "approval" /\ SetApproval(o, c)
         \/ o.kind = "allow" /\ AddAllowlist(o, c)
         \/ o.kind = "disallow" /\ RemoveAllowlist(o, c)
  PROVE  /\ last'.op = o /\ last'.result \in Results /\ steps' = steps + 1
         /\ UNCHANGED <<saved, former>>
         /\ \/ text' = text /\ last'.result # "changed"
            \/ /\ last'.result = "changed" /\ IsText(text') /\ Validates(text')
               /\ Exact(o, c, Config(text')) /\ Held(o, text, text')
  <1>0. /\ IsText(text) /\ Validates(text) /\ IsConfig(c) /\ Distinct(c)
        /\ Unmixed => Unambiguous(text.lines)
    BY DEF TextInv
  <1> DEFINE Goal == /\ last'.op = o /\ last'.result \in Results /\ steps' = steps + 1
                     /\ UNCHANGED <<saved, former>>
                     /\ \/ text' = text /\ last'.result # "changed"
                        \/ /\ last'.result = "changed" /\ IsText(text') /\ Validates(text')
                           /\ Exact(o, c, Config(text')) /\ Held(o, text, text')
  <1>1. ASSUME NEW r \in Results \ {"changed"}, Stay(o, r) PROVE Goal
    BY <1>1 DEF Stay, Report
  <1>2. ASSUME NEW edits, NEW want, Commit(o, edits, want), UNCHANGED <<saved, former>>,
               \A u \in edits : IsText(u), Exact(o, c, want),
               \A u \in edits : Agrees(u, want) => Held(o, text, u)
        PROVE  Goal
    <2>1. \/ Report(o, "refused") /\ text' = text
          \/ Report(o, "changed") /\ text' \in edits /\ Agrees(text', want)
      BY <1>2 DEF Commit
    <2>2. CASE Report(o, "refused") /\ text' = text BY <1>2, <2>2 DEF Report, Results
    <2>3. CASE Report(o, "changed") /\ text' \in edits /\ Agrees(text', want)
      <3>1. /\ IsText(text') /\ Validates(text') /\ Exact(o, c, Config(text'))
            /\ Held(o, text, text')
        BY <1>2, <2>3 DEF Agrees
      <3>2. last'.op = o /\ last'.result = "changed" /\ steps' = steps + 1 BY <2>3 DEF Report
      <3> QED BY <1>2, <3>1, <3>2 DEF Results
    <2> QED BY <2>1, <2>2, <2>3
  <1> SUFFICES Goal OBVIOUS
  <1> HIDE DEF Goal
  <1>3. "error" \in Results \ {"changed"} /\ "no_change" \in Results \ {"changed"} BY DEF Results
  <1>4. Known(o, c) => Index(c, o.alias) \in DOMAIN c.projects BY <1>0, Found DEF Known
  <1>5. CASE o.kind = "create" /\ CreateProject(o, c)
    <2> DEFINE x == [alias |-> o.alias, meta |-> o.arg, allow |-> <<>>, approval |-> "allowlisted-prompt"]
               want == [c EXCEPT !.projects = Append(@, x)]
    <2>1. CASE Stay(o, "error") BY <1>1, <1>3, <2>1
    <2>2. CASE ~Known(o, c) /\ Commit(o, appendProject(text, x), want) /\ UNCHANGED <<saved, former>>
      <3>1. x.alias = o.alias /\ x.alias \notin Aliases(c) BY <2>2 DEF Known
      <3> HIDE DEF x
      <3>2. /\ want.settings = c.settings /\ Others(want, x.alias) = Others(c, x.alias)
            /\ TheOne(c, x.alias) = {} /\ Cardinality(TheOne(want, x.alias)) = 1
        BY <1>0, <3>1, AppendChanges
      <3>3. \A u \in appendProject(text, x) : IsText(u) BY <1>0, EditsAreTexts
      <3>4. \A u \in appendProject(text, x) : Agrees(u, want) => Held(o, text, u)
        BY <1>0, <1>5, <2>2, <3>1, <3>3, AppendKept DEF Held
      <3> HIDE DEF want
      <3>5. Exact(o, c, want) BY <1>5, <3>1, <3>2 DEF Exact
      <3> QED BY <1>2, <2>2, <3>3, <3>4, <3>5
    <2> QED BY <1>5, <2>1, <2>2 DEF CreateProject
  <1>6. CASE o.kind = "metadata" /\ UpdateProjectMetadata(o, c)
    <2> DEFINE want == With(o, c, "meta", o.arg)
    <2>1. CASE Stay(o, "error") \/ Stay(o, "no_change") BY <1>1, <1>3, <2>1
    <2>2. CASE /\ Known(o, c) /\ Selected(o, c).meta # o.arg /\ UNCHANGED <<saved, former>>
               /\ Commit(o, replaceProjectField(text, c, Index(c, o.alias), o.arg), want)
      <3>1. "meta" \in Editable BY DEF Editable
      <3>2. Exact(o, c, want) BY <1>0, <1>6, <2>2, <3>1, FieldExact
      <3> DEFINE edits == replaceProjectField(text, c, Index(c, o.alias), o.arg)
      <3>3. \A u \in edits : IsText(u) BY <1>0, <1>4, <2>2, EditsAreTexts
      <3>4. Unmixed => \A u \in edits : Kept(text.lines, u.lines, Index(c, o.alias)) /\ NotesKept(o, text, u)
        BY <1>0, <1>4, <1>6, <2>2, FieldKept DEF NotesKept
      <3>5. \A u \in edits : Agrees(u, want) => Held(o, text, u)
        <4> HIDE DEF edits
        <4> QED BY <1>0, <2>2, <3>1, <3>3, <3>4, WithKept DEF Held
      <3> HIDE DEF want, edits
      <3> QED BY <1>2, <2>2, <3>2, <3>3, <3>5 DEF edits
    <2> QED BY <1>6, <2>1, <2>2 DEF UpdateProjectMetadata
  <1>7. CASE o.kind = "approval" /\ SetApproval(o, c)
    <2> DEFINE want == With(o, c, "approval", o.arg)
    <2>1. CASE Stay(o, "error") \/ Stay(o, "no_change") BY <1>1, <1>3, <2>1
    <2>2. CASE /\ Known(o, c) /\ Selected(o, c).approval # o.arg /\ UNCHANGED <<saved, former>>
               /\ Commit(o, replaceApproval(text, c, Index(c, o.alias), o.arg), want)
      <3>1. "approval" \in Editable BY DEF Editable
      <3>2. Exact(o, c, want) BY <1>0, <1>7, <2>2, <3>1, FieldExact
      <3> DEFINE edits == replaceApproval(text, c, Index(c, o.alias), o.arg)
      <3>3. \A u \in edits : IsText(u) BY <1>0, <1>4, <2>2, EditsAreTexts
      <3>4. Unmixed => \A u \in edits : Kept(text.lines, u.lines, Index(c, o.alias)) /\ NotesKept(o, text, u)
        BY <1>0, <1>4, <1>7, <2>2, ApprovalKept DEF NotesKept
      <3>5. \A u \in edits : Agrees(u, want) => Held(o, text, u)
        <4> HIDE DEF edits
        <4> QED BY <1>0, <2>2, <3>1, <3>3, <3>4, WithKept DEF Held
      <3> HIDE DEF want, edits
      <3> QED BY <1>2, <2>2, <3>2, <3>3, <3>5 DEF edits
    <2> QED BY <1>7, <2>1, <2>2 DEF SetApproval
  <1>8. CASE o.kind = "allow" /\ AddAllowlist(o, c)
    <2> DEFINE want == With(o, c, "allow", Append(Selected(o, c).allow, o.arg))
    <2>1. CASE Stay(o, "error") \/ Stay(o, "no_change") BY <1>1, <1>3, <2>1
    <2>2. CASE /\ Known(o, c) /\ o.arg \notin Range(Selected(o, c).allow) /\ UNCHANGED <<saved, former>>
               /\ Commit(o, insertAllowEntry(text, c, Index(c, o.alias), o.arg), want)
      <3>1. "allow" \in Editable BY DEF Editable
      <3>2. Exact(o, c, want) BY <1>0, <1>8, <2>2, AddExact
      <3> DEFINE edits == insertAllowEntry(text, c, Index(c, o.alias), o.arg)
      <3>3. \A u \in edits : IsText(u) BY <1>0, <1>4, <2>2, EditsAreTexts
      <3>4. Unmixed => \A u \in edits : Kept(text.lines, u.lines, Index(c, o.alias)) /\ NotesKept(o, text, u)
        BY <1>0, <1>4, <1>8, <2>2, AllowKept DEF NotesKept
      <3>5. \A u \in edits : Agrees(u, want) => Held(o, text, u)
        <4> HIDE DEF edits
        <4> QED BY <1>0, <2>2, <3>1, <3>3, <3>4, WithKept DEF Held
      <3> HIDE DEF want, edits
      <3> QED BY <1>2, <2>2, <3>2, <3>3, <3>5 DEF edits
    <2> QED BY <1>8, <2>1, <2>2 DEF AddAllowlist
  <1>9. CASE o.kind = "disallow" /\ RemoveAllowlist(o, c)
    <2> DEFINE want == With(o, c, "allow", Purged(Selected(o, c).allow, o.arg))
    <2>1. CASE Stay(o, "error") \/ Stay(o, "no_change") BY <1>1, <1>3, <2>1
    <2>2. CASE /\ Known(o, c) /\ o.arg \in Range(Selected(o, c).allow) /\ UNCHANGED <<saved, former>>
               /\ Commit(o, removeAllowEntries(text, c, Index(c, o.alias), o.arg), want)
      <3>1. "allow" \in Editable BY DEF Editable
      <3>2. Exact(o, c, want) BY <1>0, <1>9, <2>2, PurgeExact
      <3> DEFINE edits == removeAllowEntries(text, c, Index(c, o.alias), o.arg)
      <3>3. \A u \in edits : IsText(u) BY <1>0, <1>4, <2>2, EditsAreTexts
      <3>4. Unmixed => \A u \in edits : Kept(text.lines, u.lines, Index(c, o.alias)) /\ NotesKept(o, text, u)
        BY <1>0, <1>4, <1>9, <2>2, DisallowKept DEF NotesKept
      <3>5. \A u \in edits : Agrees(u, want) => Held(o, text, u)
        <4> HIDE DEF edits
        <4> QED BY <1>0, <2>2, <3>1, <3>3, <3>4, WithKept DEF Held
      <3> HIDE DEF want, edits
      <3> QED BY <1>2, <2>2, <3>2, <3>3, <3>5 DEF edits
    <2> QED BY <1>9, <2>1, <2>2 DEF RemoveAllowlist
  <1> QED BY <1>5, <1>6, <1>7, <1>8, <1>9

\* A removal leaves an artifact of the text it changed, and nothing of the project.
LEMMA Removed ==
  ASSUME TextInv, NEW o \in Ops, NEW c, c = Config(text), IsConfig(c), Distinct(c),
         o.kind = "remove", RemoveProject(o, c)
  PROVE  /\ last'.op = o /\ last'.result \in Results /\ steps' = steps + 1
         /\ \/ text' = text /\ last'.result # "changed" /\ UNCHANGED <<saved, former>>
            \/ /\ last'.result = "changed" /\ IsText(text') /\ Validates(text')
               /\ Exact(o, c, Config(text')) /\ Held(o, text, text')
               /\ saved' = Append(saved, Artifact(o, text')) /\ former' = Append(former, text)
               /\ ArtifactOK(Artifact(o, text'))
  <1> DEFINE edits == removeProjectSpan(text, c, Index(c, o.alias))
             want == Without(c, o.alias)
  <1>1. CASE Stay(o, "error") BY <1>1 DEF Stay, Report, Results
  <1>2. CASE Report(o, "refused") /\ text' = text /\ UNCHANGED <<saved, former>>
    BY <1>2 DEF Report, Results
  <1>3. CASE /\ Known(o, c) /\ Report(o, "changed") /\ text' \in edits /\ Agrees(text', want)
             /\ saved' = Append(saved, Artifact(o, text')) /\ former' = Append(former, text)
    <2>1. o.alias \in Aliases(c) /\ Index(c, o.alias) \in DOMAIN c.projects BY <1>3, Found DEF Known
    <2>2. IsText(text') BY <1>3, <2>1, EditsAreTexts DEF TextInv
    <2>3. Validates(text') /\ Config(text') = want BY <1>3 DEF Agrees
    <2>4. /\ want.settings = c.settings /\ Others(want, o.alias) = Others(c, o.alias)
          /\ TheOne(want, o.alias) = {}
      BY <2>1, WithoutChanges
    <2>5. edits = {text'} BY <1>3 DEF removeProjectSpan
    <2> DEFINE a == Artifact(o, text')
    <2>6. a.project = o.alias /\ a.before = text /\ a.after = text' BY DEF Artifact
    <2> HIDE DEF a
    <2>7. ArtifactOK(a) BY <2>1, <2>3, <2>5, <2>6 DEF ArtifactOK, TextInv
    <2>8. Exact(o, c, Config(text'))
      <3> HIDE DEF want
      <3> QED BY <2>3, <2>4 DEF Exact
    <2>9. Held(o, text, text') BY <1>3, <2>1, <2>3, SpanKept DEF TextInv, Held
    <2> QED BY <1>3, <2>2, <2>3, <2>7, <2>8, <2>9 DEF Report, Results, a
  <1>4. \/ Stay(o, "error")
        \/ Report(o, "refused") /\ text' = text /\ UNCHANGED <<saved, former>>
        \/ /\ Known(o, c) /\ Report(o, "changed") /\ text' \in edits /\ Agrees(text', want)
           /\ saved' = Append(saved, Artifact(o, text')) /\ former' = Append(former, text)
    <2>1. ASSUME NEW r, Report(o, r) PROVE last'.result = r BY <2>1 DEF Report
    <2> SUFFICES ASSUME ~Stay(o, "error") PROVE
           \/ Report(o, "refused") /\ text' = text /\ UNCHANGED <<saved, former>>
           \/ /\ Known(o, c) /\ Report(o, "changed") /\ text' \in edits /\ Agrees(text', want)
              /\ saved' = Append(saved, Artifact(o, text')) /\ former' = Append(former, text)
      OBVIOUS
    <2>2. /\ Known(o, c) /\ Commit(o, edits, want)
          /\ IF last'.result = "changed"
             THEN saved' = Append(saved, Artifact(o, text')) /\ former' = Append(former, text)
             ELSE UNCHANGED <<saved, former>>
      BY DEF RemoveProject
    <2>3. \/ Report(o, "refused") /\ text' = text
          \/ Report(o, "changed") /\ text' \in edits /\ Agrees(text', want)
      BY <2>2 DEF Commit
    <2> HIDE DEF edits, want
    <2> QED BY <2>1, <2>2, <2>3
  <1> HIDE DEF edits, want
  <1> QED BY <1>1, <1>2, <1>3, <1>4

\* A restore brings back the text of an artifact that is of the file as it is, or
\* leaves the file alone, and refuses no such artifact.
LEMMA Restored ==
  ASSUME TextInv, NEW o \in Ops, NEW c, c = Config(text), IsConfig(c), Distinct(c),
         o.kind = "restore", RestoreProject(o, c)
  PROVE  /\ last'.op = o /\ last'.result \in Results /\ steps' = steps + 1
         /\ UNCHANGED <<saved, former>> /\ last'.result # "refused"
         /\ \/ text' = text /\ last'.result # "changed"
            \/ /\ last'.result = "changed" /\ IsText(text') /\ Validates(text')
               /\ Exact(o, c, Config(text')) /\ Held(o, text, text')
               /\ \E k \in DOMAIN saved : saved[k].after = text /\ text' = former[k]
  <1>1. ASSUME NEW r \in Results \ {"changed", "refused"}, Stay(o, r)
        PROVE  /\ last'.op = o /\ last'.result \in Results /\ steps' = steps + 1
               /\ UNCHANGED <<saved, former>> /\ last'.result # "refused"
               /\ text' = text /\ last'.result # "changed"
    BY <1>1 DEF Stay, Report
  <1>2. ASSUME NEW k \in DOMAIN saved, saved[k].project = o.alias, saved[k].after = text,
               IF Reproduces(saved[k], c) THEN text' = saved[k].before /\ Report(o, "changed")
               ELSE UNCHANGED text /\ Report(o, "refused"),
               UNCHANGED <<saved, former>>
        PROVE  /\ last'.op = o /\ last'.result = "changed" /\ steps' = steps + 1
               /\ IsText(text') /\ Validates(text') /\ Exact(o, c, Config(text')) /\ Held(o, text, text')
               /\ text' = former[k]
    <2> DEFINE a == saved[k]
               stored == Config(a.before)
    <2>1. a.before = former[k] /\ ArtifactOK(a) BY DEF TextInv
    <2>2. a.project = o.alias /\ a.after = text BY <1>2
    <2>3. Reproduces(a, c) BY <2>1, <2>2 DEF ArtifactOK, Reproduces
    <2>4. text' = a.before /\ Report(o, "changed") BY <1>2, <2>3
    <2> HIDE DEF a
    <2>5. IsText(text') /\ Validates(text') /\ o.alias \in Aliases(stored) /\ c = Without(stored, o.alias)
      BY <2>1, <2>2, <2>4 DEF ArtifactOK
    <2>6. IsConfig(stored) /\ Distinct(stored) BY <2>4, <2>5, Configured
    <2> HIDE DEF stored
    <2>7. /\ c.settings = stored.settings /\ Others(c, o.alias) = Others(stored, o.alias)
          /\ TheOne(c, o.alias) = {} /\ Cardinality(TheOne(stored, o.alias)) = 1
      BY <2>5, <2>6, WithoutChanges
    <2>8. Exact(o, c, stored) BY <2>7 DEF Exact
    <2>9. last'.op = o /\ last'.result = "changed" /\ steps' = steps + 1 BY <2>4 DEF Report
    <2>10. Held(o, text, a.before)
      <3>1. /\ IsText(a.before) /\ Validates(a.before) /\ o.alias \in Aliases(stored)
            /\ Config(text) = Without(stored, o.alias)
            /\ text \in removeProjectSpan(a.before, stored, Index(stored, o.alias))
            /\ Unmixed => Unambiguous(a.before.lines)
        BY <2>1, <2>2 DEF ArtifactOK, stored
      <3> QED BY <3>1, SpanKept DEF stored, Held
    <2> QED BY <2>1, <2>4, <2>5, <2>8, <2>9, <2>10 DEF stored
  <1>3. \/ Stay(o, "error") \/ Stay(o, "stale")
        \/ \E k \in DOMAIN saved :
              /\ saved[k].project = o.alias /\ saved[k].after = text
              /\ IF Reproduces(saved[k], c) THEN text' = saved[k].before /\ Report(o, "changed")
                 ELSE UNCHANGED text /\ Report(o, "refused")
              /\ UNCHANGED <<saved, former>>
    BY DEF RestoreProject
  <1>4. "error" \in Results \ {"changed", "refused"} /\ "stale" \in Results \ {"changed", "refused"}
    BY DEF Results
  <1> QED BY <1>1, <1>2, <1>3, <1>4 DEF Results

\* What every operation does.
LEMMA Operated ==
  ASSUME TextInv, Next
  PROVE  /\ last'.result \in Results /\ steps' \in 0 .. MaxOps
         /\ \/ text' = text /\ last'.result # "changed"
            \/ /\ IsText(text') /\ Validates(text') /\ Exact(last'.op, Config(text), Config(text'))
               /\ Held(last'.op, text, text')
         /\ \/ UNCHANGED <<saved, former>>
            \/ /\ ArtifactOK(Artifact(last'.op, text')) /\ former' = Append(former, text)
               /\ saved' = Append(saved, Artifact(last'.op, text'))
         /\ last'.op.kind = "restore" =>
               /\ last'.result # "refused"
               /\ last'.result = "changed" =>
                     \E k \in DOMAIN saved : saved[k].after = text /\ text' = former[k]
  <1> DEFINE c == Config(text)
  <1>1. IsConfig(c) /\ Distinct(c) BY Configured DEF TextInv
  <1>2. steps + 1 \in 0 .. MaxOps
    <2>1. steps \in 0 .. MaxOps /\ steps < MaxOps /\ MaxOps \in Nat BY TextAssumption DEF TextInv, Next
    <2> QED BY <2>1, SMTT(30)
  <1>3. PICK o \in Ops :
          \/ o.kind = "create" /\ CreateProject(o, c)
          \/ o.kind = "metadata" /\ UpdateProjectMetadata(o, c)
          \/ o.kind = "approval" /\ SetApproval(o, c)
          \/ o.kind = "allow" /\ AddAllowlist(o, c)
          \/ o.kind = "disallow" /\ RemoveAllowlist(o, c)
          \/ o.kind = "remove" /\ RemoveProject(o, c)
          \/ o.kind = "restore" /\ RestoreProject(o, c)
    BY DEF Next
  <1>4. CASE \/ o.kind = "create" /\ CreateProject(o, c)
             \/ o.kind = "metadata" /\ UpdateProjectMetadata(o, c)
             \/ o.kind = "approval" /\ SetApproval(o, c)
             \/ o.kind = "allow" /\ AddAllowlist(o, c)
             \/ o.kind = "disallow" /\ RemoveAllowlist(o, c)
    <2>1. o.kind # "restore" BY <1>4
    <2> HIDE DEF c
    <2>2. /\ last'.op = o /\ last'.result \in Results /\ steps' = steps + 1
          /\ UNCHANGED <<saved, former>>
          /\ \/ text' = text /\ last'.result # "changed"
             \/ /\ IsText(text') /\ Validates(text') /\ Exact(o, c, Config(text'))
                /\ Held(o, text, text')
      BY <1>1, <1>4, Edited DEF c
    <2> QED BY <1>2, <2>1, <2>2 DEF c
  <1>5. CASE o.kind = "remove" /\ RemoveProject(o, c)
    <2>1. o.kind # "restore" BY <1>5
    <2> HIDE DEF c
    <2>2. /\ last'.op = o /\ last'.result \in Results /\ steps' = steps + 1
          /\ \/ text' = text /\ last'.result # "changed" /\ UNCHANGED <<saved, former>>
             \/ /\ IsText(text') /\ Validates(text') /\ Exact(o, c, Config(text'))
                /\ Held(o, text, text')
                /\ saved' = Append(saved, Artifact(o, text')) /\ former' = Append(former, text)
                /\ ArtifactOK(Artifact(o, text'))
      BY <1>1, <1>5, Removed DEF c
    <2> QED BY <1>2, <2>1, <2>2 DEF c
  <1>6. CASE o.kind = "restore" /\ RestoreProject(o, c)
    <2> HIDE DEF c
    <2>1. /\ last'.op = o /\ last'.result \in Results /\ steps' = steps + 1
          /\ UNCHANGED <<saved, former>> /\ last'.result # "refused"
          /\ \/ text' = text /\ last'.result # "changed"
             \/ /\ IsText(text') /\ Validates(text') /\ Exact(o, c, Config(text'))
                /\ Held(o, text, text')
                /\ \E k \in DOMAIN saved : saved[k].after = text /\ text' = former[k]
      BY <1>1, <1>6, Restored DEF c
    <2> QED BY <1>2, <2>1 DEF c
  <1> QED BY <1>3, <1>4, <1>5, <1>6

\* The file always validates, and every artifact is the text of a removal together
\* with what the removal made of it (RemoveProject, RecoveryArtifactInput).
THEOREM TextInvariant == Spec => []TextInv
  <1>1. Init => TextInv
    <2> SUFFICES ASSUME Init PROVE TextInv OBVIOUS
    <2>1. IsText(text) /\ Validates(text) /\ (Unmixed => Unambiguous(text.lines))
      BY TextAssumption DEF Init, Unmixed
    <2>2. IsList(<<>>) /\ DOMAIN <<>> = {} BY SMTT(30) DEF IsList
    <2>3. 0 \in 0 .. MaxOps BY TextAssumption, SMTT(30)
    <2>4. last.result \in Results BY DEF Init, Results
    <2> QED BY <2>1, <2>2, <2>3, <2>4 DEF Init, TextInv
  <1>2. TextInv /\ [Next]_vars => TextInv'
    <2> SUFFICES ASSUME TextInv, [Next]_vars PROVE TextInv' OBVIOUS
    <2>1. CASE UNCHANGED vars BY <2>1 DEF vars, TextInv, ArtifactOK
    <2>2. CASE Next
      <3>1. /\ last'.result \in Results /\ steps' \in 0 .. MaxOps
            /\ IsText(text') /\ Validates(text') /\ (Unmixed => Unambiguous(text'.lines))
        BY <2>2, Operated DEF TextInv, Held
      <3>2. CASE UNCHANGED <<saved, former>> BY <3>1, <3>2 DEF TextInv, ArtifactOK
      <3>3. CASE \E a : /\ a.before = text /\ ArtifactOK(a)
                        /\ saved' = Append(saved, a) /\ former' = Append(former, text)
        <4>1. PICK a : /\ a.before = text /\ ArtifactOK(a)
                       /\ saved' = Append(saved, a) /\ former' = Append(former, text)
          BY <3>3
        <4> DEFINE n == Len(saved)
        <4>2. /\ IsList(saved) /\ IsList(former) /\ n \in Nat /\ Len(former) = n
              /\ DOMAIN saved = 1 .. n
              /\ \A i \in 1 .. n : saved[i].before = former[i] /\ ArtifactOK(saved[i])
          BY ListPlaces DEF TextInv
        <4>3. /\ IsList(saved') /\ Len(saved') = n + 1 /\ DOMAIN saved' = 1 .. (n + 1)
              /\ saved'[n + 1] = a /\ \A i \in 1 .. n : saved'[i] = saved[i]
          <5> DEFINE u == Append(saved, a)
          <5>1. Extended(saved, a, u) BY <4>2, ListAppend
          <5> HIDE DEF u
          <5>2. saved' = u BY <4>1 DEF u
          <5>3. Extended(saved, a, saved') BY <5>1, <5>2
          <5> QED BY <5>3 DEF Extended
        <4>4. /\ IsList(former') /\ Len(former') = n + 1
              /\ former'[n + 1] = text /\ \A i \in 1 .. n : former'[i] = former[i]
          <5> DEFINE u == Append(former, text)
                     m == Len(former)
          <5>1. Extended(former, text, u) BY <4>2, ListAppend
          <5> HIDE DEF u
          <5>2. former' = u /\ m = n BY <4>1, <4>2 DEF u
          <5>3. Extended(former, text, former') BY <5>1, <5>2
          <5> HIDE DEF n
          <5> QED BY <5>2, <5>3 DEF Extended
        <4>5. \A i \in 1 .. (n + 1) : i \in 1 .. n \/ i = n + 1 BY <4>2, SMTT(30)
        <4>6. \A i \in DOMAIN saved' : saved'[i].before = former'[i] /\ ArtifactOK(saved'[i])
          BY <4>1, <4>2, <4>3, <4>4, <4>5
        <4> QED BY <3>1, <4>3, <4>4, <4>6 DEF TextInv, ArtifactOK
      <3>4. \/ UNCHANGED <<saved, former>>
            \/ \E a : /\ a.before = text /\ ArtifactOK(a)
                      /\ saved' = Append(saved, a) /\ former' = Append(former, text)
        <4>1. Artifact(last'.op, text').before = text BY DEF Artifact
        <4> QED BY <2>2, <4>1, Operated
      <3> QED BY <3>2, <3>3, <3>4
    <2> QED BY <2>1, <2>2
  <1> QED BY <1>1, <1>2, PTL DEF Spec

\* The text and the lists of artifacts keep their types, and there is one artifact
\* for every text a project was removed from.
THEOREM TextTyped == Spec => []TypeOK
  BY TextInvariant, InvTyped, PTL

\* A change to the file has exactly the meaning that was asked for, whatever the
\* layout: the editor parses what it wrote and compares (CreateProject,
\* UpdateProjectMetadata, SetApproval, validateAllowlistUpdate, RemoveProject,
\* RestoreProject).
THEOREM EditsMeanWhatWasAsked == Spec => EditsAreExact
  <1> DEFINE Meant == last'.result = "changed" => Exact(last'.op, Config(text), Config(text'))
  <1>1. TextInv /\ [Next]_vars => [Meant]_vars BY Operated
  <1> QED BY <1>1, TextInvariant, PTL DEF Spec, EditsAreExact

\* A change leaves every line outside the selected project's block as it is, a
\* blank line before a new project excepted, and no edit within a project drops a
\* comment, but that the removal of an allowlist entry takes the comments at the end
\* of its own lines along.  This is for texts that do not hide one header from the
\* editor's pattern (by its spelling or in an inline array) and feign another (in a
\* value over several lines): of those projectBlockBounds finds the very lines that
\* begin a project when it finds as many as config.Parse did, and the edits stay
\* within the block it returns (replaceApproval, replaceProjectField,
\* insertAllowEntry, removeAllowEntries, removeProjectSpan, appendProject).
THEOREM LinesStay == ASSUME Unmixed PROVE Spec => LinesKept
  <1> DEFINE Stays == last'.result = "changed" => KeepsLines(last'.op, text, text')
  <1>1. TextInv /\ [Next]_vars => [Stays]_vars BY Operated DEF Held
  <1> QED BY <1>1, TextInvariant, PTL DEF Spec, LinesKept

\* A restore is carried out only on the file that a removal left, and it brings the
\* file that this removal changed back byte for byte; no artifact that fits the file
\* is refused (RestoreProject's comparisons of the artifact with the file).
THEOREM RestoresUndoRemovals == Spec => RestoreIsIdentity
  <1> DEFINE Undone == last'.op.kind = "restore" =>
                          /\ last'.result # "refused"
                          /\ last'.result = "changed" =>
                                \E k \in DOMAIN saved : saved[k].after = text /\ text' = former[k]
  <1>1. TextInv /\ [Next]_vars => [Undone]_vars BY Operated
  <1> QED BY <1>1, TextInvariant, PTL DEF Spec, RestoreIsIdentity
===========================================================================
