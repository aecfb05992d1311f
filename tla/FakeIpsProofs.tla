---- MODULE FakeIpsProofs ----
(***************************************************************************)
(* The table of servers and addresses, proved for every subnet, every file *)
(* and every number of commands: the assignment of addresses by induction  *)
(* over the sections of a file, the rest by an inductive invariant.        *)
(***************************************************************************)
EXTENDS FakeIps, FiniteSetTheorems, WellFoundedInduction, TLAPS

----------------------------------------------------------------------------
(* Induction and recursion over the natural numbers, for sets and functions *)
(* as data.                                                                *)

LEMMA NatWF == IsWellFoundedOn({p \in Nat \X Nat : p[1] < p[2]}, Nat)
<1>1. {p \in Nat \X Nat : p[1] < p[2]} = OpToRel(<, Nat)
  BY DEF OpToRel
<1> QED
  BY <1>1, NatLessThanWellFounded

LEMMA LeastNat ==
    ASSUME NEW T \in SUBSET Nat, T # {}
    PROVE  \E n \in T : \A m \in T : n <= m
<1>1. \E n \in T : \A m \in T : ~(<<m, n>> \in {p \in Nat \X Nat : p[1] < p[2]})
  BY NatWF, WFMin, Zenon
<1>2. PICK n \in T : \A m \in T : ~(<<m, n>> \in {p \in Nat \X Nat : p[1] < p[2]})
  BY <1>1
<1>3. ASSUME NEW m \in T PROVE n <= m
  <2>1. n \in Nat /\ m \in Nat
    OBVIOUS
  <2>2. ~(m < n)
    BY <1>2, <2>1
  <2> QED
    BY <2>1, <2>2
<1> QED
  BY <1>3

\* A set that has 0 and, with a number, the next one, up to n, has them all.
LEMMA UpTo ==
    ASSUME NEW n \in Nat, NEW S,
           0 \in S, \A k \in 1..n : k - 1 \in S => k \in S
    PROVE  \A k \in 0..n : k \in S
<1> DEFINE T == {k \in 0..n : k \notin S}
<1> SUFFICES ASSUME T # {} PROVE FALSE
  OBVIOUS
<1>1. T \in SUBSET Nat
  OBVIOUS
<1>2. PICK k \in T : \A m \in T : k <= m
  BY <1>1, LeastNat
<1>3. k \in 1..n /\ k - 1 \in 0..n /\ ~(k <= k - 1)
  BY <1>2
<1>4. k - 1 \in S
  BY <1>2, <1>3
<1> QED
  BY <1>2, <1>3, <1>4

\* Functions defined by recursion over 0..n exist.
Recursion(n, V, base, step) ==
    n \in Nat /\ base \in V /\ step \in [1..n -> [V -> V]]

Solves(h, n, V, base, step) ==
    h \in [0..n -> V] /\ h[0] = base /\ \A k \in 1..n : h[k] = step[k][h[k - 1]]

LEMMA RecursionExists ==
    ASSUME NEW n, NEW V, NEW base, NEW step, Recursion(n, V, base, step)
    PROVE  \E h : Solves(h, n, V, base, step)
<1> USE DEF Recursion
<1> DEFINE Good(m, h) == h[0] = base /\ \A k \in 1..m : h[k] = step[k][h[k - 1]]
           S == {m \in 0..n : \E h \in [0..m -> V] : Good(m, h)}
<1>1. 0 \in S
  <2> DEFINE h == [k \in 0..0 |-> base]
  <2>1. h \in [0..0 -> V] /\ Good(0, h)
    OBVIOUS
  <2> HIDE DEF h, Good
  <2>2. \E x \in [0..0 -> V] : Good(0, x)
    BY <2>1
  <2> QED
    BY <2>2
<1>2. ASSUME NEW m \in 1..n, m - 1 \in S PROVE m \in S
  <2>1. PICK h \in [0..(m - 1) -> V] : Good(m - 1, h)
    BY <1>2
  <2>2. h[m - 1] \in V
    OBVIOUS
  <2> DEFINE v == step[m][h[m - 1]]
             g == [k \in 0..m |-> IF k = m THEN v ELSE h[k]]
  <2>3. v \in V
    BY <2>2
  <2>4. g \in [0..m -> V]
    BY <2>3
  <2>5. g[0] = base
    BY <2>1
  <2>6. ASSUME NEW k \in 1..m PROVE g[k] = step[k][g[k - 1]]
    <3>1. g[k - 1] = h[k - 1]
      OBVIOUS
    <3>2. CASE k = m
      BY <3>1, <3>2
    <3>3. CASE k # m
      <4>1. k \in 1..(m - 1) /\ g[k] = h[k]
        BY <3>3
      <4> QED
        BY <2>1, <3>1, <4>1
    <3> QED
      BY <3>2, <3>3
  <2>7. Good(m, g)
    BY <2>5, <2>6
  <2> HIDE DEF g, Good
  <2>8. \E x \in [0..m -> V] : Good(m, x)
    BY <2>4, <2>7
  <2> QED
    BY <2>8
<1>3. n \in S
  <2> HIDE DEF S
  <2>1. \A k \in 0..n : k \in S
    BY <1>1, <1>2, UpTo
  <2> QED
    BY <2>1
<1> QED
  BY <1>3 DEF Solves

----------------------------------------------------------------------------
(* The assignment of addresses. *)

LEMMA HostNumbers ==
    ASSUME FakeIpsAssumption
    PROVE  /\ Pins \subseteq Nat /\ Addrs \subseteq Pins /\ Candidates \subseteq Addrs
           /\ Absent \notin Pins /\ Bad \notin Pins /\ None \notin Pins
BY DEF FakeIpsAssumption, Pins, Addrs, Candidates, Absent, Bad, None

\* assign_virtual_ip finds the least free address, if there is one.
LEMMA AssignsLeast ==
    ASSUME FakeIpsAssumption, NEW used
    PROVE  /\ Assigned(used) \subseteq Candidates \ used
           /\ Candidates \ used # {} => Assigned(used) # {}
           /\ \A g, h \in Assigned(used) : g = h
<1>1. Candidates \ used \in SUBSET Nat
  BY HostNumbers
<1>2. ASSUME Candidates \ used # {} PROVE Assigned(used) # {}
  <2>1. \E h \in Candidates \ used : \A g \in Candidates \ used : h <= g
    BY <1>1, <1>2, LeastNat
  <2> QED
    BY <2>1 DEF Assigned
<1>3. ASSUME NEW g \in Assigned(used), NEW h \in Assigned(used) PROVE g = h
  <2>1. g \in Nat /\ h \in Nat /\ g <= h /\ h <= g
    BY <1>1 DEF Assigned
  <2> QED
    BY <2>1
<1> QED
  BY <1>2, <1>3 DEF Assigned

LEMMA SectionTypes ==
    ASSUME NEW f \in Seq(Sections), NEW i \in DOMAIN f
    PROVE  f[i].name \in Names /\ f[i].vip \in Pins \cup {Absent, Bad}
<1>1. f[i] \in Sections
  OBVIOUS
<1> QED
  BY <1>1 DEF Sections

\* The equation that resolve_virtual_ips follows.
LEMMA UsedStep ==
    ASSUME NEW f \in Seq(Sections)
    PROVE  /\ UsedUpTo(f, 0) = Pinned(f)
           /\ \A k \in 1..Len(f) :
                UsedUpTo(f, k) =
                  IF AutoAt(f, k)
                  THEN UsedUpTo(f, k - 1) \cup Assigned(UsedUpTo(f, k - 1))
                  ELSE UsedUpTo(f, k - 1)
<1> DEFINE n == Len(f)
           V == SUBSET (Pinned(f) \cup Candidates)
           More(k, U) == IF AutoAt(f, k) THEN U \cup Assigned(U) ELSE U
           step == [k \in 1..n |-> [U \in V |-> More(k, U)]]
           Body(u) == [k \in 0..n |-> IF k = 0 THEN Pinned(f)
                                      ELSE IF AutoAt(f, k)
                                           THEN u[k - 1] \cup Assigned(u[k - 1])
                                           ELSE u[k - 1]]
           used == CHOOSE u : u = Body(u)
<1>1. n \in Nat /\ Pinned(f) \in V
  OBVIOUS
<1>2. \A k \in 1..n, U \in V : More(k, U) \in V
  BY DEF Assigned
<1>3. step \in [1..n -> [V -> V]]
  <2> HIDE DEF More, V
  <2> QED
    BY <1>2
<1>4. PICK h : Solves(h, n, V, Pinned(f), step)
  <2>1. Recursion(n, V, Pinned(f), step)
    BY <1>1, <1>3 DEF Recursion
  <2> HIDE DEF step, V, n
  <2> QED
    BY <2>1, RecursionExists
<1>5. ASSUME NEW k \in 1..n PROVE h[k] = More(k, h[k - 1])
  <2>1. h[k - 1] \in V
    BY <1>1, <1>4 DEF Solves
  <2>2. step[k][h[k - 1]] = More(k, h[k - 1])
    <3> HIDE DEF More, V
    <3> QED
      BY <2>1
  <2> QED
    BY <1>4, <2>2 DEF Solves
<1>6. h = Body(h)
  <2>1. \A k \in 0..n : k = 0 \/ k \in 1..n
    BY <1>1
  <2>2. \A k \in 0..n : h[k] = Body(h)[k]
    BY <1>4, <1>5, <2>1 DEF Solves
  <2>3. h \in [0..n -> V]
    BY <1>4 DEF Solves
  <2> QED
    BY <2>2, <2>3
<1>7. used = Body(used)
  <2>1. \E u : u = Body(u)
    BY <1>6
  <2> HIDE DEF Body
  <2> QED
    BY <2>1
<1>8. ASSUME NEW k PROVE UsedUpTo(f, k) = used[k]
  BY Zenon DEF UsedUpTo
<1> HIDE DEF used
<1>9. /\ used[0] = Pinned(f)
      /\ \A k \in 1..n : used[k] = IF AutoAt(f, k)
                                   THEN used[k - 1] \cup Assigned(used[k - 1])
                                   ELSE used[k - 1]
  <2>1. 0 \in 0..n /\ \A k \in 1..n : k \in 0..n /\ k # 0
    BY <1>1
  <2> QED
    BY <1>7, <2>1
<1>10. \A k \in 1..n : k - 1 \in 0..n /\ k \in 0..n
  BY <1>1
<1> QED
  BY <1>1, <1>8, <1>9, <1>10

\* The addresses resolve_virtual_ips may assign, the sections among the first
\* k that ask for one, and what these have got: the lowest there are.
Free(f) == Candidates \ Pinned(f)

AutosUpTo(f, k) == {j \in 1..k : AutoAt(f, j)}

Lowest(f, k, I) ==
    /\ I \subseteq Free(f) /\ IsFiniteSet(I)
    /\ UsedUpTo(f, k) = Pinned(f) \cup I
    /\ \A g \in Free(f), h \in I : g < h => g \in I
    /\ Cardinality(I) = Cardinality(AutosUpTo(f, k))

\* One assignment takes the lowest free address.
LEMMA AssignmentTakesLowest ==
    ASSUME FakeIpsAssumption, NEW f \in Seq(Sections), NEW k \in 1..Len(f), NEW I,
           Lowest(f, k - 1, I), AutoAt(f, k), NEW h \in Assigned(UsedUpTo(f, k - 1))
    PROVE  /\ h \in Free(f) /\ h \notin UsedUpTo(f, k - 1)
           /\ {g \in Free(f) : g < h} = I
           /\ Lowest(f, k, I \cup {h})
<1>1. h \in Free(f) \ I /\ \A g \in Free(f) \ I : h <= g
  BY DEF Lowest, Assigned, Free
<1>2. Free(f) \subseteq Nat
  BY HostNumbers DEF Free
<1>3. ASSUME NEW g \in Free(f) PROVE g < h <=> g \in I
  <2>1. g \in Nat /\ h \in Nat
    BY <1>1, <1>2
  <2>2. CASE g \in I
    <3>1. g # h /\ ~(h < g)
      BY <1>1, <2>2 DEF Lowest
    <3> QED
      BY <2>1, <2>2, <3>1
  <2>3. CASE g \notin I
    <3>1. h <= g
      BY <1>1, <2>3
    <3> QED
      BY <2>1, <2>3, <3>1
  <2> QED
    BY <2>2, <2>3
<1>4. {g \in Free(f) : g < h} = I
  BY <1>3 DEF Lowest
<1>5. Lowest(f, k, I \cup {h})
  <2>1. UsedUpTo(f, k) = UsedUpTo(f, k - 1) \cup Assigned(UsedUpTo(f, k - 1))
    BY UsedStep
  <2>2. Assigned(UsedUpTo(f, k - 1)) = {h}
    BY AssignsLeast
  <2>3. UsedUpTo(f, k) = Pinned(f) \cup (I \cup {h})
    BY <2>1, <2>2 DEF Lowest
  <2>4. IsFiniteSet(I \cup {h}) /\ Cardinality(I \cup {h}) = Cardinality(I) + 1
    BY <1>1, FS_AddElement DEF Lowest
  <2>5. AutosUpTo(f, k) = AutosUpTo(f, k - 1) \cup {k} /\ k \notin AutosUpTo(f, k - 1)
    BY DEF AutosUpTo
  <2>6. IsFiniteSet(AutosUpTo(f, k - 1))
    <3>1. AutosUpTo(f, k - 1) \in SUBSET (1..(k - 1))
      BY DEF AutosUpTo
    <3>2. 1 \in Int /\ k - 1 \in Int
      OBVIOUS
    <3>3. IsFiniteSet(1..(k - 1))
      BY <3>2, FS_Interval
    <3> QED
      BY <3>1, <3>3, FS_Subset
  <2>7. Cardinality(AutosUpTo(f, k)) = Cardinality(AutosUpTo(f, k - 1)) + 1
    BY <2>5, <2>6, FS_AddElement
  <2>8. ASSUME NEW g \in Free(f), NEW x \in I \cup {h}, g < x PROVE g \in I \cup {h}
    BY <1>3, <2>8 DEF Lowest
  <2> QED
    BY <1>1, <2>3, <2>4, <2>7, <2>8 DEF Lowest
<1> QED
  BY <1>1, <1>4, <1>5 DEF Lowest, Assigned

LEMMA AssignedInOrder ==
    ASSUME FakeIpsAssumption, NEW f \in Seq(Sections), Resolves(f)
    PROVE  \A k \in 0..Len(f) : \E I : Lowest(f, k, I)
<1> DEFINE n == Len(f)
           S == {k \in 0..n : \E I : Lowest(f, k, I)}
<1>1. n \in Nat
  OBVIOUS
<1>2. 0 \in S
  <2>1. AutosUpTo(f, 0) = {}
    BY DEF AutosUpTo
  <2>2. Lowest(f, 0, {})
    BY <2>1, UsedStep, FS_EmptySet DEF Lowest
  <2> QED
    BY <1>1, <2>2
<1>3. ASSUME NEW k \in 1..n, k - 1 \in S PROVE k \in S
  <2>1. PICK I : Lowest(f, k - 1, I)
    BY <1>3
  <2>2. CASE AutoAt(f, k)
    <3>1. PICK h : h \in Assigned(UsedUpTo(f, k - 1))
      BY <2>2 DEF Resolves
    <3>2. Lowest(f, k, I \cup {h})
      BY <2>1, <2>2, <3>1, AssignmentTakesLowest
    <3> QED
      BY <3>2
  <2>3. CASE ~AutoAt(f, k)
    <3>1. UsedUpTo(f, k) = UsedUpTo(f, k - 1)
      BY <2>3, UsedStep
    <3>2. AutosUpTo(f, k) = AutosUpTo(f, k - 1)
      BY <2>3 DEF AutosUpTo
    <3>3. Lowest(f, k, I)
      BY <2>1, <3>1, <3>2 DEF Lowest
    <3> QED
      BY <3>3
  <2> QED
    BY <2>2, <2>3
<1> HIDE DEF S, n
<1>4. \A k \in 0..n : k \in S
  BY <1>1, <1>2, <1>3, UpTo
<1> QED
  BY <1>4 DEF S, n

----------------------------------------------------------------------------
(* The addresses a file resolves to. *)

LEMMA ResolvedIsAssigned ==
    ASSUME NEW f \in Seq(Sections), Resolves(f), NEW i \in DOMAIN f, AutoAt(f, i)
    PROVE  Resolved(f)[i] \in Assigned(UsedUpTo(f, i - 1))
<1> DEFINE A == Assigned(UsedUpTo(f, i - 1))
<1>1. A # {}
  BY DEF Resolves
<1>2. Resolved(f)[i] = CHOOSE h \in A : TRUE
  BY DEF Resolved
<1> HIDE DEF A
<1>3. Resolved(f)[i] \in A
  BY <1>1, <1>2
<1> QED
  BY <1>3 DEF A

LEMMA ResolvedIsPinned ==
    ASSUME NEW f \in Seq(Sections), Resolves(f), NEW i \in DOMAIN f, ~AutoAt(f, i)
    PROVE  Resolved(f)[i] = f[i].vip /\ f[i].vip \in Pinned(f) /\ f[i].vip \in Pins
<1>1. Resolved(f)[i] = f[i].vip
  BY DEF Resolved
<1>2. f[i].vip \in Pins \cup {Absent, Bad} /\ f[i].vip # Bad /\ f[i].vip # Absent
  BY SectionTypes DEF Resolves, AutoAt
<1> QED
  BY <1>1, <1>2 DEF Pinned

LEMMA Sequential ==
    ASSUME FakeIpsAssumption, NEW f \in Seq(Sections), Resolves(f),
           NEW i \in DOMAIN f, AutoAt(f, i)
    PROVE  /\ Resolved(f)[i] \in Free(f)
           /\ Cardinality({g \in Free(f) : g < Resolved(f)[i]}) =
              Cardinality(AutosUpTo(f, i - 1))
<1>1. PICK k \in 1..Len(f) : k = i
  OBVIOUS
<1>2. PICK I : Lowest(f, k - 1, I)
  <2>1. k - 1 \in 0..Len(f)
    OBVIOUS
  <2> QED
    BY <2>1, AssignedInOrder
<1>3. PICK h \in Assigned(UsedUpTo(f, k - 1)) : h = Resolved(f)[i]
  BY <1>1, ResolvedIsAssigned
<1>4. h \in Free(f) /\ {g \in Free(f) : g < h} = I
  BY <1>1, <1>2, AssignmentTakesLowest
<1> QED
  BY <1>1, <1>2, <1>3, <1>4 DEF Lowest

LEMMA ResolvedTypes ==
    ASSUME FakeIpsAssumption, NEW f \in Seq(Sections), Resolves(f), NEW i \in DOMAIN f
    PROVE  Resolved(f)[i] \in Pins
<1>1. CASE AutoAt(f, i)
  BY <1>1, Sequential, HostNumbers DEF Free
<1>2. CASE ~AutoAt(f, i)
  BY <1>2, ResolvedIsPinned
<1> QED
  BY <1>1, <1>2

LEMMA AutosDistinct ==
    ASSUME FakeIpsAssumption, NEW f \in Seq(Sections), Resolves(f),
           NEW i \in DOMAIN f, NEW j \in DOMAIN f, i < j,
           AutoAt(f, i), AutoAt(f, j)
    PROVE  Resolved(f)[i] # Resolved(f)[j]
<1> SUFFICES ASSUME Resolved(f)[i] = Resolved(f)[j] PROVE FALSE
  OBVIOUS
<1>1. Cardinality(AutosUpTo(f, i - 1)) = Cardinality(AutosUpTo(f, j - 1))
  BY Sequential
<1>2. AutosUpTo(f, i - 1) \in SUBSET AutosUpTo(f, j - 1)
  BY DEF AutosUpTo
<1>3. i \in AutosUpTo(f, j - 1) /\ i \notin AutosUpTo(f, i - 1)
  BY DEF AutosUpTo
<1>4. IsFiniteSet(AutosUpTo(f, j - 1))
  <2>1. AutosUpTo(f, j - 1) \in SUBSET (1..(j - 1))
    BY DEF AutosUpTo
  <2>2. 1 \in Int /\ j - 1 \in Int
    OBVIOUS
  <2>3. IsFiniteSet(1..(j - 1))
    BY <2>2, FS_Interval
  <2> QED
    BY <2>1, <2>3, FS_Subset
<1>5. AutosUpTo(f, i - 1) = AutosUpTo(f, j - 1)
  BY <1>1, <1>2, <1>4, FS_Subset
<1> QED
  BY <1>3, <1>5

\* Two servers of a file that resolves have two addresses.
LEMMA ResolvedDistinct ==
    ASSUME FakeIpsAssumption, NEW f \in Seq(Sections), Resolves(f),
           NEW i \in DOMAIN f, NEW j \in DOMAIN f,
           Resolved(f)[i] = Resolved(f)[j]
    PROVE  i = j
<1>1. CASE AutoAt(f, i) /\ AutoAt(f, j)
  <2>1. i < j \/ j < i \/ i = j
    OBVIOUS
  <2> QED
    BY <1>1, <2>1, AutosDistinct
<1>2. CASE AutoAt(f, i) /\ ~AutoAt(f, j)
  BY <1>2, Sequential, ResolvedIsPinned DEF Free
<1>3. CASE ~AutoAt(f, i) /\ AutoAt(f, j)
  BY <1>3, Sequential, ResolvedIsPinned DEF Free
<1>4. CASE ~AutoAt(f, i) /\ ~AutoAt(f, j)
  <2>1. f[i].vip = f[j].vip
    BY <1>4, ResolvedIsPinned
  <2> QED
    BY <1>4, <2>1 DEF Resolves
<1> QED
  BY <1>1, <1>2, <1>3, <1>4

LEMMA TableIsSound ==
    ASSUME FakeIpsAssumption, NEW f \in Seq(Sections), Loads(f)
    PROVE  /\ Table(f) \subseteq Names \X Pins
           /\ \A p, q \in Table(f) : p[1] = q[1] <=> p[2] = q[2]
<1>1. Resolves(f)
  BY DEF Loads
<1>2. Table(f) \subseteq Names \X Pins
  BY <1>1, ResolvedTypes, SectionTypes DEF Table
<1>3. ASSUME NEW p \in Table(f), NEW q \in Table(f)
      PROVE  p[1] = q[1] <=> p[2] = q[2]
  <2>1. PICK i \in DOMAIN f : p = <<f[i].name, Resolved(f)[i]>>
    BY DEF Table
  <2>2. PICK j \in DOMAIN f : q = <<f[j].name, Resolved(f)[j]>>
    BY DEF Table
  <2>3. f[i].name = f[j].name => i = j
    BY DEF Loads
  <2>4. Resolved(f)[i] = Resolved(f)[j] => i = j
    BY <1>1, ResolvedDistinct
  <2> QED
    BY <2>1, <2>2, <2>3, <2>4
<1> QED
  BY <1>2, <1>3

----------------------------------------------------------------------------
(* What rm-server leaves. *)

\* Every section has an address of its own and a name of its own.
Distinct(f) ==
    /\ \A i \in DOMAIN f : f[i].vip \in Pins
    /\ \A i, j \in DOMAIN f : f[i].vip = f[j].vip => i = j
    /\ \A i, j \in DOMAIN f : f[i].name = f[j].name => i = j

\* s is what is left of the first k sections of f without those of name n.
Leaves(f, n, k, s) ==
    /\ s \in Seq(Sections)
    /\ \A i \in DOMAIN s : \E j \in 1..k : s[i] = f[j]
    /\ \A j \in 1..k : f[j].name # n => \E i \in DOMAIN s : s[i] = f[j]
    /\ Distinct(f) => Distinct(s)

LEMMA LeavesNext ==
    ASSUME NEW f \in Seq(Sections), NEW n, NEW k \in 1..Len(f), NEW s,
           Leaves(f, n, k - 1, s)
    PROVE  Leaves(f, n, k, IF f[k].name = n THEN s ELSE Append(s, f[k]))
<1>1. \A j \in 1..k : j = k \/ j \in 1..(k - 1)
  OBVIOUS
<1>2. 1..(k - 1) \subseteq 1..k /\ k \in 1..k /\ 1..k \subseteq DOMAIN f /\ k \notin 1..(k - 1)
  OBVIOUS
<1>3. CASE f[k].name = n
  BY <1>1, <1>2, <1>3 DEF Leaves
<1>4. CASE f[k].name # n
  <2> DEFINE t == Append(s, f[k])
  <2>1. s \in Seq(Sections) /\ f[k] \in Sections
    BY <1>2 DEF Leaves
  <2>2. /\ t \in Seq(Sections) /\ Len(s) + 1 \in DOMAIN t
        /\ t[Len(s) + 1] = f[k] /\ Len(s) + 1 \notin DOMAIN s
        /\ \A i \in DOMAIN s : i \in DOMAIN t /\ t[i] = s[i]
        /\ \A i \in DOMAIN t : i \in DOMAIN s \/ i = Len(s) + 1
    BY <2>1
  <2> HIDE DEF t
  <2>3. \A i \in DOMAIN s : \E j \in 1..(k - 1) : s[i] = f[j]
    BY DEF Leaves
  <2>4. \A i \in DOMAIN t : \E j \in 1..k : t[i] = f[j]
    BY <1>2, <2>2, <2>3
  <2>5. \A j \in 1..k : f[j].name # n => \E i \in DOMAIN t : t[i] = f[j]
    BY <1>1, <2>2 DEF Leaves
  <2>6. ASSUME Distinct(f) PROVE Distinct(t)
    <3>1. Distinct(s)
      BY <2>6 DEF Leaves
    <3>2. \A i \in DOMAIN t : t[i].vip \in Pins
      BY <1>2, <2>4, <2>6 DEF Distinct
    <3>3. \A i \in DOMAIN s : s[i].vip # f[k].vip /\ s[i].name # f[k].name
      BY <1>2, <2>3, <2>6 DEF Distinct
    <3>4. ASSUME NEW i \in DOMAIN t, NEW j \in DOMAIN t,
                 t[i].vip = t[j].vip \/ t[i].name = t[j].name
          PROVE  i = j
      BY <2>2, <3>1, <3>3, <3>4 DEF Distinct
    <3> QED
      BY <3>2, <3>4 DEF Distinct
  <2>7. Leaves(f, n, k, t)
    BY <2>2, <2>4, <2>5, <2>6 DEF Leaves
  <2> QED
    BY <1>4, <2>7 DEF t
<1> QED
  BY <1>3, <1>4

LEMMA WithoutLeaves ==
    ASSUME NEW f \in Seq(Sections), NEW name
    PROVE  Leaves(f, name, Len(f), Without(f, name))
<1> DEFINE n == Len(f)
           V == Seq(Sections)
           Left(k, s) == IF f[k].name = name THEN s ELSE Append(s, f[k])
           step == [k \in 1..n |-> [s \in V |-> Left(k, s)]]
           Body(u) == [k \in 0..n |-> IF k = 0 THEN <<>>
                                      ELSE IF f[k].name = name THEN u[k - 1]
                                           ELSE Append(u[k - 1], f[k])]
           kept == CHOOSE u : u = Body(u)
<1>1. n \in Nat /\ <<>> \in V
  OBVIOUS
<1>2. \A k \in 1..n, s \in V : Left(k, s) \in V
  OBVIOUS
<1>3. step \in [1..n -> [V -> V]]
  <2> HIDE DEF Left, V
  <2> QED
    BY <1>2
<1>4. PICK h : Solves(h, n, V, <<>>, step)
  <2>1. Recursion(n, V, <<>>, step)
    BY <1>1, <1>3 DEF Recursion
  <2> HIDE DEF step, V, n
  <2> QED
    BY <2>1, RecursionExists
<1>5. ASSUME NEW k \in 1..n PROVE h[k] = Left(k, h[k - 1])
  <2>1. h[k - 1] \in V
    BY <1>1, <1>4 DEF Solves
  <2>2. step[k][h[k - 1]] = Left(k, h[k - 1])
    <3> HIDE DEF Left, V
    <3> QED
      BY <2>1
  <2> QED
    BY <1>4, <2>2 DEF Solves
<1>6. h = Body(h)
  <2>1. \A k \in 0..n : k = 0 \/ k \in 1..n
    BY <1>1
  <2>2. \A k \in 0..n : h[k] = Body(h)[k]
    BY <1>4, <1>5, <2>1 DEF Solves
  <2>3. h \in [0..n -> V]
    BY <1>4 DEF Solves
  <2> QED
    BY <2>2, <2>3
<1>7. kept = Body(kept)
  <2>1. \E u : u = Body(u)
    BY <1>6
  <2> HIDE DEF Body
  <2> QED
    BY <2>1
<1>8. Without(f, name) = kept[n]
  BY Zenon DEF Without
<1> HIDE DEF kept
<1>9. /\ kept[0] = <<>>
      /\ \A k \in 1..n : kept[k] = Left(k, kept[k - 1])
  <2>1. 0 \in 0..n /\ \A k \in 1..n : k \in 0..n /\ k # 0
    BY <1>1
  <2> QED
    BY <1>7, <2>1
<1> DEFINE S == {k \in 0..n : Leaves(f, name, k, kept[k])}
<1>10. 0 \in S
  <2>1. 0 \in 0..n /\ 1..0 = {}
    BY <1>1
  <2>2. kept[0] \in Seq(Sections) /\ DOMAIN kept[0] = {}
    BY <1>9
  <2>3. Leaves(f, name, 0, kept[0])
    BY <2>1, <2>2 DEF Leaves, Distinct
  <2> QED
    BY <2>1, <2>3
<1>11. ASSUME NEW k \in 1..n, k - 1 \in S PROVE k \in S
  <2>1. Leaves(f, name, k - 1, kept[k - 1])
    BY <1>11
  <2>2. Leaves(f, name, k, Left(k, kept[k - 1]))
    BY <2>1, LeavesNext
  <2> QED
    BY <1>9, <2>2
<1>12. n \in S
  <2> HIDE DEF S, n
  <2>1. \A k \in 0..n : k \in S
    BY <1>1, <1>10, <1>11, UpTo
  <2> QED
    BY <1>1, <2>1
<1> QED
  BY <1>8, <1>12

----------------------------------------------------------------------------
(* Types. *)

Active == {c \in Clis : cli[c] \in {"planned", "writing"}}

\* An invocation that is about to write knows what.
PlanLive == \A c \in Active : plan[c] \in Plans

TypeInv == TypeOK /\ PlanLive

LEMMA InitTypeInv == ASSUME FakeIpsAssumption, Init PROVE TypeInv
<1>1. 0 \in 0..MaxEdits
  BY DEF FakeIpsAssumption
<1>2. file \in Seq(Sections) /\ routes \subseteq Names \X Pins
  BY DEF Init
<1>3. TypeOK
  BY <1>1, <1>2 DEF Init, TypeOK
<1> QED
  BY <1>3 DEF Init, TypeInv, PlanLive, Active

\* What an action on one invocation's state keeps.
LEMMA PlannedTypes ==
    ASSUME TypeInv, NEW c \in Clis, NEW p \in Plans,
           plan' = [plan EXCEPT ![c] = p], cli' = [cli EXCEPT ![c] = "planned"],
           UNCHANGED <<file, forwards, torn, routes, edits, told>>
    PROVE  TypeInv'
<1>1. plan' \in [Clis -> Plans \cup {NoPlan}] /\ plan'[c] = p
  BY DEF TypeInv, TypeOK
<1>2. \A d \in Clis \ {c} : plan'[d] = plan[d] /\ cli'[d] = cli[d]
  BY DEF TypeInv, TypeOK
<1>3. TypeOK'
  BY <1>1 DEF TypeInv, TypeOK
<1>4. PlanLive'
  BY <1>1, <1>2 DEF TypeInv, PlanLive, Active
<1> QED
  BY <1>3, <1>4 DEF TypeInv

LEMMA NewSection ==
    ASSUME TypeInv, NEW n \in Names, NEW h \in Addrs
    PROVE  [file |-> Append(file, [name |-> n, vip |-> h]),
            forwards |-> forwards, name |-> n, vip |-> h] \in Plans
<1>1. [name |-> n, vip |-> h] \in Sections
  BY DEF Sections, Pins
<1>2. file \in Seq(Sections) /\ forwards \subseteq Names
  BY DEF TypeInv, TypeOK
<1>3. Append(file, [name |-> n, vip |-> h]) \in Seq(Sections)
  BY <1>1, <1>2
<1> QED
  BY <1>2, <1>3 DEF Plans

LEMMA LeftSections ==
    ASSUME TypeInv, NEW n \in Names
    PROVE  [file |-> Without(file, n), forwards |-> forwards, name |-> n, vip |-> None] \in Plans
<1>1. file \in Seq(Sections) /\ forwards \subseteq Names
  BY DEF TypeInv, TypeOK
<1>2. Without(file, n) \in Seq(Sections)
  BY <1>1, WithoutLeaves DEF Leaves
<1> QED
  BY <1>1, <1>2 DEF Plans

LEMMA CommandTypes ==
    ASSUME FakeIpsAssumption, TypeInv, NEW c \in Clis, NEW n \in Names,
           AddFailed(c, n) \/ AddPlanned(c, n) \/ RemoveFailed(c, n) \/ RemovePlanned(c, n)
    PROVE  TypeInv'
<1>1. CASE AddFailed(c, n) \/ RemoveFailed(c, n)
  BY <1>1 DEF AddFailed, RemoveFailed, TypeInv, TypeOK, PlanLive, Active
<1>2. CASE AddPlanned(c, n)
  <2>1. PICK h \in Assigned(Pinned(file)) :
          plan' = [plan EXCEPT ![c] =
                     [file |-> Append(file, [name |-> n, vip |-> h]),
                      forwards |-> forwards, name |-> n, vip |-> h]]
    BY <1>2 DEF AddPlanned
  <2>2. h \in Addrs
    BY AssignsLeast, HostNumbers
  <2>3. [file |-> Append(file, [name |-> n, vip |-> h]),
        forwards |-> forwards, name |-> n, vip |-> h] \in Plans
    BY <2>2, NewSection
  <2> QED
    BY <1>2, <2>1, <2>3, PlannedTypes DEF AddPlanned
<1>3. CASE RemovePlanned(c, n)
  <2>1. [file |-> Without(file, n), forwards |-> forwards, name |-> n, vip |-> None] \in Plans
    BY LeftSections
  <2> QED
    BY <1>3, <2>1, PlannedTypes DEF RemovePlanned
<1> QED
  BY <1>1, <1>2, <1>3

\* What a part of a file parses to are sections, at most the last without its
\* address.
LEMMA ReadableSections ==
    ASSUME NEW f \in Seq(Sections), NEW g \in Readable(f)
    PROVE  g \in Seq(Sections)
<1>1. \A k \in 0..Len(f) : SubSeq(f, 1, k) \in Seq(Sections)
  OBVIOUS
<1>2. ASSUME NEW k \in 1..Len(f), g = [SubSeq(f, 1, k) EXCEPT ![k].vip = Absent]
      PROVE  g \in Seq(Sections)
  <2> DEFINE s == SubSeq(f, 1, k)
  <2>1. s \in Seq(Sections) /\ Len(s) = k /\ k \in Nat
    OBVIOUS
  <2>2. [s[k] EXCEPT !.vip = Absent] \in Sections
    <3> HIDE DEF s
    <3>1. s[k] \in Sections
      BY <2>1
    <3> QED
      BY <3>1 DEF Sections
  <2>3. g = [s EXCEPT ![k] = [s[k] EXCEPT !.vip = Absent]]
    BY <1>2
  <2> HIDE DEF s
  <2> QED
    BY <2>1, <2>2, <2>3
<1> QED
  BY <1>1, <1>2 DEF Readable

LEMMA WriteTypes ==
    ASSUME TypeInv, NEW c \in Clis, Truncate(c) \/ Fill(c) \/ Cut(c) \/ Abort(c)
    PROVE  TypeInv'
<1>1. CASE Truncate(c) \/ Abort(c)
  BY <1>1 DEF Truncate, Cut, Abort, TypeInv, TypeOK, PlanLive, Active
<1>2. CASE Fill(c)
  <2>1. plan[c] \in Plans
    BY <1>2 DEF Fill, TypeInv, PlanLive, Active
  <2>2. /\ plan[c].file \in Seq(Sections) /\ plan[c].name \in Names
        /\ plan[c].forwards \subseteq Names /\ plan[c].vip \in Addrs \cup {None}
    BY <2>1 DEF Plans
  <2> QED
    BY <1>2, <2>2 DEF Fill, TypeInv, TypeOK, PlanLive, Active
<1>3. CASE Cut(c)
  <2>1. plan[c] \in Plans
    BY <1>3 DEF Cut, TypeInv, PlanLive, Active
  <2>2. plan[c].file \in Seq(Sections) /\ plan[c].forwards \subseteq Names
    BY <2>1 DEF Plans
  <2>3. file' \in Seq(Sections)
    BY <1>3, <2>2, ReadableSections DEF Cut
  <2>4. forwards' \subseteq Names
    BY <1>3, <2>2 DEF Cut
  <2>5. told' \in [Names -> Addrs \cup {None}]
    BY <1>3 DEF Cut, TypeInv, TypeOK
  <2>6. /\ torn' = FALSE /\ UNCHANGED <<routes, edits>>
        /\ cli' = [cli EXCEPT ![c] = "failed"] /\ plan' = [plan EXCEPT ![c] = NoPlan]
    BY <1>3 DEF Cut
  <2> QED
    BY <2>3, <2>4, <2>5, <2>6 DEF TypeInv, TypeOK, PlanLive, Active
<1> QED
  BY <1>1, <1>2, <1>3

LEMMA OperatorTypes ==
    ASSUME FakeIpsAssumption, TypeInv,
           \/ \E s \in Sections : EditServer(s)
           \/ \E n \in Names : EditForward(n)
           \/ Up \/ Down
    PROVE  TypeInv'
<1>1. ASSUME NEW s \in Sections, EditServer(s) PROVE TypeInv'
  BY <1>1 DEF EditServer, TypeInv, TypeOK, PlanLive, Active, FakeIpsAssumption
<1>2. ASSUME NEW n \in Names, EditForward(n) PROVE TypeInv'
  BY <1>2 DEF EditForward, TypeInv, TypeOK, PlanLive, Active, FakeIpsAssumption
<1>3. CASE Up
  <2>1. Table(file) \subseteq Names \X Pins
    BY <1>3, TableIsSound DEF Up, TypeInv, TypeOK
  <2> QED
    BY <1>3, <2>1 DEF Up, TypeInv, TypeOK, PlanLive, Active
<1>4. CASE Down
  BY <1>4 DEF Down, TypeInv, TypeOK, PlanLive, Active
<1> QED
  BY <1>1, <1>2, <1>3, <1>4

LEMMA NextTypes == ASSUME FakeIpsAssumption, TypeInv, [Next]_vars PROVE TypeInv'
<1>1. CASE UNCHANGED vars
  BY <1>1 DEF vars, TypeInv, TypeOK, PlanLive, Active
<1>2. CASE Next
  BY <1>2, CommandTypes, WriteTypes, OperatorTypes DEF Next
<1> QED
  BY <1>1, <1>2

LEMMA TypeInvariant == ASSUME FakeIpsAssumption PROVE Spec => []TypeInv
BY InitTypeInv, NextTypes, PTL DEF Spec

\* Every file, plan and table the commands, the operator and the daemon make
\* is of its type: what add-server assigns and prints is a host of the TUN
\* subnet, whatever addresses the operator has pinned.
THEOREM ConfigTypes == ASSUME FakeIpsAssumption PROVE Spec => []TypeOK
<1>1. TypeInv => TypeOK
  BY DEF TypeInv
<1> QED
  BY TypeInvariant, <1>1, PTL

\* resolve_virtual_ips gives the k-th section without an address the k-th host
\* that no section pins, in every file, hand-written or not, on every subnet.
THEOREM AssignmentIsSequential ==
    ASSUME FakeIpsAssumption PROVE Spec => []SequentialAssignment
<1>1. ASSUME TypeInv PROVE SequentialAssignment
  <2> SUFFICES ASSUME Resolves(file), NEW i \in DOMAIN file, AutoAt(file, i)
               PROVE  /\ Resolved(file)[i] \in Free(file)
                      /\ Cardinality({g \in Free(file) : g < Resolved(file)[i]}) =
                         Cardinality(AutosUpTo(file, i - 1))
    BY DEF SequentialAssignment, Free, AutosUpTo
  <2> QED
    BY <1>1, Sequential DEF TypeInv, TypeOK
<1> QED
  BY TypeInvariant, <1>1, PTL

\* The daemon's routing table never has one address for two servers: with the
\* map from address to pool of tunmode.rs, no server takes another's place.
THEOREM RoutesAreDistinct ==
    ASSUME FakeIpsAssumption PROVE Spec => []RoutesDistinct
<1>1. Init => RoutesDistinct
  BY DEF Init, RoutesDistinct
<1>2. ASSUME TypeInv, RoutesDistinct, [Next]_vars PROVE RoutesDistinct'
  <2>1. CASE Up
    <3>1. \A p, q \in Table(file) : p[1] = q[1] <=> p[2] = q[2]
      BY <1>2, <2>1, TableIsSound DEF Up, TypeInv, TypeOK
    <3> QED
      BY <2>1, <3>1 DEF Up, RoutesDistinct
  <2>2. CASE Down
    BY <2>2 DEF Down, RoutesDistinct
  <2>3. CASE UNCHANGED routes
    BY <1>2, <2>3 DEF RoutesDistinct
  <2> QED
    BY <1>2, <2>1, <2>2, <2>3 DEF Next, vars, AddFailed, AddPlanned, RemoveFailed,
       RemovePlanned, Truncate, Fill, Cut, Abort, EditServer, EditForward
<1> QED
  BY TypeInvariant, <1>1, <1>2, PTL DEF Spec

----------------------------------------------------------------------------
(* One command at a time: what it is about to write has every address that *)
(* was printed, and no address or name twice unless the file has.          *)

Written(f, t) == \A n \in Names : t[n] # None => Has(f, n, t[n])

PlanKeeps(p, f, t) ==
    /\ p.vip # None => Has(p.file, p.name, p.vip)
    /\ \A n \in Names \ {p.name} : t[n] # None => Has(p.file, n, t[n])
    /\ Distinct(f) => Distinct(p.file)

OneWriter == \A c, d \in Active : c = d

KeepInv ==
    /\ OneWriter
    /\ Written(file, told)
    /\ \A c \in Active : PlanKeeps(plan[c], file, told)

LEMMA AppendFacts ==
    ASSUME NEW f \in Seq(Sections), NEW s \in Sections
    PROVE  /\ Append(f, s) \in Seq(Sections)
           /\ Len(f) + 1 \in DOMAIN Append(f, s) /\ Append(f, s)[Len(f) + 1] = s
           /\ \A i \in DOMAIN f : i \in DOMAIN Append(f, s) /\ Append(f, s)[i] = f[i]
           /\ \A i \in DOMAIN Append(f, s) : i \in DOMAIN f \/ i = Len(f) + 1
OBVIOUS

\* The operator's sections take nothing away, and only spoil a file.
LEMMA AppendKeeps ==
    ASSUME NEW f \in Seq(Sections), NEW s \in Sections
    PROVE  /\ \A n, h : Has(f, n, h) => Has(Append(f, s), n, h)
           /\ Has(Append(f, s), s.name, s.vip)
           /\ Distinct(Append(f, s)) => Distinct(f)
<1> DEFINE g == Append(f, s)
<1>1. /\ Len(f) + 1 \in DOMAIN g /\ g[Len(f) + 1] = s
      /\ \A i \in DOMAIN f : i \in DOMAIN g /\ g[i] = f[i]
  BY AppendFacts
<1>2. s = [name |-> s.name, vip |-> s.vip]
  BY DEF Sections
<1> HIDE DEF g
<1>3. \A n, h : Has(f, n, h) => Has(g, n, h)
  BY <1>1 DEF Has
<1>4. Has(g, s.name, s.vip)
  BY <1>1, <1>2 DEF Has
<1>5. Distinct(g) => Distinct(f)
  BY <1>1 DEF Distinct
<1> QED
  BY <1>3, <1>4, <1>5 DEF g

\* add-server takes a name and an address that no section has.
LEMMA AddKeepsDistinct ==
    ASSUME FakeIpsAssumption, NEW f \in Seq(Sections), Distinct(f),
           NEW n \in Names, n \notin NamesIn(f), NEW h \in Assigned(Pinned(f))
    PROVE  Distinct(Append(f, [name |-> n, vip |-> h]))
<1> DEFINE s == [name |-> n, vip |-> h]
           g == Append(f, s)
<1>1. h \in Pins /\ h \notin Pinned(f)
  BY AssignsLeast, HostNumbers
<1>2. s \in Sections /\ s.name = n /\ s.vip = h
  BY <1>1 DEF Sections
<1>3. \A i \in DOMAIN f : f[i].name # n
  BY DEF NamesIn
<1>4. \A i \in DOMAIN f : f[i].vip # h
  BY <1>1, HostNumbers DEF Distinct, Pinned
<1>5. /\ g[Len(f) + 1] = s
      /\ \A i \in DOMAIN f : g[i] = f[i]
      /\ \A i \in DOMAIN g : i \in DOMAIN f \/ i = Len(f) + 1
  BY <1>2, AppendFacts
<1> HIDE DEF g, s
<1>6. \A i \in DOMAIN g : g[i].vip \in Pins
  BY <1>1, <1>2, <1>5 DEF Distinct
<1>7. ASSUME NEW i \in DOMAIN g, NEW j \in DOMAIN g,
             g[i].vip = g[j].vip \/ g[i].name = g[j].name
      PROVE  i = j
  BY <1>2, <1>3, <1>4, <1>5, <1>7 DEF Distinct
<1>8. Distinct(g)
  BY <1>6, <1>7 DEF Distinct
<1> QED
  BY <1>8 DEF g, s

LEMMA WithoutKeeps ==
    ASSUME NEW f \in Seq(Sections), NEW name
    PROVE  /\ \A n, h : n # name /\ Has(f, n, h) => Has(Without(f, name), n, h)
           /\ Distinct(f) => Distinct(Without(f, name))
<1> DEFINE g == Without(f, name)
<1>1. Leaves(f, name, Len(f), g)
  BY WithoutLeaves
<1> HIDE DEF g
<1>2. ASSUME NEW n, NEW h, n # name, Has(f, n, h)
      PROVE  Has(g, n, h)
  <2>1. PICK j \in 1..Len(f) : f[j] = [name |-> n, vip |-> h]
    BY <1>2 DEF Has
  <2>2. f[j].name # name
    BY <1>2, <2>1
  <2>3. PICK i \in DOMAIN g : g[i] = f[j]
    BY <1>1, <2>2 DEF Leaves
  <2> QED
    BY <2>1, <2>3 DEF Has
<1>3. Distinct(f) => Distinct(g)
  BY <1>1 DEF Leaves
<1> QED
  BY <1>2, <1>3 DEF g

\* With one command at a time, one that starts is alone.
OneTerminal == \A c, d \in Clis : c = d

LEMMA StartsAlone ==
    ASSUME OneTerminal, NEW c \in Clis, CanStart(c)
    PROVE  Active = {}
BY DEF OneTerminal, CanStart, Active

LEMMA PlanStarts ==
    ASSUME FakeIpsAssumption, OneTerminal, TypeInv, KeepInv, NEW c \in Clis, NEW p,
           CanStart(c), PlanKeeps(p, file, told),
           plan' = [plan EXCEPT ![c] = p], cli' = [cli EXCEPT ![c] = "planned"],
           UNCHANGED <<file, told>>
    PROVE  KeepInv'
<1>1. Active = {}
  BY StartsAlone
<1>2. Active' = {c} /\ plan'[c] = p
  BY <1>1 DEF Active, TypeInv, TypeOK
<1>3. file' = file /\ told' = told
  OBVIOUS
<1>4. PlanKeeps(plan'[c], file', told')
  BY <1>2, <1>3
<1>5. Written(file', told')
  BY <1>3 DEF KeepInv
<1> QED
  BY <1>2, <1>4, <1>5 DEF KeepInv, OneWriter

LEMMA CommandKeeps ==
    ASSUME FakeIpsAssumption, OneTerminal, TypeInv, KeepInv,
           NEW c \in Clis, NEW n \in Names,
           AddFailed(c, n) \/ AddPlanned(c, n) \/ RemoveFailed(c, n) \/ RemovePlanned(c, n)
    PROVE  KeepInv'
<1>1. file \in Seq(Sections)
  BY DEF TypeInv, TypeOK
<1>2. CASE AddFailed(c, n) \/ RemoveFailed(c, n)
  <2>1. Active' = Active /\ UNCHANGED <<file, plan, told>>
    BY <1>2 DEF AddFailed, RemoveFailed, CanStart, Active, TypeInv, TypeOK
  <2> QED
    BY <2>1 DEF KeepInv, OneWriter
<1>3. CASE AddPlanned(c, n)
  <2>1. PICK h \in Assigned(Pinned(file)) :
          plan' = [plan EXCEPT ![c] =
                     [file |-> Append(file, [name |-> n, vip |-> h]),
                      forwards |-> forwards, name |-> n, vip |-> h]]
    BY <1>3 DEF AddPlanned
  <2> DEFINE s == [name |-> n, vip |-> h]
             p == [file |-> Append(file, s), forwards |-> forwards, name |-> n, vip |-> h]
  <2>2. s \in Sections /\ s.name = n /\ s.vip = h
    BY AssignsLeast, HostNumbers DEF Sections
  <2>3. n \notin NamesIn(file)
    BY <1>3 DEF AddPlanned
  <2>4. Distinct(file) => Distinct(Append(file, s))
    BY <1>1, <2>3, AddKeepsDistinct
  <2>5. p.file = Append(file, s) /\ p.name = n /\ p.vip = h
    OBVIOUS
  <2> HIDE DEF s, p
  <2>6. Has(Append(file, s), n, h)
    BY <1>1, <2>2, AppendKeeps
  <2>7. \A m \in Names : told[m] # None => Has(Append(file, s), m, told[m])
    BY <1>1, <2>2, AppendKeeps DEF KeepInv, Written
  <2>8. PlanKeeps(p, file, told)
    BY <2>4, <2>5, <2>6, <2>7 DEF PlanKeeps
  <2>9. plan' = [plan EXCEPT ![c] = p]
    BY <2>1 DEF p, s
  <2> QED
    BY <1>3, <2>8, <2>9, PlanStarts DEF AddPlanned
<1>4. CASE RemovePlanned(c, n)
  <2> DEFINE p == [file |-> Without(file, n), forwards |-> forwards, name |-> n, vip |-> None]
  <2>1. p.file = Without(file, n) /\ p.name = n /\ p.vip = None
    OBVIOUS
  <2>2. plan' = [plan EXCEPT ![c] = p]
    BY <1>4 DEF RemovePlanned
  <2> HIDE DEF p
  <2>3. \A m \in Names \ {n} : told[m] # None => Has(Without(file, n), m, told[m])
    BY <1>1, WithoutKeeps DEF KeepInv, Written
  <2>4. Distinct(file) => Distinct(Without(file, n))
    BY <1>1, WithoutKeeps
  <2>5. PlanKeeps(p, file, told)
    BY <2>1, <2>3, <2>4 DEF PlanKeeps
  <2> QED
    BY <1>4, <2>2, <2>5, PlanStarts DEF RemovePlanned
<1> QED
  BY <1>2, <1>3, <1>4

LEMMA WriteKeeps ==
    ASSUME TypeInv, KeepInv, NEW c \in Clis,
           Truncate(c) \/ Fill(c) \/ Cut(c) \/ Abort(c)
    PROVE  KeepInv'
<1>1. CASE Truncate(c)
  <2>1. Active' = Active /\ UNCHANGED <<file, plan, told>>
    BY <1>1 DEF Truncate, Active, TypeInv, TypeOK
  <2> QED
    BY <2>1 DEF KeepInv, OneWriter
<1>2. CASE Fill(c)
  <2>1. c \in Active
    BY <1>2 DEF Fill, Active
  <2>2. Active' = {}
    BY <1>2, <2>1 DEF Fill, Active, KeepInv, OneWriter, TypeInv, TypeOK
  <2> DEFINE p == plan[c]
  <2>3. PlanKeeps(p, file, told)
    BY <2>1 DEF KeepInv
  <2>4. file' = p.file /\ told' = [told EXCEPT ![p.name] = p.vip]
    BY <1>2 DEF Fill
  <2> HIDE DEF p
  <2>5. ASSUME NEW n \in Names, told'[n] # None PROVE Has(p.file, n, told'[n])
    <3>1. CASE n = p.name
      BY <2>3, <2>4, <2>5, <3>1 DEF PlanKeeps, TypeInv, TypeOK
    <3>2. CASE n # p.name
      BY <2>3, <2>4, <2>5, <3>2 DEF PlanKeeps, TypeInv, TypeOK
    <3> QED
      BY <3>1, <3>2
  <2>6. Written(file', told')
    BY <2>4, <2>5 DEF Written
  <2> QED
    BY <2>2, <2>6 DEF KeepInv, OneWriter
<1>3. CASE Abort(c)
  <2>1. /\ Active' \subseteq Active /\ UNCHANGED <<file, told>>
        /\ \A d \in Active' : plan'[d] = plan[d]
    BY <1>3 DEF Abort, Active, TypeInv, TypeOK
  <2>2. Written(file', told')
    BY <2>1 DEF KeepInv
  <2>3. ASSUME NEW d \in Active' PROVE PlanKeeps(plan'[d], file', told')
    <3>1. plan'[d] = plan[d] /\ file' = file /\ told' = told
      BY <2>1
    <3>2. PlanKeeps(plan[d], file, told)
      BY <2>1 DEF KeepInv
    <3> QED
      BY <3>1, <3>2
  <2> QED
    BY <2>1, <2>2, <2>3 DEF KeepInv, OneWriter
<1>4. CASE Cut(c)
  <2>1. c \in Active
    BY <1>4 DEF Cut, Active
  <2>2. Active' = {}
    BY <1>4, <2>1 DEF Cut, Active, KeepInv, OneWriter, TypeInv, TypeOK
  <2>3. told' = [n \in Names |-> IF Has(file', n, told[n]) THEN told[n] ELSE None]
    BY <1>4 DEF Cut
  <2>4. Written(file', told')
    BY <2>3 DEF Written
  <2> QED
    BY <2>2, <2>4 DEF KeepInv, OneWriter
<1> QED
  BY <1>1, <1>2, <1>3, <1>4

LEMMA OperatorKeeps ==
    ASSUME TypeInv, KeepInv,
           \/ \E s \in Sections : EditServer(s)
           \/ \E n \in Names : EditForward(n)
           \/ Up \/ Down
           \/ UNCHANGED vars
    PROVE  KeepInv'
<1>1. ASSUME NEW s \in Sections, EditServer(s) PROVE KeepInv'
  <2>1. file' = Append(file, s) /\ UNCHANGED <<plan, told, cli>> /\ file \in Seq(Sections)
    BY <1>1 DEF EditServer, TypeInv, TypeOK
  <2>2. /\ \A n, h : Has(file, n, h) => Has(file', n, h)
        /\ Distinct(file') => Distinct(file)
    BY <2>1, AppendKeeps
  <2>3. Written(file', told')
    BY <2>1, <2>2 DEF KeepInv, Written
  <2>4. ASSUME NEW c \in Active PROVE PlanKeeps(plan[c], file', told)
    <3>1. PlanKeeps(plan[c], file, told)
      BY DEF KeepInv
    <3> QED
      BY <2>2, <3>1 DEF PlanKeeps
  <2>5. Active' = Active /\ plan' = plan /\ told' = told
    BY <2>1 DEF Active
  <2> QED
    BY <2>3, <2>4, <2>5 DEF KeepInv, OneWriter
<1>2. CASE UNCHANGED <<file, plan, told, cli>>
  <2>1. Active' = Active
    BY <1>2 DEF Active
  <2> QED
    BY <1>2, <2>1 DEF KeepInv, OneWriter
<1> QED
  BY <1>1, <1>2 DEF EditForward, Up, Down, vars

LEMMA KeepInvariant ==
    ASSUME FakeIpsAssumption, OneTerminal PROVE Spec => []KeepInv
<1>1. Init => KeepInv
  BY DEF Init, KeepInv, OneWriter, Active, Written
<1>2. ASSUME TypeInv, KeepInv, [Next]_vars PROVE KeepInv'
  BY <1>2, CommandKeeps, WriteKeeps, OperatorKeeps DEF Next
<1> QED
  BY TypeInvariant, <1>1, <1>2, PTL DEF Spec

\* README.md, "a stable fake IP": while commands are run one at a time, the
\* address that add-server printed is the one every load gives that server, as
\* long as it is not removed and no interrupted write loses its section or its
\* pin, whichever other servers come and go and whatever sections the operator
\* adds, even between a command's read and its write.
THEOREM AddressesAreKept ==
    ASSUME FakeIpsAssumption, OneTerminal PROVE Spec => []AddressesKept
<1>1. ASSUME TypeInv, KeepInv PROVE AddressesKept
  <2> SUFFICES ASSUME Loads(file), NEW n \in Names, told[n] # None
               PROVE  <<n, told[n]>> \in Table(file)
    BY DEF AddressesKept
  <2>1. PICK i \in DOMAIN file : file[i] = [name |-> n, vip |-> told[n]]
    BY <1>1 DEF KeepInv, Written, Has
  <2>2. told[n] \in Addrs
    BY <1>1 DEF TypeInv, TypeOK
  <2>3. file[i].name = n /\ file[i].vip = told[n]
    BY <2>1
  <2>4. ~AutoAt(file, i)
    BY <2>2, <2>3, HostNumbers DEF AutoAt
  <2>5. Resolved(file)[i] = told[n]
    BY <2>3, <2>4 DEF Resolved
  <2> QED
    BY <2>3, <2>5 DEF Table
<1> QED
  BY TypeInvariant, KeepInvariant, <1>1, PTL

LEMMA DistinctResolves ==
    ASSUME FakeIpsAssumption, NEW f, Distinct(f)
    PROVE  Resolves(f) /\ \A i, j \in DOMAIN f : f[i].name = f[j].name => i = j
BY HostNumbers DEF Distinct, Resolves, AutoAt

\* A command run alone on a file that loads leaves a file that loads, whatever
\* sections with an address of their own the operator adds meanwhile.
THEOREM CommandsKeepLoadable ==
    ASSUME FakeIpsAssumption, OneTerminal PROVE Spec => KeepsLoadable
<1> DEFINE Keeps == (/\ \E c \in Clis : Fill(c)
                     /\ Loads(file)
                     /\ \A i \in DOMAIN file : ~AutoAt(file, i)
                     /\ forwards' \subseteq NamesIn(file')) => Loads(file)'
<1>1. ASSUME TypeInv, KeepInv PROVE Keeps
  <2> SUFFICES ASSUME NEW c \in Clis, Fill(c), Loads(file),
                      \A i \in DOMAIN file : ~AutoAt(file, i),
                      forwards' \subseteq NamesIn(file')
               PROVE  Loads(file)'
    OBVIOUS
  <2>1. file \in Seq(Sections)
    BY <1>1 DEF TypeInv, TypeOK
  <2>2. \A i \in DOMAIN file : file[i].vip \in Pins
    BY <2>1, SectionTypes DEF Loads, Resolves, AutoAt
  <2>3. Distinct(file)
    BY <2>2 DEF Distinct, Loads, Resolves
  <2>4. c \in Active /\ file' = plan[c].file
    BY DEF Fill, Active
  <2>5. Distinct(file')
    BY <1>1, <2>3, <2>4 DEF KeepInv, PlanKeeps
  <2> QED
    BY <2>5, DistinctResolves DEF Loads
<1>2. TypeInv /\ KeepInv /\ [Next]_vars => [Keeps]_vars
  BY <1>1
<1>3. KeepsLoadable <=> [][Keeps]_vars
  BY DEF KeepsLoadable
<1> HIDE DEF Keeps
<1> QED
  BY TypeInvariant, KeepInvariant, <1>2, <1>3, PTL DEF Spec

====
