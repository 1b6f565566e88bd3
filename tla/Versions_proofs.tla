--------------------------- MODULE Versions_proofs ---------------------------
(***************************************************************************)
(* What TopologySpec keeps, for any project, any bounds, any requests and   *)
(* any imported lab, one request at a time: no row that a delete looks after *)
(* outlives or changes its device, nothing dangles, and a restore loses      *)
(* neither a version saved by hand nor a login.                              *)
(***************************************************************************)
EXTENDS Versions, FiniteSetTheorems, SequenceTheorems, WellFoundedInduction, TLAPS

----------------------------------------------------------------------------
(* Finite sets ranked by a key: the lowest free names and addresses, the       *)
(* devices copied in the order of their ids, the nodes of a lab.              *)

LEMMA LeastOfNaturals ==
  ASSUME NEW T \in SUBSET Nat, T # {}
  PROVE  \E x \in T : \A y \in T : x <= y
<1>1. \E x \in T : \A y \in T : ~ (<<y, x>> \in OpToRel(<, Nat))
  BY WFMin, NatLessThanWellFounded, Zenon
<1>2. PICK x \in T : \A y \in T : ~ (<<y, x>> \in OpToRel(<, Nat))
  BY <1>1
<1>3. ASSUME NEW y \in T, y < x PROVE FALSE
  <2>1. <<y, x>> \in Nat \X Nat
    OBVIOUS
  <2>2. <<y, x>> \in OpToRel(<, Nat)
    BY <1>3, <2>1, Zenon DEF OpToRel
  <2> QED BY <1>2, <2>2
<1> QED BY <1>3

(* Some finite set without a greatest element would have the fewest elements. *)
LEMMA GreatestOfFinite ==
  ASSUME NEW S \in SUBSET Nat, IsFiniteSet(S), S # {}
  PROVE  \E x \in S : \A y \in S : y <= x
<1> DEFINE Topped(U) == \E x \in U : \A y \in U : y <= x
           Bad == {n \in Nat : \E U \in SUBSET Nat :
                      IsFiniteSet(U) /\ U # {} /\ Cardinality(U) = n /\ ~Topped(U)}
<1> SUFFICES ASSUME ~Topped(S) PROVE FALSE
  OBVIOUS
<1>1. Cardinality(S) \in Bad
  BY FS_CardinalityType
<1>2. PICK n \in Bad : \A m \in Bad : n <= m
  BY <1>1, LeastOfNaturals
<1>3. PICK U \in SUBSET Nat : IsFiniteSet(U) /\ U # {} /\ Cardinality(U) = n /\ ~Topped(U)
  OBVIOUS
<1>4. PICK u \in U : TRUE
  BY <1>3
<1> DEFINE V == U \ {u}
<1>5. IsFiniteSet(V) /\ Cardinality(V) = n - 1 /\ V \in SUBSET Nat /\ n - 1 \in Nat
  <2>1. IsFiniteSet(V) /\ Cardinality(V) = Cardinality(U) - 1
    BY <1>3, <1>4, FS_RemoveElement
  <2>2. Cardinality(V) \in Nat
    BY <2>1, FS_CardinalityType
  <2> QED BY <1>3, <2>1, <2>2
<1>6. CASE V = {}
  <2>1. \A y \in U : y <= u
    BY <1>6
  <2> QED BY <2>1, <1>3
<1>7. CASE V # {}
  <2>1. Topped(V)
    <3>1. n - 1 \notin Bad
      BY <1>2, <1>5
    <3> QED BY <3>1, <1>5, <1>7
  <2>2. PICK x \in V : \A y \in V : y <= x
    BY <2>1
  <2>3. IF u <= x THEN \A y \in U : y <= x ELSE \A y \in U : y <= u
    BY <2>2, <1>3
  <2> QED BY <2>2, <2>3, <1>3
<1> QED BY <1>6, <1>7

(* With different keys every rank is taken by one element. *)
Upto(S, key, x) == {y \in S : key[y] <= key[x]}
Injects(S, key) == \A x, y \in S : key[x] = key[y] => x = y

LEMMA UptoFinite ==
  ASSUME NEW S, IsFiniteSet(S), NEW key \in [S -> Nat], NEW x \in S
  PROVE  /\ IsFiniteSet(Upto(S, key, x)) /\ Cardinality(Upto(S, key, x)) \in 1 .. Cardinality(S)
         /\ Cardinality(S) \in Nat
<1>1. Upto(S, key, x) \in SUBSET S /\ x \in Upto(S, key, x)
  BY DEF Upto
<1>2. IsFiniteSet(Upto(S, key, x)) /\ Cardinality(Upto(S, key, x)) <= Cardinality(S)
  BY <1>1, FS_Subset
<1>3. Cardinality(Upto(S, key, x)) # 0
  BY <1>1, <1>2, FS_EmptySet
<1> QED BY <1>2, <1>3, FS_CardinalityType

LEMMA RanksDiffer ==
  ASSUME NEW S, IsFiniteSet(S), NEW key \in [S -> Nat], Injects(S, key),
         NEW x \in S, NEW y \in S, Cardinality(Upto(S, key, x)) = Cardinality(Upto(S, key, y))
  PROVE  x = y
<1>1. ASSUME NEW u \in S, NEW v \in S, key[u] < key[v],
             Cardinality(Upto(S, key, u)) = Cardinality(Upto(S, key, v))
      PROVE  FALSE
  <2>1. Upto(S, key, u) \in SUBSET Upto(S, key, v) /\ v \in Upto(S, key, v)
    BY <1>1 DEF Upto
  <2>2. v \notin Upto(S, key, u)
    BY <1>1 DEF Upto
  <2>3. IsFiniteSet(Upto(S, key, v))
    BY UptoFinite
  <2>4. Upto(S, key, v) = Upto(S, key, u)
    BY <1>1, <2>1, <2>3, FS_Subset
  <2> QED BY <2>1, <2>2, <2>4
<1>2. key[x] \in Nat /\ key[y] \in Nat
  OBVIOUS
<1>3. key[x] = key[y] => x = y
  BY DEF Injects
<1> QED BY <1>1, <1>2, <1>3

LEMMA RankTaken ==
  ASSUME NEW S, IsFiniteSet(S), NEW key \in [S -> Nat], Injects(S, key),
         NEW k \in 1 .. Cardinality(S)
  PROVE  \E x \in S : Cardinality(Upto(S, key, x)) = k
<1> DEFINE T == {x \in S : Cardinality(Upto(S, key, x)) >= k}
           Image(U) == {key[x] : x \in U}
<1>1. \A U \in SUBSET S : IsFiniteSet(U) /\ Image(U) \in SUBSET Nat
  BY FS_Subset
<1>2. ASSUME NEW U \in SUBSET S, U # {}
      PROVE  \E x \in U : \A y \in U : key[y] <= key[x]
  <2>1. [x \in U |-> key[x]] \in Surjection(U, Image(U))
    BY DEF Surjection
  <2>2. IsFiniteSet(Image(U))
    BY <1>1, <2>1, FS_Surjection
  <2>3. Image(U) # {}
    BY <1>2
  <2>4. PICK m \in Image(U) : \A n \in Image(U) : n <= m
    BY <1>1, <2>2, <2>3, GreatestOfFinite
  <2> QED BY <2>4
<1>3. S # {}
  BY FS_EmptySet
<1>4. T # {}
  <2>1. PICK x \in S : \A y \in S : key[y] <= key[x]
    BY <1>2, <1>3
  <2>2. Upto(S, key, x) = S
    BY <2>1 DEF Upto
  <2>3. Cardinality(Upto(S, key, x)) >= k
    BY <2>2, FS_CardinalityType
  <2> QED BY <2>3
<1>5. PICK m \in Image(T) : \A n \in Image(T) : m <= n
  <2>1. Image(T) \in SUBSET Nat
    BY <1>1
  <2>2. Image(T) # {}
    BY <1>4
  <2> HIDE DEF Image, T
  <2> QED BY <2>1, <2>2, LeastOfNaturals
<1>6. PICK x \in T : key[x] = m
  OBVIOUS
<1>7. \A y \in T : key[x] <= key[y]
  BY <1>5, <1>6
<1> DEFINE B == Upto(S, key, x)
<1>8. IsFiniteSet(B) /\ Cardinality(B) \in Nat /\ Cardinality(B) >= k /\ x \in B
  BY UptoFinite, FS_CardinalityType DEF Upto
<1>9. ASSUME Cardinality(B) > k PROVE FALSE
  <2> DEFINE C == B \ {x}
  <2>1. IsFiniteSet(C) /\ Cardinality(C) = Cardinality(B) - 1 /\ C \in SUBSET S
    BY <1>8, FS_RemoveElement DEF Upto
  <2>2. C # {}
    BY <1>8, <1>9, <2>1, FS_EmptySet
  <2>3. PICK p \in C : \A y \in C : key[y] <= key[p]
    BY <1>2, <2>1, <2>2
  <2>4. p \in S /\ key[p] <= key[x] /\ p # x
    BY <2>3 DEF Upto
  <2>5. key[p] < key[x]
    BY <2>4 DEF Injects
  <2>6. Upto(S, key, p) = C
    <3>1. Upto(S, key, p) \subseteq C
      BY <2>4, <2>5 DEF Upto
    <3>2. C \subseteq Upto(S, key, p)
      BY <2>3, <2>1 DEF Upto
    <3> QED BY <3>1, <3>2
  <2>7. p \in T
    BY <2>1, <2>4, <2>6, <1>8, <1>9
  <2> QED BY <2>4, <2>5, <2>7, <1>7
<1>10. Cardinality(B) = k
  BY <1>8, <1>9
<1> QED BY <1>10

(* Numbers are their own keys. *)
LEMMA LowestTaken ==
  ASSUME NEW S \in SUBSET Nat, IsFiniteSet(S), NEW k \in 1 .. Cardinality(S)
  PROVE  Lowest(S, k) \in S /\ Cardinality({m \in S : m <= Lowest(S, k)}) = k
<1> DEFINE key == [n \in S |-> n]
<1>1. key \in [S -> Nat] /\ Injects(S, key)
  BY DEF Injects
<1>2. \A n \in S : Upto(S, key, n) = {m \in S : m <= n}
  BY DEF Upto
<1>3. PICK x \in S : Cardinality(Upto(S, key, x)) = k
  BY <1>1, RankTaken
<1>4. \E n \in S : Cardinality({m \in S : m <= n}) = k
  BY <1>2, <1>3
<1> QED BY <1>4 DEF Lowest

LEMMA LowestDiffer ==
  ASSUME NEW S \in SUBSET Nat, IsFiniteSet(S),
         NEW i \in 1 .. Cardinality(S), NEW j \in 1 .. Cardinality(S), i # j
  PROVE  Lowest(S, i) # Lowest(S, j)
<1>1. Cardinality({m \in S : m <= Lowest(S, i)}) = i
  BY LowestTaken
<1>2. Cardinality({m \in S : m <= Lowest(S, j)}) = j
  BY LowestTaken
<1> QED BY <1>1, <1>2

LEMMA RankOf ==
  ASSUME NEW S \in SUBSET Nat, IsFiniteSet(S), NEW d \in S
  PROVE  Rank(S, d) \in 1 .. Cardinality(S) /\ Lowest(S, Rank(S, d)) = d
<1> DEFINE key == [n \in S |-> n]
<1>1. key \in [S -> Nat] /\ Injects(S, key)
  BY DEF Injects
<1>2. \A n \in S : Upto(S, key, n) = {m \in S : m <= n}
  BY DEF Upto
<1>3. Rank(S, d) = Cardinality(Upto(S, key, d))
  BY <1>2 DEF Rank
<1>4. Rank(S, d) \in 1 .. Cardinality(S)
  BY <1>1, <1>3, UptoFinite
<1>5. /\ Lowest(S, Rank(S, d)) \in S
      /\ Cardinality({m \in S : m <= Lowest(S, Rank(S, d))}) = Rank(S, d)
  BY <1>4, LowestTaken
<1>6. Cardinality(Upto(S, key, Lowest(S, Rank(S, d)))) = Cardinality(Upto(S, key, d))
  BY <1>2, <1>3, <1>5
<1> QED BY <1>1, <1>4, <1>5, <1>6, RanksDiffer

----------------------------------------------------------------------------
(* The devices of a project: rows of the right kind, no name and no address    *)
(* twice; and the logins, group rows and changes that hang off their ids.      *)

DevicesOK(dev, b) ==
    /\ dev \in [Ids -> DeviceRows \cup {None}]
    /\ \A d \in Ids : dev[d] # None => dev[d].uid \in 1 .. b /\ Consistent(dev[d])
Apart(x, y) == x.name # y.name /\ (x.ip # None => x.ip # y.ip)
OneEach(dev) ==
    \A d, e \in Ids : d # e /\ dev[d] # None /\ dev[e] # None => Apart(dev[d], dev[e])
LoginsOK(dev, log) ==
    /\ log \in [Ids -> 1 .. MaxBorn \cup {Shared, None}]
    /\ \A d \in Ids : log[d] # None => dev[d] # None /\ log[d] \in {Shared, dev[d].uid}
MembersOK(dev, mem) ==
    \A m \in mem : m.dev \in Ids /\ dev[m.dev] # None /\ m.uid = dev[m.dev].uid
ChangesOK(dev, chg) ==
    /\ chg \in [Ids -> ChangeRows \cup {None}]
    /\ \A d \in Ids : chg[d] # None => dev[d] # None /\ chg[d].uid = dev[d].uid

RecordsOK(dev, rec) ==
    \A r \in rec : \/ r.left
                   \/ r.dev \in Ids /\ dev[r.dev] # None /\ r.uid = dev[r.dev].uid

RegistryInv ==
    /\ DevicesOK(device, born) /\ OneEach(device) /\ LoginsOK(device, login)
    /\ MembersOK(device, member) /\ ChangesOK(device, change) /\ RecordsOK(device, record)
    /\ default \in BOOLEAN /\ born \in 0 .. MaxBorn

(* No device that was there is gone or another one. *)
KeepsDevices(dev) == \A d \in Live : dev[d] # None /\ dev[d].uid = device[d].uid

LEMMA RowsStay ==
  ASSUME RegistryInv, NEW dev, KeepsDevices(dev)
  PROVE  MembersOK(dev, member) /\ ChangesOK(dev, change) /\ RecordsOK(dev, record)
BY DEF RegistryInv, KeepsDevices, MembersOK, ChangesOK, RecordsOK, Live

LEMMA LiveIds ==
  ASSUME RegistryInv
  PROVE  /\ LastId \in 0 .. MaxId /\ \A d \in Live : d <= LastId
         /\ IsFiniteSet(Live) /\ Live \in SUBSET Nat /\ Live \subseteq Ids
<1>1. Live \in SUBSET Nat /\ Live \subseteq Ids /\ \A d \in Live : d <= MaxId
  BY InventoryAssumption DEF Live, Ids
<1>2. IsFiniteSet(Live)
  BY <1>1, FS_BoundedSetOfNaturals, InventoryAssumption
<1>3. CASE Live = {}
  BY <1>1, <1>2, <1>3, InventoryAssumption DEF LastId
<1>4. CASE Live # {}
  <2>1. \E m \in Live : \A d \in Live : d <= m
    BY <1>1, <1>2, <1>4, GreatestOfFinite
  <2>2. LastId \in Live /\ \A d \in Live : d <= LastId
    BY <1>4, <2>1 DEF LastId
  <2> QED BY <1>1, <1>2, <2>2, InventoryAssumption
<1> QED BY <1>3, <1>4

(* What a request may create together: each row fits the devices that are      *)
(* there and the others of the batch.                                         *)
GoodBatch(batch) ==
    /\ batch \in Seq(Shapes)
    /\ \A i \in 1 .. Len(batch) : Consistent(batch[i]) /\ Unique(batch[i], {})
    /\ \A i, j \in 1 .. Len(batch) : i # j => Apart(batch[i], batch[j])

LEMMA ShapeGetsUid ==
  ASSUME NEW x \in Shapes, NEW u \in Nat
  PROVE  /\ WithUid(x, u) \in DeviceRows /\ WithUid(x, u) # None
         /\ WithUid(x, u).uid = u /\ Shape(WithUid(x, u)) = x
         /\ WithUid(x, u).name = x.name /\ WithUid(x, u).ip = x.ip
         /\ Managed(WithUid(x, u)) = Managed(x) /\ Deployable(WithUid(x, u)) = Deployable(x)
         /\ Consistent(WithUid(x, u)) = Consistent(x)
<1>1. WithUid(x, u) \in DeviceRows
  BY DEF WithUid, DeviceRows, Shapes
<1>2. Shape(WithUid(x, u)) = x
  BY DEF WithUid, Shape, Shapes
<1> QED
  BY <1>1, <1>2, NoRow DEF WithUid, Managed, Deployable, Consistent

LEMMA NewIdsFree ==
  ASSUME RegistryInv, NEW batch \in Seq(Shapes), Fits(batch), NEW d \in NewIds(batch)
  PROVE  /\ d \in Ids /\ d \notin Live /\ d - LastId \in 1 .. Len(batch)
         /\ born + d - LastId \in 1 .. born + Len(batch)
         /\ born + Len(batch) \in 0 .. MaxBorn
<1>1. Len(batch) \in Nat /\ LastId \in 0 .. MaxId /\ \A e \in Live : e <= LastId
  BY LiveIds, LenProperties
<1>2. d \in LastId + 1 .. LastId + Len(batch) /\ LastId + Len(batch) <= MaxId
      /\ born + Len(batch) <= MaxBorn /\ born \in 0 .. MaxBorn
  BY DEF NewIds, Fits, RegistryInv
<1> QED BY <1>1, <1>2, InventoryAssumption DEF Ids

LEMMA BatchAdded ==
  ASSUME RegistryInv, NEW batch, GoodBatch(batch), Fits(batch), NEW typed \in BOOLEAN
  PROVE  /\ DevicesOK(Added(batch), born + Len(batch)) /\ OneEach(Added(batch))
         /\ LoginsOK(Added(batch), AddedLogin(batch, typed))
         /\ born + Len(batch) \in 0 .. MaxBorn
         /\ \A d \in Live : Added(batch)[d] = device[d] /\ AddedLogin(batch, typed)[d] = login[d]
         /\ \A d \in NewIds(batch) : /\ d \in Ids \ Live /\ Added(batch)[d] # None
                                     /\ d - LastId \in 1 .. Len(batch)
                                     /\ Shape(Added(batch)[d]) = batch[d - LastId]
         /\ \A d \in Ids : Added(batch)[d] # None => d \in Live \cup NewIds(batch)
<1> DEFINE dev == Added(batch)
           log == AddedLogin(batch, typed)
           x(d) == batch[d - LastId]
           u(d) == born + d - LastId
           b == born + Len(batch)
<1>0. batch \in Seq(Shapes) /\ Len(batch) \in Nat
  BY LenProperties DEF GoodBatch
<1>1. ASSUME NEW d \in NewIds(batch)
      PROVE  /\ d \in Ids /\ d \notin Live /\ d - LastId \in 1 .. Len(batch)
             /\ x(d) \in Shapes /\ u(d) \in 1 .. b /\ u(d) \in 1 .. MaxBorn /\ u(d) \in Nat
             /\ Consistent(x(d)) /\ Unique(x(d), {})
  <2>1. /\ d \in Ids /\ d \notin Live /\ d - LastId \in 1 .. Len(batch)
        /\ u(d) \in 1 .. b /\ b \in 0 .. MaxBorn
    BY <1>0, NewIdsFree
  <2>2. x(d) \in Shapes
    BY <1>0, <2>1, ElementOfSeq
  <2> QED BY <2>1, <2>2, InventoryAssumption DEF GoodBatch
<1>2. \A d \in Ids : /\ d \in NewIds(batch) => dev[d] = WithUid(x(d), u(d))
                     /\ d \notin NewIds(batch) => dev[d] = device[d]
  BY DEF Added
<1>3. ASSUME NEW d \in NewIds(batch)
      PROVE  /\ dev[d] \in DeviceRows /\ dev[d] # None /\ dev[d].uid = u(d)
             /\ Shape(dev[d]) = x(d) /\ dev[d].name = x(d).name /\ dev[d].ip = x(d).ip
             /\ Consistent(dev[d])
  BY <1>1, <1>2, ShapeGetsUid
<1>4. /\ \A d \in Ids : device[d] \in DeviceRows \cup {None}
      /\ \A d \in Ids : device[d] # None => device[d].uid \in 1 .. born /\ Consistent(device[d])
      /\ born \in 0 .. MaxBorn /\ MaxBorn \in Nat
  BY InventoryAssumption DEF RegistryInv, DevicesOK
<1>5. b \in 0 .. MaxBorn
  BY <1>0, <1>4 DEF Fits
<1>6. DevicesOK(dev, b)
  <2>1. dev = [d \in Ids |-> dev[d]]
    BY DEF Added
  <2>2. ASSUME NEW d \in Ids
        PROVE  /\ dev[d] \in DeviceRows \cup {None}
               /\ dev[d] # None => dev[d].uid \in 1 .. b /\ Consistent(dev[d])
    BY <1>0, <1>1, <1>2, <1>3, <1>4
  <2> HIDE DEF dev
  <2> QED BY <2>1, <2>2 DEF DevicesOK
<1>7. OneEach(dev)
  <2>1. ASSUME NEW d \in Ids, NEW e \in Ids, d # e, dev[d] # None, dev[e] # None
        PROVE  Apart(dev[d], dev[e])
    <3>1. CASE d \notin NewIds(batch) /\ e \notin NewIds(batch)
      <4>1. dev[d] = device[d] /\ dev[e] = device[e]
        BY <1>2, <3>1
      <4> HIDE DEF dev
      <4> QED BY <2>1, <4>1 DEF RegistryInv, OneEach
    <3>2. CASE d \in NewIds(batch) /\ e \notin NewIds(batch)
      <4>1. e \in Live /\ dev[e] = device[e]
        BY <1>2, <2>1, <3>2 DEF Live
      <4>2. Unique(x(d), {}) /\ dev[d].name = x(d).name /\ dev[d].ip = x(d).ip
        BY <1>1, <1>3, <3>2
      <4> HIDE DEF dev, x
      <4> QED BY <4>1, <4>2 DEF Unique, Apart
    <3>3. CASE d \notin NewIds(batch) /\ e \in NewIds(batch)
      <4>1. d \in Live /\ dev[d] = device[d]
        BY <1>2, <2>1, <3>3 DEF Live
      <4>2. Unique(x(e), {}) /\ dev[e].name = x(e).name /\ dev[e].ip = x(e).ip
        BY <1>1, <1>3, <3>3
      <4> HIDE DEF dev, x
      <4> QED BY <4>1, <4>2 DEF Unique, Apart
    <3>4. CASE d \in NewIds(batch) /\ e \in NewIds(batch)
      <4>1. /\ d - LastId \in 1 .. Len(batch) /\ e - LastId \in 1 .. Len(batch)
            /\ d \in Nat /\ e \in Nat /\ LastId \in Nat
        BY <1>1, <3>4, LiveIds, InventoryAssumption DEF Ids
      <4>2. d - LastId # e - LastId
        BY <2>1, <4>1
      <4>3. Apart(x(d), x(e))
        BY <4>1, <4>2 DEF GoodBatch
      <4>4. /\ dev[d].name = x(d).name /\ dev[d].ip = x(d).ip
            /\ dev[e].name = x(e).name /\ dev[e].ip = x(e).ip
        BY <1>3, <3>4
      <4> HIDE DEF dev, x
      <4> QED BY <4>3, <4>4 DEF Apart
    <3> QED BY <3>1, <3>2, <3>3, <3>4
  <2> HIDE DEF dev
  <2> QED BY <2>1 DEF OneEach
<1>8. \A d \in Ids : /\ d \in NewIds(batch) => log[d] \in {u(d), Shared, None}
                     /\ d \notin NewIds(batch) => log[d] = login[d]
  BY DEF AddedLogin
<1>9. LoginsOK(dev, log)
  <2>1. log = [d \in Ids |-> log[d]]
    BY DEF AddedLogin
  <2>2. ASSUME NEW d \in Ids
        PROVE  /\ log[d] \in 1 .. MaxBorn \cup {Shared, None}
               /\ log[d] # None => dev[d] # None /\ log[d] \in {Shared, dev[d].uid}
    <3>1. CASE d \in NewIds(batch)
      <4>1. /\ log[d] \in {u(d), Shared, None} /\ dev[d] # None /\ dev[d].uid = u(d)
            /\ u(d) \in 1 .. MaxBorn
        BY <1>1, <1>3, <1>8, <3>1
      <4> HIDE DEF dev, log, u
      <4> QED BY <4>1
    <3>2. CASE d \notin NewIds(batch)
      <4>1. log[d] = login[d] /\ dev[d] = device[d]
        BY <1>2, <1>8, <3>2
      <4> HIDE DEF dev, log
      <4> QED BY <4>1 DEF RegistryInv, LoginsOK
    <3> QED BY <3>1, <3>2
  <2> HIDE DEF dev, log
  <2> QED BY <2>1, <2>2 DEF LoginsOK
<1>10. \A d \in Live : d \in Ids /\ d \notin NewIds(batch)
  BY <1>1 DEF Live
<1>11. \A d \in Live : dev[d] = device[d] /\ log[d] = login[d]
  <2> HIDE DEF dev, log
  <2> QED BY <1>2, <1>8, <1>10
<1>12. \A d \in Ids : dev[d] # None => d \in Live \cup NewIds(batch)
  <2> HIDE DEF dev
  <2> QED BY <1>2 DEF Live
<1> HIDE DEF dev, log
<1> QED BY <1>1, <1>3, <1>5, <1>6, <1>7, <1>9, <1>11, <1>12 DEF dev, log

----------------------------------------------------------------------------
(* Requests on single devices. *)

LEMMA RegistryAdds ==
  ASSUME RegistryInv, NEW batch, GoodBatch(batch), NEW typed \in BOOLEAN,
         AddDevices(batch, typed)
  PROVE  RegistryInv' /\ KeepsDevices(device')
<1>1. /\ Fits(batch) /\ device' = Added(batch) /\ login' = AddedLogin(batch, typed)
      /\ born' = born + Len(batch) /\ UNCHANGED <<member, record, change, default>>
  BY DEF AddDevices
<1>2. /\ DevicesOK(device', born') /\ OneEach(device') /\ LoginsOK(device', login')
      /\ born' \in 0 .. MaxBorn
      /\ \A d \in Live : device'[d] = device[d]
  BY <1>1, BatchAdded
<1>3. KeepsDevices(device')
  BY <1>2 DEF KeepsDevices, Live
<1>4. MembersOK(device', member') /\ ChangesOK(device', change') /\ RecordsOK(device', record')
  BY <1>1, <1>3, RowsStay
<1> QED BY <1>1, <1>2, <1>3, <1>4 DEF RegistryInv

LEMMA SingleIsGood ==
  ASSUME NEW x \in Shapes, Consistent(x), Unique(x, {})
  PROVE  GoodBatch(<<x>>)
<1>1. <<x>> \in Seq(Shapes) /\ Len(<<x>>) = 1 /\ <<x>>[1] = x
  OBVIOUS
<1>2. \A i \in 1 .. Len(<<x>>) : i = 1
  BY <1>1
<1> QED BY <1>1, <1>2 DEF GoodBatch

LEMMA CreateKeeps ==
  ASSUME RegistryInv, NEW x \in Shapes, NEW typed \in BOOLEAN, NEW useProject \in BOOLEAN,
         CreateDevice(x, typed, useProject)
  PROVE  RegistryInv' /\ KeepsDevices(device')
<1>1. GoodBatch(<<x>>)
  BY SingleIsGood DEF CreateDevice, WellFormed
<1> QED BY <1>1, RegistryAdds DEF CreateDevice

LEMMA ImportKeeps ==
  ASSUME RegistryInv, NEW batch \in Seq(Shapes), NEW typed \in BOOLEAN,
         ImportCsv(batch, typed)
  PROVE  RegistryInv' /\ KeepsDevices(device')
<1>1. \A i \in 1 .. Len(batch) : Consistent(batch[i]) /\ Unique(batch[i], {})
  BY DEF ImportCsv, WellFormed
<1>2. ASSUME NEW i \in 1 .. Len(batch), NEW j \in 1 .. Len(batch), i # j
      PROVE  Apart(batch[i], batch[j])
  <2>1. i \in Int /\ j \in Int
    OBVIOUS
  <2>2. CASE i < j
    BY <2>2 DEF ImportCsv, Apart
  <2>3. CASE j < i
    BY <2>3 DEF ImportCsv, Apart
  <2> QED BY <1>2, <2>1, <2>2, <2>3
<1>3. GoodBatch(batch)
  BY <1>1, <1>2 DEF GoodBatch
<1> QED BY <1>3, RegistryAdds DEF ImportCsv

(* One device is edited in place: it stays apart from the others. *)
LEMMA EditKeeps ==
  ASSUME RegistryInv, NEW d \in Live, NEW x \in DeviceRows, x.uid = device[d].uid,
         Consistent(x), Unique(x, {d}), device' = [device EXCEPT ![d] = x],
         login' = [login EXCEPT ![d] = login'[d]],
         login'[d] \in {login[d], Shared, x.uid},
         UNCHANGED <<member, record, change, default, born>>
  PROVE  RegistryInv' /\ KeepsDevices(device')
<1>1. /\ d \in Ids /\ device[d] # None /\ x # None
      /\ device \in [Ids -> DeviceRows \cup {None}]
      /\ device[d].uid \in 1 .. born /\ born \in 0 .. MaxBorn /\ MaxBorn \in Nat
  BY NoRow, InventoryAssumption DEF Live, RegistryInv, DevicesOK
<1>2. \A e \in Ids : device'[e] = IF e = d THEN x ELSE device[e]
  BY <1>1
<1>3. KeepsDevices(device')
  BY <1>1, <1>2 DEF KeepsDevices, Live
<1>4. DevicesOK(device', born')
  BY <1>1, <1>2 DEF RegistryInv, DevicesOK
<1>5. OneEach(device')
  <2>1. ASSUME NEW e \in Ids, e # d, device[e] # None
        PROVE  Apart(x, device[e]) /\ Apart(device[e], x)
    BY <2>1 DEF Unique, Live, Apart
  <2>2. \A e, f \in Ids : e # f /\ device[e] # None /\ device[f] # None => Apart(device[e], device[f])
    BY DEF RegistryInv, OneEach
  <2> QED BY <1>1, <1>2, <2>1, <2>2 DEF OneEach
<1>6. LoginsOK(device', login')
  <2>1. \A e \in Ids : login'[e] = IF e = d THEN login'[d] ELSE login[e]
    BY <1>1 DEF RegistryInv, LoginsOK
  <2>2. login'[d] \in 1 .. MaxBorn \cup {Shared, None}
    BY <1>1 DEF RegistryInv, LoginsOK
  <2>3. login' \in [Ids -> 1 .. MaxBorn \cup {Shared, None}]
    BY <2>1, <2>2 DEF RegistryInv, LoginsOK
  <2> QED BY <1>1, <1>2, <2>1, <2>3 DEF RegistryInv, LoginsOK
<1>7. MembersOK(device', member') /\ ChangesOK(device', change') /\ RecordsOK(device', record')
  BY <1>3, RowsStay
<1> QED BY <1>3, <1>4, <1>5, <1>6, <1>7 DEF RegistryInv

LEMMA UpdateKeeps ==
  ASSUME RegistryInv, NEW d \in Ids, NEW x \in Shapes, NEW cred, UpdateDevice(d, x, cred)
  PROVE  RegistryInv' /\ KeepsDevices(device')
<1> DEFINE y == WithUid(x, device[d].uid)
<1>1. d \in Live /\ device[d].uid \in Nat /\ device \in [Ids -> DeviceRows \cup {None}]
      /\ login \in [Ids -> 1 .. MaxBorn \cup {Shared, None}]
  BY DEF UpdateDevice, RegistryInv, DevicesOK, LoginsOK, Live
<1>2. y \in DeviceRows /\ y.uid = device[d].uid /\ Consistent(y) /\ y.name = x.name /\ y.ip = x.ip
  BY <1>1, ShapeGetsUid DEF UpdateDevice, WellFormed
<1>3. Unique(y, {d})
  BY <1>2 DEF UpdateDevice, Unique
<1>4. device' = [device EXCEPT ![d] = y]
  BY DEF UpdateDevice
<1>5. /\ login' = [login EXCEPT ![d] = login'[d]]
      /\ login'[d] \in {login[d], Shared, device[d].uid}
  <2>1. login' = [login EXCEPT ![d] = CASE cred = None -> login[d]
                                       [] cred = "typed" -> device[d].uid
                                       [] OTHER -> Shared]
    BY DEF UpdateDevice
  <2> DEFINE l == CASE cred = None -> login[d]
                    [] cred = "typed" -> device[d].uid
                    [] OTHER -> Shared
  <2>2. l \in {login[d], Shared, device[d].uid}
    BY DEF UpdateDevice
  <2> HIDE DEF l
  <2>3. login' = [login EXCEPT ![d] = l]
    BY <2>1 DEF l
  <2> QED BY <1>1, <2>2, <2>3
<1>6. UNCHANGED <<member, record, change, default, born>>
  BY DEF UpdateDevice
<1> HIDE DEF y
<1> QED BY <1>1, <1>2, <1>3, <1>4, <1>5, <1>6, EditKeeps

LEMMA ProvisionKeeps ==
  ASSUME RegistryInv, NEW d \in Ids, NEW ip \in Ips, NEW typed \in BOOLEAN,
         ProvisionDevice(d, ip, typed)
  PROVE  RegistryInv' /\ KeepsDevices(device')
<1> DEFINE y == [device[d] EXCEPT !.ip = ip, !.planned = FALSE]
<1>1. /\ d \in Live /\ device[d] \in DeviceRows /\ Managed(device[d])
      /\ device \in [Ids -> DeviceRows \cup {None}]
      /\ login \in [Ids -> 1 .. MaxBorn \cup {Shared, None}]
      /\ ip # None
  BY InventoryAssumption DEF ProvisionDevice, RegistryInv, DevicesOK, LoginsOK, Live
<1>2. /\ DOMAIN device[d] = {"name", "type", "role", "kind", "planned", "ip", "uid"}
      /\ y.name = device[d].name /\ y.ip = ip /\ y.uid = device[d].uid /\ y.type = device[d].type
      /\ y.planned = FALSE /\ y \in DeviceRows
  BY <1>1 DEF DeviceRows
<1>3. Consistent(y)
  BY <1>1, <1>2 DEF Consistent, Managed, Deployable
<1>4. Unique(y, {d})
  <2>1. \A e \in Live \ {d} : device[e].ip # ip
    BY DEF ProvisionDevice
  <2>2. \A e \in Live \ {d} : device[e].name # device[d].name
    BY <1>1 DEF RegistryInv, OneEach, Apart, Live
  <2> QED BY <1>2, <2>1, <2>2 DEF Unique
<1>5. device' = [device EXCEPT ![d] = y]
  BY <1>1 DEF ProvisionDevice
<1>6. /\ login' = [login EXCEPT ![d] = login'[d]]
      /\ login'[d] \in {login[d], Shared, device[d].uid}
  BY <1>1 DEF ProvisionDevice
<1>7. UNCHANGED <<member, record, change, default, born>>
  BY DEF ProvisionDevice
<1> HIDE DEF y
<1> QED BY <1>1, <1>2, <1>3, <1>4, <1>5, <1>6, <1>7, EditKeeps

LEMMA DefaultKeeps ==
  ASSUME RegistryInv, NEW scope, NEW blank,
         DropDefault \/ PutDefault(blank) \/ ApplyDefault(scope)
  PROVE  RegistryInv' /\ KeepsDevices(device')
<1>1. /\ UNCHANGED <<device, member, record, change, born>> /\ default' \in BOOLEAN
      /\ login \in [Ids -> 1 .. MaxBorn \cup {Shared, None}]
  BY DEF DropDefault, PutDefault, ApplyDefault, RegistryInv, LoginsOK
<1>2. KeepsDevices(device')
  BY <1>1 DEF KeepsDevices, Live
<1>3. LoginsOK(device, login')
  <2>1. CASE UNCHANGED login
    BY <2>1 DEF RegistryInv
  <2>2. CASE ApplyDefault(scope)
    <3>1. \A d \in Ids : /\ login'[d] \in {login[d], Shared}
                         /\ d \notin Live => login'[d] = login[d]
      BY <2>2 DEF ApplyDefault
    <3>2. login' \in [Ids -> 1 .. MaxBorn \cup {Shared, None}]
      BY <1>1, <2>2, <3>1 DEF ApplyDefault
    <3> QED BY <3>1, <3>2 DEF RegistryInv, LoginsOK, Live
  <2> QED BY <2>1, <2>2 DEF DropDefault, PutDefault
<1>4. /\ DevicesOK(device, born) /\ OneEach(device) /\ MembersOK(device, member)
      /\ ChangesOK(device, change) /\ RecordsOK(device, record) /\ born \in 0 .. MaxBorn
  BY DEF RegistryInv
<1>5. DevicesOK(device', born') /\ OneEach(device') /\ MembersOK(device', member')
      /\ ChangesOK(device', change') /\ LoginsOK(device', login') /\ RecordsOK(device', record')
  BY <1>1, <1>3, <1>4
<1> QED BY <1>1, <1>2, <1>4, <1>5 DEF RegistryInv

LEMMA AttachKeeps ==
  ASSUME RegistryInv, NEW d \in Ids,
         JoinGroup(d) \/ LeaveGroup(d) \/ MakeRecord(d) \/ OpenChange(d) \/ CloseChange(d)
  PROVE  RegistryInv' /\ KeepsDevices(device')
<1>1. UNCHANGED <<device, login, default, born>>
  BY DEF JoinGroup, LeaveGroup, MakeRecord, OpenChange, CloseChange
<1>2. KeepsDevices(device')
  BY <1>1 DEF KeepsDevices, Live
<1>3. MembersOK(device, member')
  <2>1. CASE JoinGroup(d)
    <3>1. member' = member \cup {Row(d)} /\ d \in Live
      BY <2>1 DEF JoinGroup
    <3> QED BY <3>1 DEF RegistryInv, MembersOK, Row, Live
  <2>2. CASE LeaveGroup(d)
    BY <2>2 DEF LeaveGroup, RegistryInv, MembersOK
  <2>3. CASE UNCHANGED member
    BY <2>3 DEF RegistryInv
  <2> QED BY <2>1, <2>2, <2>3 DEF MakeRecord, OpenChange, CloseChange
<1>4. ChangesOK(device, change')
  <2>1. CASE OpenChange(d)
    <3> DEFINE c == [uid |-> device[d].uid, active |-> TRUE]
    <3>1. /\ change' = [change EXCEPT ![d] = c] /\ d \in Live /\ device[d].uid \in Nat
          /\ change \in [Ids -> ChangeRows \cup {None}]
      BY <2>1 DEF OpenChange, RegistryInv, DevicesOK, ChangesOK, Live
    <3>2. c \in ChangeRows /\ c.uid = device[d].uid
      BY <3>1 DEF ChangeRows
    <3> HIDE DEF c
    <3> QED BY <3>1, <3>2 DEF RegistryInv, ChangesOK, Live
  <2>2. CASE CloseChange(d)
    <3> DEFINE c == [change[d] EXCEPT !.active = FALSE]
    <3>1. /\ change' = [change EXCEPT ![d] = c] /\ change[d] # None
          /\ change \in [Ids -> ChangeRows \cup {None}]
      BY <2>2 DEF CloseChange, RegistryInv, ChangesOK
    <3>2. c \in ChangeRows /\ c.uid = change[d].uid
      BY <3>1 DEF ChangeRows
    <3> HIDE DEF c
    <3> QED BY <3>1, <3>2 DEF RegistryInv, ChangesOK
  <2>3. CASE UNCHANGED change
    BY <2>3 DEF RegistryInv
  <2> QED BY <2>1, <2>2, <2>3 DEF JoinGroup, LeaveGroup, MakeRecord
<1>5. DevicesOK(device, born) /\ OneEach(device) /\ LoginsOK(device, login)
  BY DEF RegistryInv
<1>6. DevicesOK(device', born') /\ OneEach(device') /\ LoginsOK(device', login')
      /\ MembersOK(device', member') /\ ChangesOK(device', change')
  BY <1>1, <1>3, <1>4, <1>5
<1>7. RecordsOK(device', record')
  <2>1. CASE MakeRecord(d)
    <3>1. /\ record' = record \cup {[dev |-> d, uid |-> device[d].uid, left |-> FALSE]}
          /\ d \in Live
      BY <2>1 DEF MakeRecord
    <3> QED BY <1>1, <3>1 DEF RegistryInv, RecordsOK, Live
  <2>2. CASE UNCHANGED record
    BY <1>1, <2>2 DEF RegistryInv
  <2> QED BY <2>1, <2>2 DEF JoinGroup, LeaveGroup, OpenChange, CloseChange
<1> QED BY <1>1, <1>2, <1>6, <1>7 DEF RegistryInv

LEMMA DeviceStepKeeps ==
  ASSUME RegistryInv, DeviceStep
  PROVE  RegistryInv' /\ KeepsDevices(device')
<1>1. ASSUME NEW x \in Shapes, NEW typed \in BOOLEAN, NEW useProject \in BOOLEAN,
             CreateDevice(x, typed, useProject)
      PROVE  RegistryInv' /\ KeepsDevices(device')
  BY <1>1, CreateKeeps
<1>2. ASSUME NEW batch \in Seq(Shapes), NEW typed \in BOOLEAN, ImportCsv(batch, typed)
      PROVE  RegistryInv' /\ KeepsDevices(device')
  BY <1>2, ImportKeeps
<1>3. ASSUME NEW d \in Ids, NEW x \in Shapes, NEW cred, UpdateDevice(d, x, cred)
      PROVE  RegistryInv' /\ KeepsDevices(device')
  BY <1>3, UpdateKeeps
<1>4. ASSUME NEW d \in Ids, NEW ip \in Ips, NEW typed \in BOOLEAN, ProvisionDevice(d, ip, typed)
      PROVE  RegistryInv' /\ KeepsDevices(device')
  BY <1>4, ProvisionKeeps
<1>5. ASSUME NEW scope, NEW blank, DropDefault \/ PutDefault(blank) \/ ApplyDefault(scope)
      PROVE  RegistryInv' /\ KeepsDevices(device')
  BY <1>5, DefaultKeeps
<1>6. ASSUME NEW d \in Ids,
             JoinGroup(d) \/ LeaveGroup(d) \/ MakeRecord(d) \/ OpenChange(d) \/ CloseChange(d)
      PROVE  RegistryInv' /\ KeepsDevices(device')
  BY <1>6, AttachKeeps
<1> QED BY <1>1, <1>2, <1>3, <1>4, <1>5, <1>6 DEF DeviceStep

(* Devices are removed with everything that hangs off their ids. *)
LEMMA PurgeKeeps ==
  ASSUME RegistryInv, NEW S, NEW dev, NEW log, NEW b,
         DevicesOK(dev, b), OneEach(dev), LoginsOK(dev, log), KeepsDevices(dev),
         b \in 0 .. MaxBorn, born' = b, UNCHANGED default, PurgeRows(S, dev, log),
         \A r \in record' : r.left \/ (r \in record /\ r.dev \notin S)
  PROVE  RegistryInv' /\ \A d \in Ids \ S : device'[d] = dev[d]
<1>1. /\ device' = [d \in Ids |-> IF d \in S THEN None ELSE dev[d]]
      /\ login' = [d \in Ids |-> IF d \in S THEN None ELSE log[d]]
      /\ member' = {m \in member : m.dev \notin S}
      /\ change' = [d \in Ids |-> IF d \in S THEN None ELSE change[d]]
  BY DEF PurgeRows
<1>2. MembersOK(dev, member) /\ ChangesOK(dev, change) /\ RecordsOK(dev, record)
  BY RowsStay
<1>3. DevicesOK(device', born')
  BY <1>1 DEF DevicesOK
<1>4. OneEach(device')
  BY <1>1 DEF OneEach
<1>5. LoginsOK(device', login')
  BY <1>1 DEF LoginsOK
<1>6. MembersOK(device', member')
  BY <1>1, <1>2 DEF MembersOK
<1>7. ChangesOK(device', change')
  BY <1>1, <1>2 DEF ChangesOK
<1>8. RecordsOK(device', record')
  BY <1>1, <1>2 DEF RecordsOK
<1> QED BY <1>1, <1>3, <1>4, <1>5, <1>6, <1>7, <1>8 DEF RegistryInv

----------------------------------------------------------------------------
(* The drawing: cables and design rows end on devices that are there. *)

Wired(cs, dev) == \A o \in cs : dev[o.a] # None /\ dev[o.b] # None
Drawn(rows, dev) == \A r \in rows : dev[r.dev] # None
DesignOK(dev, cs, vl, ac, sv, su, lo, pl) ==
    /\ cs \subseteq Cables /\ vl \subseteq VlanIds /\ ac \subseteq AccessPorts
    /\ sv \subseteq Svis /\ su \subseteq Subifs /\ lo \subseteq Loopbacks /\ pl \subseteq Plains
    /\ Wired(cs, dev) /\ Drawn(ac, dev) /\ Drawn(sv, dev) /\ Drawn(su, dev)
    /\ Drawn(lo, dev) /\ Drawn(pl, dev)
DrawingInv ==
    /\ DesignOK(device, cable, vlan, access, svi, subif, loop, plain)
    /\ imported \subseteq Messages

(* A restore token is a device that could have been there with its rows. *)
TokenOK(t, b) ==
    /\ t.id \in Ids /\ t.dev \in DeviceRows /\ t.dev.uid \in 1 .. b /\ Consistent(t.dev)
    /\ t.login \in {Shared, t.dev.uid, None}
    /\ t.access \subseteq AccessPorts /\ t.svi \subseteq Svis /\ t.subif \subseteq Subifs
    /\ t.loop \subseteq Loopbacks /\ t.plain \subseteq Plains /\ t.cables \subseteq Cables
BinInv == \A t \in bin : TokenOK(t, born)

LEMMA DesignStays ==
  ASSUME DrawingInv, NEW dev, KeepsDevices(dev)
  PROVE  DesignOK(dev, cable, vlan, access, svi, subif, loop, plain)
<1>1. \A d \in Ids : device[d] # None => dev[d] # None
  BY DEF KeepsDevices, Live
<1>2. Wired(cable, dev)
  BY <1>1 DEF DrawingInv, DesignOK, Wired, Cables
<1>3. Drawn(access, dev) /\ Drawn(svi, dev)
  BY <1>1 DEF DrawingInv, DesignOK, Drawn, AccessPorts, Svis
<1>4. Drawn(subif, dev) /\ Drawn(loop, dev) /\ Drawn(plain, dev)
  BY <1>1 DEF DrawingInv, DesignOK, Drawn, Subifs, Loopbacks, Plains
<1> QED BY <1>2, <1>3, <1>4 DEF DrawingInv, DesignOK

LEMMA BinStays ==
  ASSUME RegistryInv, BinInv, born' \in Nat, born <= born', UNCHANGED bin
  PROVE  BinInv'
BY DEF RegistryInv, BinInv, TokenOK

LEMMA CableStepKeeps ==
  ASSUME RegistryInv, DrawingInv, BinInv, CableStep
  PROVE  RegistryInv' /\ DrawingInv' /\ BinInv'
<1>1. UNCHANGED <<invVars, design, imported, bin>>
  BY DEF CableStep, CreateCable, UpdateCable, DeleteCable
<1>2. cable' \subseteq Cables /\ Wired(cable', device)
  <2>1. cable \subseteq Cables /\ Wired(cable, device)
    BY DEF DrawingInv, DesignOK
  <2>2. CASE \E c \in Cables : CreateCable(c)
    <3>1. PICK c \in Cables : CreateCable(c)
      BY <2>2
    <3>2. cable' = cable \cup {c} /\ device[c.a] # None /\ device[c.b] # None
      BY <3>1 DEF CreateCable, Pair, Live
    <3> QED BY <2>1, <3>1, <3>2 DEF Wired
  <2>3. CASE \E o \in cable : DeleteCable(o)
    BY <2>1, <2>3 DEF DeleteCable, Wired
  <2>4. CASE \E o \in cable : \E c \in Cables : UpdateCable(o, c)
    <3>1. PICK o \in cable, c \in Cables : UpdateCable(o, c)
      BY <2>4
    <3>2. cable' = (cable \ {o}) \cup {c} /\ c.a = o.a /\ c.b \in {o.a, o.b}
      <4>1. cable' = (cable \ {o}) \cup {c} /\ c.a = o.a /\ Ends(o) = Ends(c)
        BY <3>1 DEF UpdateCable
      <4>2. <<c.b, c.pb>> \in Ends(o)
        BY <4>1 DEF Ends
      <4>3. <<c.b, c.pb>> = <<o.a, o.pa>> \/ <<c.b, c.pb>> = <<o.b, o.pb>>
        BY <4>2 DEF Ends
      <4>4. c.b = o.a \/ c.b = o.b
        BY ONLY <4>3
      <4> QED BY <4>1, <4>4
    <3> QED BY <2>1, <3>1, <3>2 DEF Wired
  <2> QED BY <2>2, <2>3, <2>4 DEF CableStep
<1>3. RegistryInv'
  BY <1>1 DEF invVars, RegistryInv
<1>4. DrawingInv'
  BY <1>1, <1>2 DEF invVars, design, DrawingInv, DesignOK
<1>5. BinInv'
  BY <1>1 DEF invVars, BinInv
<1> QED BY <1>3, <1>4, <1>5

LEMMA RowStepKeeps ==
  ASSUME RegistryInv, DrawingInv, BinInv, RowStep
  PROVE  RegistryInv' /\ DrawingInv' /\ BinInv'
<1>1. UNCHANGED <<invVars, cable, imported, bin>>
  BY DEF RowStep, AddVlan, RemoveVlan, AddAccess, AddSvi, AddSubif, AddLoop, AddPlain, RemoveItem
<1> DEFINE Kept(rows, new) == \A r \in new : r \in rows \/ r.dev \in Live
<1>2. /\ vlan' \subseteq VlanIds
      /\ access' \subseteq AccessPorts /\ Kept(access, access')
      /\ svi' \subseteq Svis /\ Kept(svi, svi')
      /\ subif' \subseteq Subifs /\ Kept(subif, subif')
      /\ loop' \subseteq Loopbacks /\ Kept(loop, loop')
      /\ plain' \subseteq Plains /\ Kept(plain, plain')
  <2> USE DEF DrawingInv, DesignOK
  <2>1. CASE \E v \in VlanIds : AddVlan(v) \/ RemoveVlan(v)
    BY <2>1 DEF AddVlan, RemoveVlan
  <2>2. CASE \E r \in AccessPorts : AddAccess(r)
    BY <2>2 DEF AddAccess
  <2>3. CASE \E r \in Svis, auto \in BOOLEAN : AddSvi(r, auto)
    BY <2>3 DEF AddSvi
  <2>4. CASE \E r \in Subifs : AddSubif(r)
    BY <2>4 DEF AddSubif
  <2>5. CASE \E r \in Loopbacks : AddLoop(r)
    BY <2>5 DEF AddLoop
  <2>6. CASE \E r \in Plains : AddPlain(r)
    BY <2>6 DEF AddPlain
  <2>7. CASE \E r \in access \cup svi \cup subif \cup loop \cup plain : RemoveItem(r)
    BY <2>7 DEF RemoveItem
  <2> QED BY <2>1, <2>2, <2>3, <2>4, <2>5, <2>6, <2>7 DEF RowStep
<1>3. DrawingInv'
  <2>1. UNCHANGED <<device, cable, imported>>
    BY <1>1 DEF invVars
  <2>2. /\ Drawn(access', device) /\ Drawn(svi', device) /\ Drawn(subif', device)
        /\ Drawn(loop', device) /\ Drawn(plain', device)
    BY <1>2 DEF DrawingInv, DesignOK, Drawn, Live
  <2> QED BY <1>2, <2>1, <2>2 DEF DrawingInv, DesignOK
<1>4. RegistryInv'
  BY <1>1 DEF invVars, RegistryInv
<1>5. BinInv'
  BY <1>1 DEF invVars, BinInv
<1> QED BY <1>3, <1>4, <1>5

----------------------------------------------------------------------------
(* Requests that build several devices and cables. *)

LEMMA BuiltKeeps ==
  ASSUME RegistryInv, DrawingInv, BinInv, NEW batch, GoodBatch(batch), NEW typed \in BOOLEAN,
         AddDevices(batch, typed), cable' \subseteq Cables,
         \A o \in cable' : o \in cable \/ Pair(o) \subseteq Live \cup NewIds(batch),
         imported' \subseteq Messages, UNCHANGED <<design, bin>>
  PROVE  RegistryInv' /\ DrawingInv' /\ BinInv'
<1>1. RegistryInv' /\ KeepsDevices(device')
  BY RegistryAdds
<1>2. device' = Added(batch) /\ Fits(batch) /\ born' = born + Len(batch)
  BY DEF AddDevices
<1>3. \A d \in NewIds(batch) : device'[d] # None
  BY <1>2, BatchAdded
<1>4. \A d \in Live : device'[d] # None
  BY <1>1 DEF KeepsDevices
<1>5. DesignOK(device', cable, vlan, access, svi, subif, loop, plain)
  BY <1>1, DesignStays
<1>6. Wired(cable', device')
  BY <1>3, <1>4, <1>5 DEF DesignOK, Wired, Pair
<1>7. DrawingInv'
  BY <1>5, <1>6 DEF DesignOK, DrawingInv, design
<1>8. BinInv'
  <2>1. Len(batch) \in Nat
    BY LenProperties DEF GoodBatch
  <2>2. born \in Nat /\ born' \in Nat /\ born <= born'
    BY <1>2, <2>1, InventoryAssumption DEF RegistryInv
  <2> QED BY <2>2, BinStays
<1> QED BY <1>1, <1>7, <1>8

LEMMA FreeName ==
  ASSUME NEW k \in 1 .. Cardinality(FreeNames)
  PROVE  /\ Lowest(FreeNames, k) \in Names
         /\ \A d \in Live : device[d].name # Lowest(FreeNames, k)
<1>1. FreeNames \in SUBSET Nat /\ FreeNames \in SUBSET Names /\ IsFiniteSet(FreeNames)
  BY InventoryAssumption, FS_Subset DEF FreeNames
<1>2. Lowest(FreeNames, k) \in FreeNames
  BY <1>1, LowestTaken
<1> QED BY <1>1, <1>2 DEF FreeNames

LEMMA FreeIp ==
  ASSUME NEW k \in 1 .. Cardinality(FreeIps)
  PROVE  /\ Lowest(FreeIps, k) \in Ips /\ Lowest(FreeIps, k) # None
         /\ \A d \in Live : device[d].ip # Lowest(FreeIps, k)
<1>1. FreeIps \in SUBSET Nat /\ FreeIps \in SUBSET Ips /\ IsFiniteSet(FreeIps)
  BY InventoryAssumption, FS_Subset DEF FreeIps
<1>2. Lowest(FreeIps, k) \in FreeIps
  BY <1>1, LowestTaken
<1> QED BY <1>1, <1>2, InventoryAssumption DEF FreeIps

LEMMA FreeDiffer ==
  /\ \A i, j \in 1 .. Cardinality(FreeNames) : i # j => Lowest(FreeNames, i) # Lowest(FreeNames, j)
  /\ \A i, j \in 1 .. Cardinality(FreeIps) : i # j => Lowest(FreeIps, i) # Lowest(FreeIps, j)
<1>1. FreeNames \in SUBSET Nat /\ IsFiniteSet(FreeNames)
  BY InventoryAssumption, FS_Subset DEF FreeNames
<1>2. FreeIps \in SUBSET Nat /\ IsFiniteSet(FreeIps)
  BY InventoryAssumption, FS_Subset DEF FreeIps
<1> QED BY <1>1, <1>2, LowestDiffer

LEMMA FreeCounted ==
  /\ Cardinality(FreeNames) \in Nat /\ (FreeNames # {} => 1 \in 1 .. Cardinality(FreeNames))
  /\ Cardinality(FreeIps) \in Nat /\ (FreeIps # {} => 1 \in 1 .. Cardinality(FreeIps))
<1>1. IsFiniteSet(FreeNames) /\ IsFiniteSet(FreeIps)
  BY InventoryAssumption, FS_Subset DEF FreeNames, FreeIps
<1>2. Cardinality(FreeNames) \in Nat /\ Cardinality(FreeIps) \in Nat
  BY <1>1, FS_CardinalityType
<1>3. /\ Cardinality(FreeNames) = 0 <=> FreeNames = {}
      /\ Cardinality(FreeIps) = 0 <=> FreeIps = {}
  BY <1>1, FS_EmptySet
<1> QED BY <1>2, <1>3

LEMMA TemplatedOK ==
  ASSUME NEW t \in Templates, NEW planned \in BOOLEAN, NEW name \in Names,
         NEW ip \in Ips \cup {None}, ~Managed(t) => ip = None,
         Managed(t) /\ ~planned => ip # None
  PROVE  /\ Templated(t, planned, name, ip) \in Shapes
         /\ Consistent(Templated(t, planned, name, ip))
         /\ Templated(t, planned, name, ip).name = name
         /\ Templated(t, planned, name, ip).ip = ip
<1>1. t.type \in Types /\ t.role \in Roles /\ t.kind \in Kinds
  BY DEF Templates, Types, Roles, ManagedRoles, Kinds, ManagedKinds
<1>2. Templated(t, planned, name, ip) \in Shapes
  BY <1>1 DEF Templated, Shapes, Managed
<1> QED BY <1>2 DEF Templated, Consistent, Managed, Deployable

LEMMA QuickAddKeeps ==
  ASSUME RegistryInv, DrawingInv, BinInv, NEW t \in Templates, NEW planned \in BOOLEAN,
         NEW typed \in BOOLEAN, QuickAdd(t, planned, typed)
  PROVE  RegistryInv' /\ DrawingInv' /\ BinInv'
<1> DEFINE needsIp == Managed(t) /\ ~planned
           ip == IF needsIp THEN Lowest(FreeIps, 1) ELSE None
           x == Templated(t, planned, Lowest(FreeNames, 1), ip)
<1>1. /\ FreeNames # {} /\ (needsIp => FreeIps # {})
      /\ AddDevices(<<x>>, typed /\ needsIp)
      /\ UNCHANGED <<diagram, imported, bin>>
  BY DEF QuickAdd
<1>2. /\ Lowest(FreeNames, 1) \in Names
      /\ \A d \in Live : device[d].name # Lowest(FreeNames, 1)
  BY <1>1, FreeCounted, FreeName
<1>3. /\ needsIp => Lowest(FreeIps, 1) \in Ips /\ Lowest(FreeIps, 1) # None
      /\ needsIp => \A d \in Live : device[d].ip # Lowest(FreeIps, 1)
  BY <1>1, FreeCounted, FreeIp
<1>4. x \in Shapes /\ Consistent(x) /\ x.name = Lowest(FreeNames, 1) /\ x.ip = ip
  BY <1>2, <1>3, TemplatedOK
<1>5. Unique(x, {})
  <2> HIDE DEF x
  <2> QED BY <1>2, <1>3, <1>4 DEF Unique
<1>6. GoodBatch(<<x>>)
  BY <1>4, <1>5, SingleIsGood
<1>7. (typed /\ needsIp) \in BOOLEAN
  BY DEF Managed
<1> HIDE DEF x, needsIp
<1>8. /\ cable' = cable /\ imported' = imported /\ UNCHANGED <<design, bin>>
      /\ cable \subseteq Cables /\ imported \subseteq Messages
  BY <1>1 DEF diagram, DrawingInv, DesignOK
<1> QED BY <1>1, <1>6, <1>7, <1>8, BuiltKeeps

(* The first two rows a request may create, free of what is there. *)
LEMMA PairIsGood ==
  ASSUME NEW batch \in [1 .. 2 -> Shapes],
         \A i \in 1 .. 2 : Consistent(batch[i]) /\ Unique(batch[i], {}),
         Apart(batch[1], batch[2])
  PROVE  GoodBatch(batch) /\ Len(batch) = 2
<1>1. batch \in Seq(Shapes) /\ Len(batch) = 2
  <2>1. batch \in Seq(Shapes)
    <3>1. \E n \in Nat : batch \in [1 .. n -> Shapes]
      BY 2 \in Nat
    <3> QED BY <3>1, SeqDef
  <2>2. Len(batch) \in Nat /\ 1 .. Len(batch) = 1 .. 2
    BY <2>1, LenProperties
  <2>3. 2 \in 1 .. Len(batch) /\ 3 \notin 1 .. Len(batch)
    BY <2>2
  <2> QED BY <2>1, <2>2, <2>3
<1>2. \A i, j \in 1 .. 2 : i # j => (i = 1 /\ j = 2) \/ (i = 2 /\ j = 1)
  OBVIOUS
<1>3. Apart(batch[2], batch[1])
  BY DEF Apart
<1> QED BY <1>1, <1>2, <1>3 DEF GoodBatch

LEMMA NewPair ==
  ASSUME RegistryInv, NEW batch \in Seq(Shapes), Len(batch) = 2, Fits(batch)
  PROVE  /\ LastId + 1 \in NewIds(batch) /\ LastId + 1 \in Ids
         /\ LastId + 2 \in NewIds(batch) /\ LastId + 2 \in Ids
<1>1. LastId \in Nat
  BY LiveIds, InventoryAssumption
<1>2. LastId + 1 \in NewIds(batch) /\ LastId + 2 \in NewIds(batch)
  BY <1>1 DEF NewIds
<1> QED BY <1>2, NewIdsFree

LEMMA LowestPort == Lowest(Ports, 1) \in Ports
<1>1. Cardinality(Ports) \in Nat /\ Cardinality(Ports) # 0
  BY DiagramAssumption, FS_CardinalityType, FS_EmptySet
<1>2. 1 \in 1 .. Cardinality(Ports)
  BY <1>1
<1> QED BY <1>2, DiagramAssumption, LowestTaken

LEMMA LowestNet ==
  ASSUME FreeNets # {}
  PROVE  Lowest(FreeNets, 1) \in Nets
<1>1. FreeNets \in SUBSET Nat /\ FreeNets \in SUBSET Nets /\ IsFiniteSet(FreeNets)
  BY DiagramAssumption, FS_Subset DEF FreeNets
<1>2. Cardinality(FreeNets) \in Nat /\ Cardinality(FreeNets) # 0
  BY <1>1, FS_CardinalityType, FS_EmptySet
<1>3. 1 \in 1 .. Cardinality(FreeNets)
  BY <1>2
<1>4. Lowest(FreeNets, 1) \in FreeNets
  BY <1>1, <1>3, LowestTaken
<1> QED BY <1>1, <1>4

LEMMA LinkOK ==
  ASSUME NEW a \in Ids, NEW pa \in Ports, NEW b \in Ids, NEW pb \in Ports,
         NEW type \in LinkTypes, NEW net \in Nets \cup {Mgmt, None},
         NEW vlans \in {None} \cup SUBSET VlanIds
  PROVE  /\ Link(a, pa, b, pb, type, net, vlans) \in Cables
         /\ Pair(Link(a, pa, b, pb, type, net, vlans)) = {a, b}
BY DEF Link, Cables, Pair

LEMMA BlueprintKeeps ==
  ASSUME RegistryInv, DrawingInv, BinInv, NEW t \in Templates, NEW u \in Templates,
         NEW planned \in BOOLEAN, NEW type \in {"physical", "routed"},
         Blueprint(t, u, planned, type)
  PROVE  RegistryInv' /\ DrawingInv' /\ BinInv'
<1> DEFINE ts == <<t, u>>
           ipRank(i) == Cardinality({j \in 1 .. i : Managed(ts[j])})
           needs(i) == Managed(ts[i]) /\ ~planned
           name(i) == Lowest(FreeNames, i)
           ip(i) == IF needs(i) THEN Lowest(FreeIps, ipRank(i)) ELSE None
           batch == [i \in 1 .. 2 |-> Templated(ts[i], planned, name(i), ip(i))]
           c == Link(LastId + 1, Lowest(Ports, 1), LastId + 2, Lowest(Ports, 1), type,
                     IF type = "routed" THEN Lowest(FreeNets, 1) ELSE None, None)
<1>1. /\ Cardinality(FreeNames) >= 2 /\ (~planned => Cardinality(FreeIps) >= ipRank(2))
      /\ (type = "routed" => FreeNets # {})
      /\ AddDevices(batch, FALSE) /\ cable' = cable \cup {c}
      /\ UNCHANGED <<design, imported, bin>>
  BY DEF Blueprint
<1>2. \A i \in 1 .. 2 : i = 1 \/ i = 2
  OBVIOUS
<1>3. \A i \in 1 .. 2 : /\ name(i) \in Names /\ \A d \in Live : device[d].name # name(i)
  <2>1. 1 \in 1 .. Cardinality(FreeNames) /\ 2 \in 1 .. Cardinality(FreeNames)
    BY <1>1, FreeCounted
  <2> QED BY <1>2, <2>1, FreeName
<1>4. name(1) # name(2)
  <2>1. 1 \in 1 .. Cardinality(FreeNames) /\ 2 \in 1 .. Cardinality(FreeNames)
    BY <1>1, FreeCounted
  <2> QED BY <2>1, FreeDiffer
<1>5. /\ needs(1) => ipRank(1) = 1
      /\ needs(2) => ipRank(2) \in {1, 2}
      /\ needs(1) /\ needs(2) => ipRank(2) = 2
      /\ ~planned => ipRank(1) \in Nat /\ ipRank(2) \in Nat /\ ipRank(1) <= ipRank(2)
  <2> DEFINE M(i) == {j \in 1 .. i : Managed(ts[j])}
  <2>1. M(1) \subseteq {1} /\ M(1) \subseteq M(2) /\ M(2) \subseteq {1, 2}
    OBVIOUS
  <2>2. IsFiniteSet({1}) /\ Cardinality({1}) = 1
    BY FS_Singleton
  <2>3. IsFiniteSet({1, 2}) /\ Cardinality({1, 2}) = 2
    <3>1. {1, 2} = {1} \cup {2} /\ 2 \notin {1}
      OBVIOUS
    <3> QED BY <2>2, <3>1, FS_AddElement
  <2>4. /\ IsFiniteSet(M(2)) /\ Cardinality(M(2)) \in Nat /\ Cardinality(M(2)) <= 2
        /\ Cardinality(M(1)) \in Nat /\ Cardinality(M(1)) <= Cardinality(M(2))
    <3>1. IsFiniteSet(M(2)) /\ Cardinality(M(2)) <= 2
      BY <2>1, <2>3, FS_Subset
    <3>2. IsFiniteSet(M(1)) /\ Cardinality(M(1)) <= Cardinality(M(2))
      BY <2>1, <3>1, FS_Subset
    <3> QED BY <3>1, <3>2, FS_CardinalityType
  <2>5. Managed(ts[1]) => M(1) = {1}
    OBVIOUS
  <2>6. Managed(ts[2]) => Cardinality(M(2)) # 0
    <3>1. Managed(ts[2]) => 2 \in M(2)
      OBVIOUS
    <3> QED BY <2>4, <3>1, FS_EmptySet
  <2>7. Managed(ts[1]) /\ Managed(ts[2]) => M(2) = {1, 2}
    OBVIOUS
  <2> QED BY <2>2, <2>3, <2>4, <2>5, <2>6, <2>7
<1>6. \A i \in 1 .. 2 : needs(i) => ipRank(i) \in 1 .. Cardinality(FreeIps)
  <2> HIDE DEF ipRank
  <2>1. Cardinality(FreeIps) \in Nat
    BY FreeCounted
  <2>2. needs(1) => ipRank(1) \in 1 .. Cardinality(FreeIps)
    BY <1>1, <1>5, <2>1
  <2>3. needs(2) => ipRank(2) \in 1 .. Cardinality(FreeIps)
    BY <1>1, <1>5, <2>1
  <2> QED BY <1>2, <2>2, <2>3
<1>7. \A i \in 1 .. 2 : /\ ip(i) \in Ips \cup {None} /\ (needs(i) <=> ip(i) # None)
                        /\ ip(i) # None => \A d \in Live : device[d].ip # ip(i)
  <2> HIDE DEF ipRank
  <2>1. \A i \in 1 .. 2 : needs(i) => /\ ip(i) \in Ips /\ ip(i) # None
                                      /\ \A d \in Live : device[d].ip # ip(i)
    BY <1>6, FreeIp
  <2>2. \A i \in 1 .. 2 : ~needs(i) => ip(i) = None
    OBVIOUS
  <2> QED BY <2>1, <2>2
<1>8. ip(1) # None => ip(1) # ip(2)
  <2> HIDE DEF ipRank
  <2>1. CASE needs(1) /\ needs(2)
    BY <1>5, <1>6, <2>1, FreeDiffer
  <2>2. CASE ~(needs(1) /\ needs(2))
    BY <1>7, <2>2
  <2> QED BY <2>1, <2>2
<1>9. \A i \in 1 .. 2 : /\ batch[i] \in Shapes /\ Consistent(batch[i])
                        /\ batch[i].name = name(i) /\ batch[i].ip = ip(i)
  <2>1. \A i \in 1 .. 2 : ts[i] \in Templates
    BY <1>2
  <2>2. \A i \in 1 .. 2 : /\ ~Managed(ts[i]) => ip(i) = None
                          /\ Managed(ts[i]) /\ ~planned => ip(i) # None
    BY <1>7
  <2>3. \A i \in 1 .. 2 : batch[i] = Templated(ts[i], planned, name(i), ip(i))
    OBVIOUS
  <2> HIDE DEF ts, name, ip, batch
  <2> QED BY <1>3, <1>7, <2>1, <2>2, <2>3, TemplatedOK
<1>10. batch \in [1 .. 2 -> Shapes]
  <2>1. batch = [i \in 1 .. 2 |-> batch[i]]
    OBVIOUS
  <2> HIDE DEF batch
  <2> QED BY <1>9, <2>1
<1>11. GoodBatch(batch) /\ Len(batch) = 2
  <2>1. \A i \in 1 .. 2 : Unique(batch[i], {})
    <3> HIDE DEF batch, name, ip
    <3> QED BY <1>3, <1>7, <1>9 DEF Unique
  <2>2. Apart(batch[1], batch[2])
    <3> HIDE DEF batch, name, ip
    <3> QED BY <1>4, <1>8, <1>9 DEF Apart
  <2> HIDE DEF batch
  <2> QED BY <1>9, <1>10, <2>1, <2>2, PairIsGood
<1>12. /\ LastId + 1 \in NewIds(batch) /\ LastId + 1 \in Ids
       /\ LastId + 2 \in NewIds(batch) /\ LastId + 2 \in Ids
  <2> HIDE DEF batch
  <2> QED BY <1>1, <1>11, NewPair DEF AddDevices, GoodBatch
<1>13. c \in Cables /\ Pair(c) \subseteq NewIds(batch)
  <2>1. type \in LinkTypes
    BY DEF LinkTypes
  <2> DEFINE net == IF type = "routed" THEN Lowest(FreeNets, 1) ELSE None
  <2>2. net \in Nets \cup {Mgmt, None}
    BY <1>1, LowestNet
  <2>3. c = Link(LastId + 1, Lowest(Ports, 1), LastId + 2, Lowest(Ports, 1), type, net, None)
    OBVIOUS
  <2> HIDE DEF batch, net, c
  <2>4. None \in {None} \cup SUBSET VlanIds
    OBVIOUS
  <2>5. c \in Cables /\ Pair(c) = {LastId + 1, LastId + 2}
    BY <1>12, <2>1, <2>2, <2>3, <2>4, LowestPort, LinkOK
  <2> QED BY <1>12, <2>5
<1> HIDE DEF batch, c
<1>14. /\ cable' \subseteq Cables /\ imported' \subseteq Messages /\ UNCHANGED <<design, bin>>
       /\ \A o \in cable' : o \in cable \/ Pair(o) \subseteq Live \cup NewIds(batch)
  BY <1>1, <1>13 DEF DrawingInv, DesignOK
<1> QED BY <1>1, <1>11, <1>14, BuiltKeeps

LEMMA ImportChatKeeps ==
  ASSUME RegistryInv, DrawingInv, BinInv, NEW m \in Messages, ImportChat(m)
  PROVE  RegistryInv' /\ DrawingInv' /\ BinInv'
<1> DEFINE router == [name |-> Lowest(FreeNames, 1), type |-> "ios", role |-> "core",
                      kind |-> "router", planned |-> TRUE, ip |-> None]
           switch == [name |-> Lowest(FreeNames, 2), type |-> "ios", role |-> "access",
                      kind |-> "switch", planned |-> TRUE, ip |-> None]
           batch == <<router, switch>>
           c == Link(LastId + 1, Lowest(Ports, 1), LastId + 2, Lowest(Ports, 1),
                     "physical", ChatNet[m], None)
<1>1. /\ Cardinality(FreeNames) >= 2 /\ AddDevices(batch, FALSE)
      /\ cable' = cable \cup {c} /\ imported' = imported \cup {m}
      /\ UNCHANGED <<design, bin>>
  BY DEF ImportChat
<1>2. 1 \in 1 .. Cardinality(FreeNames) /\ 2 \in 1 .. Cardinality(FreeNames)
  BY <1>1, FreeCounted
<1>3. /\ Lowest(FreeNames, 1) \in Names /\ Lowest(FreeNames, 2) \in Names
      /\ Lowest(FreeNames, 1) # Lowest(FreeNames, 2)
      /\ \A d \in Live : /\ device[d].name # Lowest(FreeNames, 1)
                         /\ device[d].name # Lowest(FreeNames, 2)
  BY <1>2, FreeName, FreeDiffer
<1>4. /\ router \in Shapes /\ switch \in Shapes
      /\ Consistent(router) /\ Consistent(switch)
      /\ Unique(router, {}) /\ Unique(switch, {}) /\ Apart(router, switch)
  BY <1>3 DEF Shapes, Types, Roles, ManagedRoles, Kinds, ManagedKinds, Consistent, Managed,
              Deployable, Unique, Apart
<1>5. GoodBatch(batch) /\ Len(batch) = 2
  <2> HIDE DEF router, switch
  <2>1. batch \in [1 .. 2 -> Shapes] /\ batch[1] = router /\ batch[2] = switch
    BY <1>4
  <2>2. \A i \in 1 .. 2 : i = 1 \/ i = 2
    OBVIOUS
  <2>3. \A i \in 1 .. 2 : Consistent(batch[i]) /\ Unique(batch[i], {})
    BY <1>4, <2>1, <2>2
  <2> HIDE DEF batch
  <2> QED BY <1>4, <2>1, <2>3, PairIsGood
<1> HIDE DEF batch
<1>6. /\ LastId + 1 \in NewIds(batch) /\ LastId + 1 \in Ids
      /\ LastId + 2 \in NewIds(batch) /\ LastId + 2 \in Ids
  BY <1>1, <1>5, NewPair DEF AddDevices, GoodBatch
<1>7. c \in Cables /\ Pair(c) \subseteq NewIds(batch)
  <2>1. "physical" \in LinkTypes /\ ChatNet[m] \in Nets \cup {Mgmt, None}
    BY DiagramAssumption DEF LinkTypes
  <2>2. None \in {None} \cup SUBSET VlanIds
    OBVIOUS
  <2>3. c = Link(LastId + 1, Lowest(Ports, 1), LastId + 2, Lowest(Ports, 1),
                 "physical", ChatNet[m], None)
    OBVIOUS
  <2> HIDE DEF c
  <2>4. c \in Cables /\ Pair(c) = {LastId + 1, LastId + 2}
    BY <1>6, <2>1, <2>2, <2>3, LowestPort, LinkOK
  <2> QED BY <1>6, <2>4
<1> HIDE DEF c
<1>8. /\ cable' \subseteq Cables /\ imported' \subseteq Messages
      /\ \A o \in cable' : o \in cable \/ Pair(o) \subseteq Live \cup NewIds(batch)
  BY <1>1, <1>7 DEF DrawingInv, DesignOK
<1> QED BY <1>1, <1>5, <1>8, BuiltKeeps
(* A sequence is a function on an initial part of the numbers. *)
LEMMA SeqOf ==
  ASSUME NEW T, NEW n \in Nat, NEW f \in [1 .. n -> T]
  PROVE  f \in Seq(T) /\ Len(f) = n
<1>1. f \in Seq(T)
  <2>1. \E k \in Nat : f \in [1 .. k -> T]
    OBVIOUS
  <2> QED BY <2>1, SeqDef
<1>2. Len(f) \in Nat /\ 1 .. Len(f) = 1 .. n
  BY <1>1, LenProperties
<1>3. Len(f) = n
  <2>1. CASE n < Len(f)
    <3>1. n + 1 \in 1 .. Len(f) /\ n + 1 \notin 1 .. n
      BY <1>2, <2>1
    <3> QED BY <1>2, <3>1
  <2>2. CASE Len(f) < n
    <3>1. n \in 1 .. n /\ n \notin 1 .. Len(f)
      BY <1>2, <2>2
    <3> QED BY <1>2, <3>1
  <2> QED BY <1>2, <2>1, <2>2
<1> QED BY <1>1, <1>3

LEMMA ShapeOf ==
  ASSUME NEW x \in DeviceRows
  PROVE  /\ Shape(x) \in Shapes /\ Consistent(Shape(x)) = Consistent(x)
         /\ Managed(Shape(x)) = Managed(x) /\ Deployable(Shape(x)) = Deployable(x)
         /\ Shape(x).name = x.name /\ Shape(x).ip = x.ip
         /\ Shape(x).role = x.role /\ Shape(x).kind = x.kind
         /\ Shape(x).type = x.type /\ Shape(x).planned = x.planned
<1>1. Shape(x) \in Shapes
  BY DEF Shape, Shapes, DeviceRows
<1> QED BY <1>1 DEF Shape, Managed, Deployable, Consistent

LEMMA DuplicateKeeps ==
  ASSUME RegistryInv, DrawingInv, BinInv, NEW S \in SUBSET Ids, Duplicate(S)
  PROVE  RegistryInv' /\ DrawingInv' /\ BinInv'
<1> DEFINE n == Cardinality(S)
           orig(i) == CHOOSE d \in S : Rank(S, d) = i
           copied(d) == LastId + Rank(S, d)
           addressed == {d \in S : Deployable(device[d])}
           name(i) == Lowest(FreeNames, i)
           ip(d) == IF d \in addressed THEN Lowest(FreeIps, Rank(addressed, d)) ELSE None
           copy(i) == [Shape(device[orig(i)]) EXCEPT !.name = name(i), !.ip = ip(orig(i))]
           batch == [i \in 1 .. n |-> copy(i)]
           among == {o \in cable : Pair(o) \subseteq S}
           link(o) == Link(copied(o.a), o.pa, copied(o.b), o.pb,
                           IF o.type = "trunk" THEN "trunk" ELSE "physical", None,
                           IF o.type = "trunk" THEN o.vlans ELSE None)
           copies == {link(o) : o \in among}
<1>1. /\ S \subseteq Live /\ n <= Cardinality(FreeNames)
      /\ Cardinality(addressed) <= Cardinality(FreeIps)
      /\ AddDevices(batch, FALSE) /\ cable' = cable \cup copies
      /\ UNCHANGED <<design, imported, bin>>
  BY DEF Duplicate
<1>2. /\ IsFiniteSet(S) /\ S \in SUBSET Nat /\ n \in Nat
      /\ IsFiniteSet(addressed) /\ addressed \in SUBSET Nat /\ Cardinality(addressed) \in Nat
  <2>1. IsFiniteSet(S) /\ S \in SUBSET Nat
    BY <1>1, LiveIds, FS_Subset
  <2>2. IsFiniteSet(addressed) /\ addressed \in SUBSET Nat
    BY <2>1, FS_Subset
  <2> QED BY <2>1, <2>2, FS_CardinalityType
<1>3. ASSUME NEW i \in 1 .. n
      PROVE  orig(i) \in S /\ Rank(S, orig(i)) = i
  <2>1. Lowest(S, i) \in S /\ Rank(S, Lowest(S, i)) = i
    BY <1>2, LowestTaken DEF Rank
  <2> QED BY <2>1
<1>4. ASSUME NEW i \in 1 .. n
      PROVE  /\ name(i) \in Names /\ \A d \in Live : device[d].name # name(i)
             /\ i \in 1 .. Cardinality(FreeNames)
  <2>1. i \in 1 .. Cardinality(FreeNames)
    <3>1. n \in Nat /\ n <= Cardinality(FreeNames) /\ Cardinality(FreeNames) \in Nat
      BY <1>1, <1>2, FreeCounted
    <3> HIDE DEF n
    <3> QED BY <3>1
  <2> QED BY <2>1, FreeName
<1>5. ASSUME NEW d \in addressed
      PROVE  /\ Rank(addressed, d) \in 1 .. Cardinality(FreeIps)
             /\ ip(d) \in Ips /\ ip(d) # None /\ \A e \in Live : device[e].ip # ip(d)
             /\ Lowest(addressed, Rank(addressed, d)) = d
  <2>1. Rank(addressed, d) \in 1 .. Cardinality(addressed) /\ Lowest(addressed, Rank(addressed, d)) = d
    <3> HIDE DEF addressed
    <3> QED BY <1>2, RankOf
  <2>2. Rank(addressed, d) \in 1 .. Cardinality(FreeIps)
    <3>1. /\ Cardinality(addressed) \in Nat /\ Cardinality(FreeIps) \in Nat
          /\ Cardinality(addressed) <= Cardinality(FreeIps)
      BY <1>1, <1>2, FreeCounted
    <3> HIDE DEF addressed
    <3> QED BY <2>1, <3>1
  <2>3. ip(d) = Lowest(FreeIps, Rank(addressed, d))
    OBVIOUS
  <2> HIDE DEF addressed, ip
  <2> QED BY <2>1, <2>2, <2>3, FreeIp
<1>6. ASSUME NEW d \in addressed, NEW e \in addressed, d # e
      PROVE  ip(d) # ip(e)
  <2>1. Rank(addressed, d) # Rank(addressed, e)
    BY <1>5, <1>6
  <2>2. ip(d) = Lowest(FreeIps, Rank(addressed, d)) /\ ip(e) = Lowest(FreeIps, Rank(addressed, e))
    OBVIOUS
  <2> HIDE DEF addressed, ip
  <2> QED BY <1>5, <2>1, <2>2, FreeDiffer
<1>7. \A d \in S : d \notin addressed => ip(d) = None
  OBVIOUS
<1>8. ASSUME NEW i \in 1 .. n
      PROVE  /\ copy(i) \in Shapes /\ Consistent(copy(i))
             /\ copy(i).name = name(i) /\ copy(i).ip = ip(orig(i))
  <2> DEFINE x == Shape(device[orig(i)])
  <2>1. /\ device[orig(i)] \in DeviceRows /\ Consistent(device[orig(i)])
        /\ (orig(i) \in addressed <=> Deployable(device[orig(i)]))
    BY <1>1, <1>3 DEF RegistryInv, DevicesOK, Live
  <2>2. x \in Shapes /\ Consistent(x) /\ (orig(i) \in addressed <=> Deployable(x))
    BY <2>1, ShapeOf
  <2>3. name(i) \in Names /\ ip(orig(i)) \in Ips \cup {None}
        /\ (orig(i) \in addressed <=> ip(orig(i)) # None)
    BY <1>3, <1>4, <1>5, <1>7
  <2>4. copy(i) = [x EXCEPT !.name = name(i), !.ip = ip(orig(i))]
    OBVIOUS
  <2>5. DOMAIN x = {"name", "type", "role", "kind", "planned", "ip"}
    BY <2>2 DEF Shapes
  <2> HIDE DEF x, copy, name, ip, addressed, orig
  <2>6. /\ copy(i) \in Shapes /\ copy(i).name = name(i) /\ copy(i).ip = ip(orig(i))
        /\ copy(i).type = x.type /\ copy(i).planned = x.planned
    BY <2>2, <2>3, <2>4, <2>5 DEF Shapes
  <2> QED BY <2>2, <2>3, <2>6 DEF Consistent, Managed, Deployable
<1>9. batch \in Seq(Shapes) /\ Len(batch) = n
  <2>1. batch \in [1 .. n -> Shapes]
    <3> HIDE DEF copy
    <3> QED BY <1>8
  <2> HIDE DEF batch, n
  <2> QED BY <1>2, <2>1, SeqOf
<1>10. \A i \in 1 .. n : batch[i] = copy(i)
  OBVIOUS
<1>11. GoodBatch(batch)
  <2>1. ASSUME NEW i \in 1 .. n
        PROVE  Consistent(copy(i)) /\ Unique(copy(i), {})
    <3>1. \A d \in Live : device[d].name # copy(i).name
      BY <1>4, <1>8
    <3>2. copy(i).ip # None => \A d \in Live : device[d].ip # copy(i).ip
      <4>1. orig(i) \in S /\ copy(i).ip = ip(orig(i))
        BY <1>3, <1>8
      <4> HIDE DEF copy, orig, ip
      <4> QED BY <4>1, <1>5, <1>7
    <3> HIDE DEF copy
    <3> QED BY <1>8, <3>1, <3>2 DEF Unique
  <2>2. ASSUME NEW i \in 1 .. n, NEW j \in 1 .. n, i # j
        PROVE  Apart(copy(i), copy(j))
    <3>1. copy(i).name # copy(j).name
      <4>1. copy(i).name = Lowest(FreeNames, i) /\ copy(j).name = Lowest(FreeNames, j)
        BY <1>8
      <4>2. i \in 1 .. Cardinality(FreeNames) /\ j \in 1 .. Cardinality(FreeNames)
        BY <1>4
      <4> HIDE DEF copy
      <4> QED BY <2>2, <4>1, <4>2, FreeDiffer
    <3>2. orig(i) # orig(j) /\ orig(i) \in S /\ orig(j) \in S
      BY <1>3, <2>2
    <3>3. copy(i).ip = ip(orig(i)) /\ copy(j).ip = ip(orig(j))
      BY <1>8
    <3>4. ip(orig(i)) # None => ip(orig(i)) # ip(orig(j))
      <4> HIDE DEF ip, orig
      <4> QED BY <1>5, <1>6, <1>7, <3>2
    <3> HIDE DEF copy, ip, orig
    <3> QED BY <3>1, <3>3, <3>4 DEF Apart
  <2> HIDE DEF batch, copy, n
  <2> QED BY <1>9, <1>10, <2>1, <2>2 DEF GoodBatch
<1>12. ASSUME NEW d \in S
       PROVE  copied(d) \in NewIds(batch) /\ copied(d) \in Ids
  <2>1. Rank(S, d) \in 1 .. n
    BY <1>2, RankOf
  <2>2. LastId \in Nat
    BY LiveIds, InventoryAssumption
  <2>3. copied(d) \in NewIds(batch)
    <3> HIDE DEF batch, n
    <3> QED BY <1>2, <1>9, <2>1, <2>2 DEF NewIds
  <2> HIDE DEF batch
  <2> QED BY <1>1, <1>9, <2>3, NewIdsFree DEF AddDevices
<1>13. ASSUME NEW o \in among
       PROVE  link(o) \in Cables /\ Pair(link(o)) \subseteq NewIds(batch)
  <2>1. /\ o.pa \in Ports /\ o.pb \in Ports /\ o.a \in S /\ o.b \in S
        /\ o.vlans \in {None} \cup SUBSET VlanIds
    BY DEF DrawingInv, DesignOK, Cables, Pair
  <2> DEFINE ty == IF o.type = "trunk" THEN "trunk" ELSE "physical"
             vl == IF o.type = "trunk" THEN o.vlans ELSE None
  <2>2. ty \in LinkTypes /\ vl \in {None} \cup SUBSET VlanIds
    BY <2>1 DEF LinkTypes
  <2>3. copied(o.a) \in NewIds(batch) /\ copied(o.a) \in Ids
        /\ copied(o.b) \in NewIds(batch) /\ copied(o.b) \in Ids
    BY <2>1, <1>12
  <2>4. link(o) = Link(copied(o.a), o.pa, copied(o.b), o.pb, ty, None, vl)
    OBVIOUS
  <2> DEFINE from == copied(o.a)
             to == copied(o.b)
             new == link(o)
  <2>5. None \in Nets \cup {Mgmt, None}
    OBVIOUS
  <2>6. /\ from \in Ids /\ to \in Ids /\ o.pa \in Ports /\ o.pb \in Ports
        /\ new = Link(from, o.pa, to, o.pb, ty, None, vl)
    BY <2>1, <2>3, <2>4
  <2> HIDE DEF ty, vl, batch, from, to, new, among, copied, addressed, link, copy, ip, orig, n
  <2>7. new \in Cables /\ Pair(new) = {from, to}
    BY <2>2, <2>5, <2>6 DEF Link, Cables, Pair
  <2> QED BY <2>3, <2>7 DEF new, from, to
<1>14. copies \subseteq Cables /\ \A o \in copies : Pair(o) \subseteq NewIds(batch)
  <2> HIDE DEF link, among, batch
  <2> QED BY <1>13
<1> HIDE DEF copies, batch
<1>15. /\ cable' \subseteq Cables /\ imported' \subseteq Messages /\ UNCHANGED <<design, bin>>
       /\ \A o \in cable' : o \in cable \/ Pair(o) \subseteq Live \cup NewIds(batch)
  BY <1>1, <1>14 DEF DrawingInv, DesignOK
<1> QED BY <1>1, <1>11, <1>15, BuiltKeeps
(* What is built one element after the other exists, whatever the step does.   *)
Builds(L, A, start, step) ==
    \E f \in [0 .. L -> A] : f[0] = start /\ \A n \in 1 .. L : f[n] = step[<<n, f[n - 1]>>]

LEMMA Folded ==
  ASSUME NEW L \in Nat, NEW A, NEW start \in A, NEW step \in [(1 .. L) \X A -> A]
  PROVE  Builds(L, A, start, step)
<1> DEFINE Goes(m, f) == f[0] = start /\ \A n \in 1 .. m : f[n] = step[<<n, f[n - 1]>>]
           Bad == {m \in 0 .. L : ~ \E f \in [0 .. m -> A] : Goes(m, f)}
<1> SUFFICES ASSUME L \in Bad PROVE FALSE
  BY DEF Builds
<1>1. Bad \in SUBSET Nat /\ Bad # {}
  OBVIOUS
<1>2. PICK m \in Bad : \A k \in Bad : m <= k
  <2> HIDE DEF Bad
  <2> QED BY <1>1, LeastOfNaturals
<1>3. m \in 0 .. L
  OBVIOUS
<1>4. CASE m = 0
  <2> DEFINE f == [n \in 0 .. 0 |-> start]
  <2>1. f \in [0 .. 0 -> A] /\ f[0] = start
    OBVIOUS
  <2>2. Goes(0, f)
    <3> HIDE DEF f
    <3> QED BY <2>1
  <2> QED BY <1>4, <2>1, <2>2
<1>5. CASE m # 0
  <2>1. m - 1 \in 0 .. L /\ m - 1 \notin Bad /\ m \in 1 .. L
    BY <1>2, <1>3, <1>5
  <2>2. PICK g \in [0 .. m - 1 -> A] : Goes(m - 1, g)
    BY <2>1
  <2> DEFINE last == step[<<m, g[m - 1]>>]
             f == [n \in 0 .. m |-> IF n = m THEN last ELSE g[n]]
  <2>3. last \in A
    BY <2>1
  <2>4. f \in [0 .. m -> A]
    <3> HIDE DEF last
    <3>1. \A n \in 0 .. m : n # m => n \in 0 .. m - 1
      BY <1>3
    <3> QED BY <2>3, <3>1
  <2>5. f[0] = start
    BY <1>3, <1>5, <2>2
  <2>6. ASSUME NEW n \in 1 .. m PROVE f[n] = step[<<n, f[n - 1]>>]
    <3>1. n - 1 \in 0 .. m /\ n - 1 # m /\ n \in 0 .. m
      BY <1>3
    <3>2. f[n - 1] = g[n - 1]
      BY <3>1
    <3>3. CASE n = m
      BY <3>1, <3>2, <3>3
    <3>4. CASE n # m
      <4>1. n \in 1 .. m - 1 /\ f[n] = g[n]
        BY <1>3, <3>1, <3>4
      <4> QED BY <2>2, <3>2, <4>1
    <3> QED BY <3>3, <3>4
  <2>7. Goes(m, f)
    <3> HIDE DEF f
    <3> QED BY <2>5, <2>6
  <2> HIDE DEF f
  <2> QED BY <1>3, <2>4, <2>7
<1> QED BY <1>4, <1>5

LEMMA NodeShape ==
  ASSUME NEW nodes \in Seq(LabNodes), Cardinality(FreeIps) > Len(nodes),
         NEW i \in Supported(nodes)
  PROVE  FromNode(nodes, i) \in Shapes /\ Consistent(FromNode(nodes, i))
<1> DEFINE open == {j \in Addressed(nodes) : nodes[j].ip = None}
           t == nodes[i].t
           ip == NodeIp(nodes, i)
<1>1. /\ nodes[i] \in LabNodes /\ t \in Templates /\ nodes[i].name \in Names
      /\ nodes[i].ip \in Ips \cup {None} /\ Len(nodes) \in Nat
      /\ i \in 1 .. Len(nodes) /\ DOMAIN nodes = 1 .. Len(nodes)
  <2>1. DOMAIN nodes = 1 .. Len(nodes) /\ Len(nodes) \in Nat
    BY LenProperties
  <2>2. i \in 1 .. Len(nodes) /\ nodes[i].t # None
    BY <2>1 DEF Supported
  <2>3. nodes[i] \in LabNodes
    BY <2>2, ElementOfSeq
  <2> QED BY <2>1, <2>2, <2>3 DEF LabNodes
<1>2. /\ ip \in Ips \cup {None} /\ (~Managed(t) => ip = None)
      /\ Managed(t) => ip # None
  <2>1. Managed(t) <=> i \in Addressed(nodes)
    BY DEF Addressed
  <2>2. CASE i \notin Addressed(nodes)
    BY <2>1, <2>2 DEF NodeIp
  <2>3. CASE i \in Addressed(nodes) /\ nodes[i].ip # None
    BY <1>1, <2>1, <2>3 DEF NodeIp
  <2>4. CASE i \in Addressed(nodes) /\ nodes[i].ip = None
    <3>1. i \in open
      BY <2>4
    <3>2. open \in SUBSET (1 .. Len(nodes))
      BY <1>1 DEF Addressed, Supported
    <3>3. IsFiniteSet(1 .. Len(nodes)) /\ Cardinality(1 .. Len(nodes)) = Len(nodes)
      <4>1. Cardinality(1 .. Len(nodes)) = IF 1 > Len(nodes) THEN 0 ELSE Len(nodes) - 1 + 1
        BY <1>1, FS_Interval
      <4>2. IsFiniteSet(1 .. Len(nodes))
        BY <1>1, FS_Interval
      <4> QED BY <1>1, <4>1, <4>2
    <3>4. IsFiniteSet(open) /\ Cardinality(open) <= Len(nodes) /\ open \in SUBSET Nat
      <4> HIDE DEF open
      <4>1. IsFiniteSet(open) /\ Cardinality(open) <= Cardinality(1 .. Len(nodes))
        BY <3>2, <3>3, FS_Subset
      <4> QED BY <3>2, <3>3, <4>1
    <3>5. Rank(open, i) \in 1 .. Cardinality(open) /\ Cardinality(open) \in Nat
      <4> HIDE DEF open
      <4> QED BY <3>1, <3>4, RankOf, FS_CardinalityType
    <3>6. Rank(open, i) \in 1 .. Cardinality(FreeIps)
      <4> HIDE DEF open
      <4> QED BY <1>1, <3>4, <3>5, FreeCounted
    <3>7. ip = Lowest(FreeIps, Rank(open, i))
      BY <2>4 DEF NodeIp
    <3> HIDE DEF open, ip
    <3> QED BY <2>1, <2>4, <3>6, <3>7, FreeIp
  <2> QED BY <2>2, <2>3, <2>4
<1>3. FromNode(nodes, i) = Templated(t, FALSE, nodes[i].name, ip)
  BY DEF FromNode
<1> DEFINE name == nodes[i].name
<1>4. FALSE \in BOOLEAN /\ name \in Names /\ (Managed(t) /\ ~FALSE => ip # None)
  BY <1>1, <1>2
<1>5. Templated(t, FALSE, name, ip) \in Shapes /\ Consistent(Templated(t, FALSE, name, ip))
  <2> HIDE DEF t, ip, name
  <2> QED BY <1>1, <1>2, <1>4, TemplatedOK
<1> QED BY <1>3, <1>5

(* The nodes a lab import creates fit the project and each other. *)
LEMMA MadeIsGood ==
  ASSUME NEW nodes \in Seq(LabNodes)
  PROVE  /\ Made(nodes) \subseteq Supported(nodes)
         /\ \A i \in Made(nodes) : Unique(FromNode(nodes, i), {})
         /\ \A i, j \in Made(nodes) : i # j => Apart(FromNode(nodes, i), FromNode(nodes, j))
<1> DEFINE L == Len(nodes)
           x(i) == FromNode(nodes, i)
           Fresh(n, S) == \A j \in S : /\ x(j).name # x(n).name
                                       /\ x(n).ip # None => x(j).ip # x(n).ip
           Takes(n, S) == /\ n \in Supported(nodes) /\ Unique(x(n), {}) /\ Fresh(n, S)
                          /\ Cardinality(Live) + Cardinality(S) < MaxDevices
           Next1(n, S) == IF Takes(n, S) THEN S \cup {n} ELSE S
           A == SUBSET (1 .. L)
           step == [p \in (1 .. L) \X A |-> Next1(p[1], p[2])]
           Is(made) == made = [n \in 0 .. L |-> IF n = 0 THEN {} ELSE Next1(n, made[n - 1])]
           made == CHOOSE f : Is(f)
<1>1. L \in Nat /\ DOMAIN nodes = 1 .. L
  BY LenProperties
<1>2. step \in [(1 .. L) \X A -> A]
  <2>1. \A n \in 1 .. L : \A S \in A : Next1(n, S) \in A
    <3> HIDE DEF Takes
    <3> QED OBVIOUS
  <2> HIDE DEF Next1
  <2> QED BY <2>1
<1>3. \E f : Is(f)
  <2>1. {} \in A
    OBVIOUS
  <2>2. PICK f \in [0 .. L -> A] : f[0] = {} /\ \A n \in 1 .. L : f[n] = step[<<n, f[n - 1]>>]
    <3> HIDE DEF step, A, L
    <3>1. Builds(L, A, {}, step)
      BY <1>1, <1>2, <2>1, Folded
    <3> QED BY <3>1 DEF Builds
  <2>3. ASSUME NEW n \in 0 .. L
        PROVE  f[n] = IF n = 0 THEN {} ELSE Next1(n, f[n - 1])
    <3>1. CASE n = 0
      BY <2>2, <3>1
    <3>2. CASE n # 0
      <4>1. n \in 1 .. L /\ n - 1 \in 0 .. L
        BY <1>1, <3>2
      <4>2. f[n] = step[<<n, f[n - 1]>>] /\ f[n - 1] \in A
        BY <2>2, <4>1
      <4>3. <<n, f[n - 1]>> \in (1 .. L) \X A
        <5> HIDE DEF A, L
        <5> QED BY <4>1, <4>2
      <4> HIDE DEF Next1, A, L
      <4>4. step[<<n, f[n - 1]>>] = Next1(n, f[n - 1])
        BY <4>3
      <4> QED BY <3>2, <4>2, <4>4
    <3> QED BY <3>1, <3>2
  <2> HIDE DEF Next1, A, L
  <2>4. Is(f)
    BY <2>3
  <2> QED BY <2>4
<1>4. Is(made)
  <2> HIDE DEF Is
  <2> QED BY <1>3
<1>5. Made(nodes) = made[L]
  BY DEF Made
<1> DEFINE Good(S) == /\ S \subseteq Supported(nodes)
                      /\ \A i \in S : Unique(x(i), {})
                      /\ \A i, j \in S : i # j => Apart(x(i), x(j))
           Bad == {n \in 0 .. L : ~Good(made[n])}
<1>6. \A n \in 0 .. L : made[n] = IF n = 0 THEN {} ELSE Next1(n, made[n - 1])
  <2> HIDE DEF made, Next1
  <2> QED BY <1>4
<1>7. Bad = {}
  <2> SUFFICES ASSUME Bad # {} PROVE FALSE
    OBVIOUS
  <2>1. Bad \in SUBSET Nat
    OBVIOUS
  <2>2. PICK n \in Bad : \A k \in Bad : n <= k
    <3> HIDE DEF Bad
    <3> QED BY <2>1, LeastOfNaturals
  <2>3. n \in 0 .. L /\ ~Good(made[n])
    OBVIOUS
  <2> HIDE DEF made
  <2>4. n # 0
    <3>1. Good({})
      OBVIOUS
    <3> HIDE DEF Good, Next1
    <3> QED BY <1>6, <2>3, <3>1
  <2>5. n - 1 \in 0 .. L /\ n - 1 \notin Bad
    BY <1>1, <2>2, <2>3, <2>4
  <2> DEFINE S == made[n - 1]
  <2>6. Good(S)
    BY <2>5
  <2>7. made[n] = Next1(n, S)
    BY <1>6, <2>3, <2>4
  <2> HIDE DEF S
  <2>8. ASSUME Takes(n, S) PROVE Good(S \cup {n})
    <3>1. n \in Supported(nodes) /\ Unique(x(n), {}) /\ Fresh(n, S)
      BY <2>8
    <3>2. ASSUME NEW j \in S PROVE Apart(x(j), x(n)) /\ Apart(x(n), x(j))
      <4>1. x(j).name # x(n).name /\ (x(n).ip # None => x(j).ip # x(n).ip)
        BY <3>1, <3>2
      <4> HIDE DEF x
      <4> QED BY <4>1 DEF Apart
    <3> HIDE DEF x, Fresh
    <3> QED BY <2>6, <3>1, <3>2
  <2> HIDE DEF Good, Takes
  <2>9. Good(made[n])
    BY <2>6, <2>7, <2>8
  <2> QED BY <2>3, <2>9
<1>8. Good(made[L])
  <2>1. L \in 0 .. L
    BY <1>1
  <2> HIDE DEF made, Good, L
  <2> QED BY <1>7, <2>1
<1> HIDE DEF made
<1> QED BY <1>5, <1>8
(* A lab's cables end on devices that are there or have just been created.     *)
LEMMA ByNodeThere ==
  ASSUME RegistryInv, NEW nodes \in Seq(LabNodes), NEW made \in SUBSET Supported(nodes), NEW i,
         ByNode(nodes, made, i) # None
  PROVE  ByNode(nodes, made, i) \in Live \cup (LastId + 1 .. LastId + Cardinality(made))
<1> DEFINE same == {d \in Live : device[d].name = nodes[i].name}
           twins == {j \in made : j <= i /\ nodes[j].name = nodes[i].name}
<1>1. CASE same # {}
  <2>1. (CHOOSE d \in same : TRUE) \in Live
    BY <1>1
  <2> QED BY <1>1, <2>1 DEF ByNode
<1>2. CASE same = {}
  <2>1. twins # {}
    BY <1>2 DEF ByNode
  <2> DEFINE j == CHOOSE k \in twins : TRUE
  <2>2. j \in made
    BY <2>1
  <2>3. ByNode(nodes, made, i) = LastId + Rank(made, j)
    BY <1>2, <2>1 DEF ByNode
  <2>4. made \in SUBSET Nat /\ IsFiniteSet(made)
    <3>1. made \in SUBSET (1 .. Len(nodes)) /\ Len(nodes) \in Nat
      BY LenProperties DEF Supported
    <3>2. IsFiniteSet(1 .. Len(nodes))
      BY <3>1, FS_Interval
    <3>3. IsFiniteSet(made)
      BY <3>1, <3>2, FS_Subset
    <3> QED BY <3>1, <3>3
  <2> HIDE DEF j
  <2>5. Rank(made, j) \in 1 .. Cardinality(made) /\ Cardinality(made) \in Nat
    BY <2>2, <2>4, RankOf, FS_CardinalityType
  <2>6. LastId \in Nat
    BY LiveIds, InventoryAssumption
  <2> QED BY <2>3, <2>5, <2>6
<1> QED BY <1>1, <1>2

LEMMA JoinedIsGood ==
  ASSUME RegistryInv, DrawingInv, NEW nodes \in Seq(LabNodes), NEW joins \in Seq(LabJoins),
         NEW made \in SUBSET Supported(nodes), NEW new,
         LastId + 1 .. LastId + Cardinality(made) = new, new \subseteq Ids
  PROVE  /\ Joined(nodes, made, joins) \subseteq Cables
         /\ \A o \in Joined(nodes, made, joins) : o \in cable \/ Pair(o) \subseteq Live \cup new
<1> DEFINE L == Len(joins)
           by(i) == ByNode(nodes, made, i)
           c(k) == Link(by(joins[k].i), joins[k].pi, by(joins[k].j), joins[k].pj, "physical",
                        None, None)
           Fits1(k, S) == /\ None \notin Pair(c(k)) /\ c(k).a # c(k).b /\ EndsFree(c(k), S)
                          /\ Cardinality(S) < MaxLinks
           Next1(k, S) == IF Fits1(k, S) THEN S \cup {c(k)} ELSE S
           A == SUBSET (cable \cup {c(k) : k \in 1 .. L})
           step == [p \in (1 .. L) \X A |-> Next1(p[1], p[2])]
           Is(cables) == cables = [k \in 0 .. L |-> IF k = 0 THEN cable ELSE Next1(k, cables[k - 1])]
           cables == CHOOSE f : Is(f)
<1>1. L \in Nat
  BY LenProperties
<1>2. step \in [(1 .. L) \X A -> A]
  <2>1. \A k \in 1 .. L : \A S \in A : Next1(k, S) \in A
    <3> HIDE DEF Fits1, c
    <3> QED OBVIOUS
  <2> HIDE DEF Next1
  <2> QED BY <2>1
<1>3. \E f : Is(f)
  <2>1. cable \in A
    OBVIOUS
  <2>2. PICK f \in [0 .. L -> A] : f[0] = cable /\ \A n \in 1 .. L : f[n] = step[<<n, f[n - 1]>>]
    <3> HIDE DEF step, A, L
    <3>1. Builds(L, A, cable, step)
      BY <1>1, <1>2, <2>1, Folded
    <3> QED BY <3>1 DEF Builds
  <2>3. ASSUME NEW n \in 0 .. L
        PROVE  f[n] = IF n = 0 THEN cable ELSE Next1(n, f[n - 1])
    <3>1. CASE n = 0
      BY <2>2, <3>1
    <3>2. CASE n # 0
      <4>1. n \in 1 .. L /\ n - 1 \in 0 .. L
        BY <1>1, <3>2
      <4>2. f[n] = step[<<n, f[n - 1]>>] /\ f[n - 1] \in A
        BY <2>2, <4>1
      <4>3. <<n, f[n - 1]>> \in (1 .. L) \X A
        <5> HIDE DEF A, L
        <5> QED BY <4>1, <4>2
      <4> HIDE DEF Next1, A, L
      <4>4. step[<<n, f[n - 1]>>] = Next1(n, f[n - 1])
        BY <4>3
      <4> QED BY <3>2, <4>2, <4>4
    <3> QED BY <3>1, <3>2
  <2> HIDE DEF Next1, A, L
  <2>4. Is(f)
    BY <2>3
  <2> QED BY <2>4
<1>4. Is(cables)
  <2> HIDE DEF Is
  <2> QED BY <1>3
<1>5. Joined(nodes, made, joins) = cables[L]
  BY DEF Joined
<1> DEFINE Good(S) == S \subseteq Cables /\ \A o \in S : o \in cable \/ Pair(o) \subseteq Live \cup new
           Bad == {n \in 0 .. L : ~Good(cables[n])}
<1>6. \A n \in 0 .. L : cables[n] = IF n = 0 THEN cable ELSE Next1(n, cables[n - 1])
  <2> HIDE DEF cables, Next1
  <2> QED BY <1>4
<1>7. Good(cable)
  BY DEF DrawingInv, DesignOK
<1>8. ASSUME NEW k \in 1 .. L, None \notin Pair(c(k))
      PROVE  c(k) \in Cables /\ Pair(c(k)) \subseteq Live \cup new
  <2>1. joins[k].pi \in Ports /\ joins[k].pj \in Ports
    <3>1. joins[k] \in LabJoins
      BY <1>1, ElementOfSeq
    <3> QED BY <3>1 DEF LabJoins
  <2> DEFINE from == by(joins[k].i)
             to == by(joins[k].j)
  <2>2. Pair(c(k)) = {from, to}
    BY DEF Pair, Link
  <2>3. from # None /\ to # None
    <3> HIDE DEF from, to, c
    <3> QED BY <1>8, <2>2
  <2>4. from \in Live \cup new /\ to \in Live \cup new
    BY <2>3, ByNodeThere
  <2>5. from \in Ids /\ to \in Ids
    <3> HIDE DEF from, to
    <3> QED BY <2>4, LiveIds
  <2>6. c(k) = Link(from, joins[k].pi, to, joins[k].pj, "physical", None, None)
    OBVIOUS
  <2> HIDE DEF c, from, to
  <2>7. c(k) \in Cables
    BY <2>1, <2>5, <2>6 DEF Link, Cables, LinkTypes
  <2> QED BY <2>2, <2>4, <2>7
<1>9. Bad = {}
  <2> SUFFICES ASSUME Bad # {} PROVE FALSE
    OBVIOUS
  <2>1. Bad \in SUBSET Nat
    <3> HIDE DEF cables, Good
    <3> QED BY <1>1
  <2>2. PICK n \in Bad : \A k \in Bad : n <= k
    <3> HIDE DEF Bad
    <3> QED BY <2>1, LeastOfNaturals
  <2>3. n \in 0 .. L /\ ~Good(cables[n])
    OBVIOUS
  <2> HIDE DEF cables
  <2>4. n # 0
    <3> HIDE DEF Good, Next1
    <3> QED BY <1>6, <1>7, <2>3
  <2>5. n - 1 \in 0 .. L /\ n - 1 \notin Bad /\ n \in 1 .. L
    BY <1>1, <2>2, <2>3, <2>4
  <2> DEFINE S == cables[n - 1]
  <2>6. Good(S)
    BY <2>5
  <2>7. cables[n] = Next1(n, S)
    BY <1>6, <2>3, <2>4
  <2> HIDE DEF S
  <2>8. ASSUME Fits1(n, S) PROVE Good(S \cup {c(n)})
    <3>1. c(n) \in Cables /\ Pair(c(n)) \subseteq Live \cup new
      BY <1>8, <2>5, <2>8
    <3> HIDE DEF c
    <3> QED BY <2>6, <3>1
  <2> HIDE DEF Good, Fits1, c
  <2>9. Good(cables[n])
    BY <2>6, <2>7, <2>8
  <2> QED BY <2>3, <2>9
<1>10. Good(cables[L])
  <2>1. L \in 0 .. L
    BY <1>1
  <2> HIDE DEF cables, Good, L
  <2> QED BY <1>9, <2>1
<1> HIDE DEF cables
<1> QED BY <1>5, <1>10

LEMMA ImportLabKeeps ==
  ASSUME RegistryInv, DrawingInv, BinInv, NEW nodes \in Seq(LabNodes),
         NEW joins \in Seq(LabJoins), NEW typed \in BOOLEAN, ImportLab(nodes, joins, typed)
  PROVE  RegistryInv' /\ DrawingInv' /\ BinInv'
<1> DEFINE made == Made(nodes)
           n == Cardinality(made)
           chosen(k) == CHOOSE i \in made : Rank(made, i) = k
           x(k) == FromNode(nodes, chosen(k))
           batch == [k \in 1 .. n |-> x(k)]
<1>1. /\ Cardinality(FreeIps) > Len(nodes) /\ AddDevices(batch, typed)
      /\ cable' = Joined(nodes, made, joins) /\ UNCHANGED <<design, imported, bin>>
  BY DEF ImportLab
<1>2. /\ made \subseteq Supported(nodes)
      /\ \A i \in made : Unique(FromNode(nodes, i), {})
      /\ \A i, j \in made : i # j => Apart(FromNode(nodes, i), FromNode(nodes, j))
  BY MadeIsGood
<1>3. IsFiniteSet(made) /\ made \in SUBSET Nat /\ n \in Nat
  <2>1. made \in SUBSET (1 .. Len(nodes)) /\ Len(nodes) \in Nat
    BY <1>2, LenProperties DEF Supported
  <2>2. IsFiniteSet(1 .. Len(nodes))
    BY <2>1, FS_Interval
  <2> QED BY <2>1, <2>2, FS_Subset, FS_CardinalityType
<1>4. ASSUME NEW k \in 1 .. n
      PROVE  chosen(k) \in made /\ Rank(made, chosen(k)) = k
  <2>1. Lowest(made, k) \in made /\ Rank(made, Lowest(made, k)) = k
    <3> HIDE DEF made
    <3> QED BY <1>3, LowestTaken DEF Rank
  <2> HIDE DEF made
  <2> QED BY <2>1
<1>5. ASSUME NEW k \in 1 .. n
      PROVE  x(k) \in Shapes /\ Consistent(x(k)) /\ Unique(x(k), {})
  <2>1. chosen(k) \in made /\ chosen(k) \in Supported(nodes)
    BY <1>2, <1>4
  <2> HIDE DEF chosen, made
  <2> QED BY <1>1, <1>2, <2>1, NodeShape
<1>6. ASSUME NEW k \in 1 .. n, NEW l \in 1 .. n, k # l
      PROVE  Apart(x(k), x(l))
  <2>1. chosen(k) \in made /\ chosen(l) \in made /\ chosen(k) # chosen(l)
    BY <1>4, <1>6
  <2> HIDE DEF chosen, made
  <2> QED BY <1>2, <2>1
<1>7. batch \in Seq(Shapes) /\ Len(batch) = n /\ \A k \in 1 .. n : batch[k] = x(k)
  <2> HIDE DEF x, n
  <2>1. batch \in [1 .. n -> Shapes]
    BY <1>5
  <2>2. \A k \in 1 .. n : batch[k] = x(k)
    OBVIOUS
  <2> HIDE DEF batch
  <2> QED BY <1>3, <2>1, <2>2, SeqOf
<1>8. GoodBatch(batch)
  <2> HIDE DEF batch, x, n
  <2> QED BY <1>5, <1>6, <1>7 DEF GoodBatch
<1>9. NewIds(batch) = LastId + 1 .. LastId + n /\ NewIds(batch) \subseteq Ids
  <2> HIDE DEF batch, n
  <2> QED BY <1>1, <1>7, NewIdsFree DEF NewIds, AddDevices
<1>10. /\ cable' \subseteq Cables
       /\ \A o \in cable' : o \in cable \/ Pair(o) \subseteq Live \cup NewIds(batch)
  <2> HIDE DEF batch, made
  <2> QED BY <1>1, <1>2, <1>9, JoinedIsGood
<1> HIDE DEF batch
<1>11. imported' \subseteq Messages /\ UNCHANGED <<design, bin>>
  BY <1>1 DEF DrawingInv
<1> QED BY <1>1, <1>8, <1>10, <1>11, BuiltKeeps

LEMMA BuildStepKeeps ==
  ASSUME RegistryInv, DrawingInv, BinInv, BuildStep
  PROVE  RegistryInv' /\ DrawingInv' /\ BinInv'
<1>1. CASE \E t \in Templates, planned, typed \in BOOLEAN : QuickAdd(t, planned, typed)
  BY <1>1, QuickAddKeeps
<1>2. CASE \E t, u \in Templates, planned \in BOOLEAN, type \in {"physical", "routed"} :
              Blueprint(t, u, planned, type)
  BY <1>2, BlueprintKeeps
<1>3. CASE \E S \in SUBSET Ids : Duplicate(S)
  BY <1>3, DuplicateKeeps
<1>4. CASE \E nodes \in Seq(LabNodes), joins \in Seq(LabJoins), typed \in BOOLEAN :
              ImportLab(nodes, joins, typed)
  BY <1>4, ImportLabKeeps
<1>5. CASE \E m \in Messages : ImportChat(m)
  BY <1>5, ImportChatKeeps
<1> QED BY <1>1, <1>2, <1>3, <1>4, <1>5 DEF BuildStep
----------------------------------------------------------------------------
(* Deleting a device, and undoing it. *)

LEMMA TokenTyped ==
  ASSUME RegistryInv, DrawingInv, NEW d \in Live
  PROVE  TokenOK(Token(d), born)
<1> DEFINE t == Token(d)
<1>1. /\ t.id = d /\ t.dev = device[d] /\ t.login = login[d]
      /\ t.access = On(access, {d}) /\ t.svi = On(svi, {d}) /\ t.subif = On(subif, {d})
      /\ t.loop = On(loop, {d}) /\ t.plain = On(plain, {d}) /\ t.cables = Touching({d})
  BY DEF Token
<1>2. /\ d \in Ids /\ device[d] \in DeviceRows /\ device[d].uid \in 1 .. born
      /\ Consistent(device[d]) /\ login[d] \in {Shared, device[d].uid, None}
  BY DEF Live, RegistryInv, DevicesOK, LoginsOK
<1>3. /\ On(access, {d}) \subseteq AccessPorts /\ On(svi, {d}) \subseteq Svis
      /\ On(subif, {d}) \subseteq Subifs /\ On(loop, {d}) \subseteq Loopbacks
      /\ On(plain, {d}) \subseteq Plains /\ Touching({d}) \subseteq Cables
  BY DEF DrawingInv, DesignOK, On, Touching
<1> HIDE DEF t
<1> QED BY <1>1, <1>2, <1>3 DEF t, TokenOK

LEMMA DeleteKeeps ==
  ASSUME RegistryInv, DrawingInv, BinInv, NEW d \in Ids, NEW undoable \in BOOLEAN,
         DeleteDevice(d, undoable)
  PROVE  RegistryInv' /\ DrawingInv' /\ BinInv'
<1>1. /\ d \in Live /\ bin' = (IF undoable THEN bin \cup {Token(d)} ELSE bin)
      /\ PurgeRows({d}, device, login) /\ PurgeDesign({d})
      /\ UNCHANGED <<record, default, born, imported>>
  BY DEF DeleteDevice, Deletable
<1>2. RegistryInv' /\ \A e \in Ids \ {d} : device'[e] = device[e]
  <2>1. /\ DevicesOK(device, born) /\ OneEach(device) /\ LoginsOK(device, login)
        /\ KeepsDevices(device) /\ born \in 0 .. MaxBorn
    BY DEF RegistryInv, KeepsDevices, Live
  <2>2. \A r \in record' : r.left \/ (r \in record /\ r.dev \notin {d})
    BY <1>1 DEF DeleteDevice, Deletable
  <2> QED BY <1>1, <2>1, <2>2, PurgeKeeps
<1>3. \A e \in Ids : e # d /\ device[e] # None => device'[e] # None
  BY <1>2
<1>4. DesignOK(device', cable', vlan', access', svi', subif', loop', plain')
  <2>1. /\ cable' = cable \ Touching({d}) /\ vlan' = vlan
        /\ access' = access \ On(access, {d}) /\ svi' = svi \ On(svi, {d})
        /\ subif' = subif \ On(subif, {d}) /\ loop' = loop \ On(loop, {d})
        /\ plain' = plain \ On(plain, {d})
    BY <1>1 DEF PurgeDesign
  <2>2. Wired(cable', device')
    BY <1>3, <2>1 DEF DrawingInv, DesignOK, Wired, Touching, Pair, Cables
  <2>3. Drawn(access', device') /\ Drawn(svi', device')
    BY <1>3, <2>1 DEF DrawingInv, DesignOK, Drawn, On, AccessPorts, Svis
  <2>4. Drawn(subif', device') /\ Drawn(loop', device') /\ Drawn(plain', device')
    BY <1>3, <2>1 DEF DrawingInv, DesignOK, Drawn, On, Subifs, Loopbacks, Plains
  <2> QED BY <2>1, <2>2, <2>3, <2>4 DEF DrawingInv, DesignOK
<1>5. DrawingInv'
  BY <1>1, <1>4 DEF DrawingInv
<1>6. BinInv'
  BY <1>1, TokenTyped DEF BinInv
<1> QED BY <1>2, <1>5, <1>6

LEMMA UndoKeeps ==
  ASSUME RegistryInv, DrawingInv, BinInv, NEW t \in bin, UndoDelete(t)
  PROVE  RegistryInv' /\ DrawingInv' /\ BinInv'
<1> DEFINE d == RestoredId(t)
           back == {Recabled(c, t, d) : c \in t.cables}
<1>1. /\ d \in Ids /\ Unique(t.dev, {})
      /\ device' = [device EXCEPT ![d] = t.dev] /\ login' = [login EXCEPT ![d] = t.login]
      /\ member' = (IF t.grouped THEN member \cup {[dev |-> d, uid |-> t.dev.uid]} ELSE member)
      /\ access' = access \cup Moved(t.access, d) /\ svi' = svi \cup Moved(t.svi, d)
      /\ subif' = subif \cup Moved(t.subif, d) /\ loop' = loop \cup Moved(t.loop, d)
      /\ plain' = plain \cup Moved(t.plain, d)
      /\ cable' = cable \cup {c \in back : Pair(c) \subseteq Live \cup {d} /\ EndsFree(c, cable)}
      /\ UNCHANGED <<record, change, default, born, vlan, imported, bin>>
  BY DEF UndoDelete
<1>2. TokenOK(t, born)
  BY DEF BinInv
<1>3. device[d] = None /\ d \notin Live
  <2>1. CASE device[t.id] = None
    BY <2>1 DEF RestoredId, Live
  <2>2. CASE device[t.id] # None
    <3>1. d = LastId + 1
      BY <2>2 DEF RestoredId
    <3>2. d \notin Live
      BY <3>1, LiveIds, InventoryAssumption
    <3> QED BY <1>1, <3>2 DEF Live
  <2> QED BY <2>1, <2>2
<1> HIDE DEF d
<1>4. /\ t.dev \in DeviceRows /\ t.dev # None /\ t.dev.uid \in 1 .. born /\ Consistent(t.dev)
      /\ t.login \in {Shared, t.dev.uid, None}
      /\ born \in 0 .. MaxBorn /\ MaxBorn \in Nat /\ t.dev.uid \in 1 .. MaxBorn
      /\ device \in [Ids -> DeviceRows \cup {None}]
      /\ login \in [Ids -> 1 .. MaxBorn \cup {Shared, None}]
  BY <1>2, NoRow, InventoryAssumption DEF TokenOK, RegistryInv, DevicesOK, LoginsOK
<1>5. \A e \in Ids : device'[e] = IF e = d THEN t.dev ELSE device[e]
  BY <1>1, <1>4
<1>6. KeepsDevices(device') /\ device'[d] # None /\ device'[d].uid = t.dev.uid
  BY <1>1, <1>3, <1>4, <1>5 DEF KeepsDevices, Live
<1>7. RegistryInv'
  <2>1. DevicesOK(device', born')
    BY <1>1, <1>4, <1>5 DEF RegistryInv, DevicesOK
  <2>2. OneEach(device')
    <3>1. ASSUME NEW e \in Ids, e # d, device[e] # None
          PROVE  Apart(t.dev, device[e]) /\ Apart(device[e], t.dev)
      BY <1>1, <3>1 DEF Unique, Live, Apart
    <3>2. \A e, f \in Ids : e # f /\ device[e] # None /\ device[f] # None => Apart(device[e], device[f])
      BY DEF RegistryInv, OneEach
    <3> QED BY <1>1, <1>5, <3>1, <3>2 DEF OneEach
  <2>3. LoginsOK(device', login')
    <3>1. \A e \in Ids : login'[e] = IF e = d THEN t.login ELSE login[e]
      BY <1>1, <1>4
    <3>2. login' \in [Ids -> 1 .. MaxBorn \cup {Shared, None}]
      BY <1>1, <1>4
    <3> QED BY <1>4, <1>5, <3>1, <3>2 DEF RegistryInv, LoginsOK
  <2>4. MembersOK(device', member) /\ ChangesOK(device', change) /\ RecordsOK(device', record)
    BY <1>6, RowsStay
  <2>5. MembersOK(device', member')
    BY <1>1, <1>6, <2>4 DEF MembersOK
  <2> QED BY <1>1, <2>1, <2>2, <2>3, <2>4, <2>5 DEF RegistryInv
<1>8. DesignOK(device', cable', vlan', access', svi', subif', loop', plain')
  <2>1. DesignOK(device', cable, vlan, access, svi, subif, loop, plain)
    BY <1>6, DesignStays
  <2>2. cable' \subseteq Cables /\ Wired(cable', device')
    <3>1. back \subseteq Cables
      <4>1. ASSUME NEW c \in Cables PROVE Recabled(c, t, d) \in Cables
        BY <1>1 DEF Recabled, Cables
      <4> QED BY <1>2, <4>1 DEF TokenOK
    <3> HIDE DEF back
    <3>2. \A e \in Live \cup {d} : device'[e] # None
      BY <1>6 DEF KeepsDevices
    <3> QED BY <1>1, <2>1, <3>1, <3>2 DEF DesignOK, Wired, Pair
  <2>3. access' \subseteq AccessPorts /\ Drawn(access', device')
    BY <1>1, <1>2, <1>6, <2>1 DEF DesignOK, TokenOK, Moved, Drawn, AccessPorts
  <2>4. svi' \subseteq Svis /\ Drawn(svi', device')
    BY <1>1, <1>2, <1>6, <2>1 DEF DesignOK, TokenOK, Moved, Drawn, Svis
  <2>5. subif' \subseteq Subifs /\ Drawn(subif', device')
    BY <1>1, <1>2, <1>6, <2>1 DEF DesignOK, TokenOK, Moved, Drawn, Subifs
  <2>6. loop' \subseteq Loopbacks /\ Drawn(loop', device')
    BY <1>1, <1>2, <1>6, <2>1 DEF DesignOK, TokenOK, Moved, Drawn, Loopbacks
  <2>7. plain' \subseteq Plains /\ Drawn(plain', device')
    BY <1>1, <1>2, <1>6, <2>1 DEF DesignOK, TokenOK, Moved, Drawn, Plains
  <2> QED BY <1>1, <2>1, <2>2, <2>3, <2>4, <2>5, <2>6, <2>7 DEF DesignOK
<1>9. DrawingInv'
  BY <1>1, <1>8 DEF DrawingInv
<1>10. BinInv'
  BY <1>1 DEF BinInv
<1> QED BY <1>7, <1>9, <1>10

LEMMA TrashStepKeeps ==
  ASSUME RegistryInv, DrawingInv, BinInv, TrashStep
  PROVE  RegistryInv' /\ DrawingInv' /\ BinInv'
BY DeleteKeeps, UndoKeeps DEF TrashStep
----------------------------------------------------------------------------
(* Saved versions: documents whose cables and rows name devices of the same     *)
(* document, and whose devices fit next to each other.                         *)

NamedCables == [a : Names, pa : Ports, b : Names, pb : Ports, type : LinkTypes,
                net : Nets \cup {Mgmt, None}, vlans : {None} \cup SUBSET VlanIds,
                chan : Channels \cup {None}]
NamedAccess == [dev : Names, port : Ports, vlan : VlanIds]
NamedSvis == [dev : Names, vlan : VlanIds, net : Nets]
NamedSubifs == [dev : Names, port : Ports, vlan : VlanIds, net : Nets]
NamedLoops == [dev : Names, net : Nets]
NamedPlains == [dev : Names, kind : {"route", "ospf"}]

ShapesOK(xs) == /\ xs \subseteq Shapes /\ IsFiniteSet(xs)
                /\ \A x \in xs : Consistent(x)
                /\ \A x, y \in xs : x # y => Apart(x, y)
Holds(doc, n) == \E x \in doc.devices : x.name = n
DocOK(doc) ==
    /\ ShapesOK(doc.devices)
    /\ doc.cables \subseteq NamedCables /\ doc.vlan \subseteq VlanIds
    /\ doc.access \subseteq NamedAccess /\ doc.svi \subseteq NamedSvis
    /\ doc.subif \subseteq NamedSubifs /\ doc.loop \subseteq NamedLoops
    /\ doc.plain \subseteq NamedPlains
    /\ \A o \in doc.cables : Holds(doc, o.a) /\ Holds(doc, o.b)
    /\ \A r \in doc.access : Holds(doc, r.dev)
    /\ \A r \in doc.svi : Holds(doc, r.dev)
    /\ \A r \in doc.subif : Holds(doc, r.dev)
    /\ \A r \in doc.loop : Holds(doc, r.dev)
    /\ \A r \in doc.plain : Holds(doc, r.dev)
Documents ==
    {doc \in [devices : SUBSET Shapes, cables : SUBSET NamedCables, vlan : SUBSET VlanIds,
              access : SUBSET NamedAccess, svi : SUBSET NamedSvis, subif : SUBSET NamedSubifs,
              loop : SUBSET NamedLoops, plain : SUBSET NamedPlains] : DocOK(doc)}
SavedRows == [auto : BOOLEAN, doc : Documents]
VersionsInv == version \in Seq(SavedRows) /\ Len(version) <= MaxVersions

TopologyInv == RegistryInv /\ DrawingInv /\ BinInv /\ VersionsInv
LEMMA ExportedOK ==
  ASSUME RegistryInv, DrawingInv
  PROVE  Exported \in Documents
<1> DEFINE shapes == {Shape(device[d]) : d \in Live}
           cables == {[o EXCEPT !.a = NameOf(@), !.b = NameOf(@)] : o \in cable}
<1>1. /\ IsFiniteSet(Live)
      /\ \A d \in Live : d \in Ids /\ device[d] \in DeviceRows /\ Consistent(device[d])
  BY LiveIds DEF RegistryInv, DevicesOK, Live
<1>2. \A d \in Live : /\ Shape(device[d]) \in Shapes /\ Consistent(Shape(device[d]))
                      /\ NameOf(d) \in Names /\ Shape(device[d]).name = NameOf(d)
                      /\ Shape(device[d]).ip = device[d].ip
  BY <1>1, ShapeOf DEF Shapes, NameOf
<1>3. ShapesOK(shapes)
  <2>1. shapes \subseteq Shapes /\ \A x \in shapes : Consistent(x)
    BY <1>2
  <2>2. IsFiniteSet(shapes)
    <3>1. [d \in Live |-> Shape(device[d])] \in Surjection(Live, shapes)
      BY DEF Surjection
    <3> HIDE DEF shapes
    <3> QED BY <1>1, <3>1, FS_Surjection
  <2>3. ASSUME NEW x \in shapes, NEW y \in shapes, x # y PROVE Apart(x, y)
    <3>1. PICK d \in Live : x = Shape(device[d])
      OBVIOUS
    <3>2. PICK e \in Live : y = Shape(device[e])
      OBVIOUS
    <3>3. d # e /\ Apart(device[d], device[e])
      BY <1>1, <2>3, <3>1, <3>2 DEF RegistryInv, OneEach, Live
    <3> QED BY <1>2, <3>1, <3>2, <3>3 DEF Apart, NameOf
  <2> HIDE DEF shapes
  <2> QED BY <2>1, <2>2, <2>3 DEF ShapesOK
<1>4. \A d \in Live : \E x \in shapes : x.name = NameOf(d)
  BY <1>2
<1>5. cables \subseteq NamedCables /\ \A o \in cables : /\ \E x \in shapes : x.name = o.a
                                                       /\ \E x \in shapes : x.name = o.b
  <2>1. ASSUME NEW o \in cable
        PROVE  LET c == [o EXCEPT !.a = NameOf(@), !.b = NameOf(@)] IN
               /\ c \in NamedCables /\ \E x \in shapes : x.name = c.a
               /\ \E x \in shapes : x.name = c.b
    <3>1. o \in Cables /\ o.a \in Live /\ o.b \in Live
      BY DEF DrawingInv, DesignOK, Wired, Cables, Live
    <3> DEFINE c == [o EXCEPT !.a = NameOf(@), !.b = NameOf(@)]
    <3>2. c.a = NameOf(o.a) /\ c.b = NameOf(o.b)
      BY <3>1 DEF Cables
    <3>3. c \in NamedCables
      BY <1>2, <3>1 DEF Cables, NamedCables
    <3> HIDE DEF c, shapes
    <3>4. c \in NamedCables /\ (\E x \in shapes : x.name = c.a) /\ \E x \in shapes : x.name = c.b
      BY <1>4, <3>1, <3>2, <3>3
    <3> QED BY <3>4 DEF c
  <2> HIDE DEF shapes
  <2> QED BY <2>1
<1>6. /\ ByName(access) \subseteq NamedAccess /\ ByName(svi) \subseteq NamedSvis
      /\ ByName(subif) \subseteq NamedSubifs /\ ByName(loop) \subseteq NamedLoops
      /\ ByName(plain) \subseteq NamedPlains
  <2>1. \A r \in access : r \in AccessPorts /\ r.dev \in Live
    BY DEF DrawingInv, DesignOK, Drawn, AccessPorts, Live
  <2>2. \A r \in svi : r \in Svis /\ r.dev \in Live
    BY DEF DrawingInv, DesignOK, Drawn, Svis, Live
  <2>3. \A r \in subif : r \in Subifs /\ r.dev \in Live
    BY DEF DrawingInv, DesignOK, Drawn, Subifs, Live
  <2>4. \A r \in loop : r \in Loopbacks /\ r.dev \in Live
    BY DEF DrawingInv, DesignOK, Drawn, Loopbacks, Live
  <2>5. \A r \in plain : r \in Plains /\ r.dev \in Live
    BY DEF DrawingInv, DesignOK, Drawn, Plains, Live
  <2>6. ByName(access) \subseteq NamedAccess
    BY <1>2, <2>1 DEF ByName, AccessPorts, NamedAccess
  <2>7. ByName(svi) \subseteq NamedSvis
    BY <1>2, <2>2 DEF ByName, Svis, NamedSvis
  <2>8. ByName(subif) \subseteq NamedSubifs
    BY <1>2, <2>3 DEF ByName, Subifs, NamedSubifs
  <2>9. ByName(loop) \subseteq NamedLoops
    BY <1>2, <2>4 DEF ByName, Loopbacks, NamedLoops
  <2>10. ByName(plain) \subseteq NamedPlains
    BY <1>2, <2>5 DEF ByName, Plains, NamedPlains
  <2> QED BY <2>6, <2>7, <2>8, <2>9, <2>10
<1>7. /\ \A r \in ByName(access) : \E x \in shapes : x.name = r.dev
      /\ \A r \in ByName(svi) : \E x \in shapes : x.name = r.dev
      /\ \A r \in ByName(subif) : \E x \in shapes : x.name = r.dev
      /\ \A r \in ByName(loop) : \E x \in shapes : x.name = r.dev
      /\ \A r \in ByName(plain) : \E x \in shapes : x.name = r.dev
  <2> HIDE DEF shapes
  <2>1. \A r \in ByName(access) : \E x \in shapes : x.name = r.dev
    BY <1>4 DEF ByName, DrawingInv, DesignOK, Drawn, AccessPorts, Live
  <2>2. \A r \in ByName(svi) : \E x \in shapes : x.name = r.dev
    BY <1>4 DEF ByName, DrawingInv, DesignOK, Drawn, Svis, Live
  <2>3. \A r \in ByName(subif) : \E x \in shapes : x.name = r.dev
    BY <1>4 DEF ByName, DrawingInv, DesignOK, Drawn, Subifs, Live
  <2>4. \A r \in ByName(loop) : \E x \in shapes : x.name = r.dev
    BY <1>4 DEF ByName, DrawingInv, DesignOK, Drawn, Loopbacks, Live
  <2>5. \A r \in ByName(plain) : \E x \in shapes : x.name = r.dev
    BY <1>4 DEF ByName, DrawingInv, DesignOK, Drawn, Plains, Live
  <2> QED BY <2>1, <2>2, <2>3, <2>4, <2>5
<1>8. /\ Exported = [devices |-> shapes, cables |-> cables, vlan |-> vlan,
                     access |-> ByName(access), svi |-> ByName(svi), subif |-> ByName(subif),
                     loop |-> ByName(loop), plain |-> ByName(plain)]
      /\ vlan \subseteq VlanIds /\ shapes \subseteq Shapes
  BY <1>3 DEF Exported, DrawingInv, DesignOK, ShapesOK
<1> HIDE DEF shapes, cables
<1>9. DocOK(Exported)
  BY <1>3, <1>5, <1>6, <1>7, <1>8 DEF DocOK, Holds
<1> QED BY <1>5, <1>6, <1>8, <1>9 DEF Documents

(* Making room for a version takes one out and leaves the others in order.      *)
LEMMA WithoutOne ==
  ASSUME NEW i \in DOMAIN version, version \in Seq(SavedRows)
  PROVE  /\ Without(i) \in Seq(SavedRows) /\ Len(Without(i)) = Len(version) - 1
         /\ \A j \in DOMAIN version : j # i => \E k \in DOMAIN Without(i) : Without(i)[k] = version[j]
<1> DEFINE n == Len(version)
           before == SubSeq(version, 1, i - 1)
           after == SubSeq(version, i + 1, n)
<1>1. n \in Nat /\ DOMAIN version = 1 .. n /\ i \in 1 .. n /\ \A j \in 1 .. n : version[j] \in SavedRows
  BY LenProperties, ElementOfSeq
<1>2. /\ before \in Seq(SavedRows) /\ Len(before) = i - 1
      /\ \A j \in 1 .. i - 1 : before[j] = version[j]
  <2> HIDE DEF n
  <2>1. 1 \in Int /\ i - 1 \in Int /\ \A j \in 1 .. i - 1 : version[j] \in SavedRows
    BY <1>1
  <2>2. /\ before \in Seq(SavedRows)
        /\ Len(before) = IF 1 <= i - 1 THEN (i - 1) - 1 + 1 ELSE 0
        /\ \A j \in 1 .. (i - 1) - 1 + 1 : before[j] = version[1 + j - 1]
    BY <2>1, SubSeqProperties
  <2> HIDE DEF before
  <2> QED BY <1>1, <2>2
<1>3. /\ after \in Seq(SavedRows) /\ Len(after) = n - i
      /\ \A j \in 1 .. n - i : after[j] = version[i + j]
  <2> HIDE DEF n
  <2>1. i + 1 \in Int /\ n \in Int /\ \A j \in i + 1 .. n : version[j] \in SavedRows
    BY <1>1
  <2>2. /\ after \in Seq(SavedRows)
        /\ Len(after) = IF i + 1 <= n THEN n - (i + 1) + 1 ELSE 0
        /\ \A j \in 1 .. n - (i + 1) + 1 : after[j] = version[(i + 1) + j - 1]
    BY <2>1, SubSeqProperties
  <2> HIDE DEF after
  <2>3. /\ n - (i + 1) + 1 = n - i /\ (i + 1 <= n \/ n = i)
        /\ \A j \in 1 .. n - i : (i + 1) + j - 1 = i + j
    BY <1>1
  <2>4. Len(after) = n - i
    BY <1>1, <2>2, <2>3
  <2>5. \A j \in 1 .. n - i : after[j] = version[(i + 1) + j - 1]
    BY <2>2, <2>3
  <2>6. \A j \in 1 .. n - i : after[j] = version[i + j]
    BY <2>3, <2>5
  <2> QED BY <2>2, <2>4, <2>6
<1>4. Without(i) = before \o after
  BY DEF Without
<1> HIDE DEF before, after, n
<1>5. /\ Without(i) \in Seq(SavedRows) /\ Len(Without(i)) = n - 1
      /\ \A k \in 1 .. n - 1 : Without(i)[k] = IF k <= i - 1 THEN before[k] ELSE after[k - (i - 1)]
  <2>1. /\ before \o after \in Seq(SavedRows) /\ Len(before \o after) = Len(before) + Len(after)
        /\ \A k \in 1 .. Len(before) + Len(after) :
              (before \o after)[k] = IF k <= Len(before) THEN before[k] ELSE after[k - Len(before)]
    BY <1>2, <1>3, ConcatProperties
  <2> QED BY <1>1, <1>2, <1>3, <1>4, <2>1
<1>6. DOMAIN Without(i) = 1 .. n - 1
  BY <1>1, <1>5, LenProperties
<1>7. ASSUME NEW j \in 1 .. n, j # i
      PROVE  \E k \in 1 .. n - 1 : Without(i)[k] = version[j]
  <2>1. CASE j < i
    <3>1. j \in 1 .. n - 1 /\ j <= i - 1 /\ j \in 1 .. i - 1
      BY <1>1, <2>1
    <3> QED BY <1>2, <1>5, <3>1
  <2>2. CASE j > i
    <3>1. j - 1 \in 1 .. n - 1 /\ ~(j - 1 <= i - 1) /\ j - i \in 1 .. n - i
          /\ (j - 1) - (i - 1) = j - i /\ i + (j - i) = j
      BY <1>1, <2>2
    <3>2. Without(i)[j - 1] = after[j - i]
      BY <1>5, <3>1
    <3> QED BY <1>3, <3>1, <3>2
  <2> QED BY <1>1, <1>7, <2>1, <2>2
<1> QED BY <1>1, <1>5, <1>6, <1>7 DEF n

LEMMA StoredOK ==
  ASSUME RegistryInv, DrawingInv, VersionsInv, Storable, NEW auto \in BOOLEAN
  PROVE  /\ Stored(auto) \in Seq(SavedRows) /\ Len(Stored(auto)) <= MaxVersions
         /\ \E k \in DOMAIN Stored(auto) : /\ Stored(auto)[k].auto = auto
                                           /\ Stored(auto)[k].doc = Exported
         /\ \A j \in DOMAIN version : ~version[j].auto =>
               \E k \in DOMAIN Stored(auto) : Stored(auto)[k] = version[j]
<1> DEFINE n == Len(version)
           row == [auto |-> auto, doc |-> Exported]
           rest == IF n < MaxVersions THEN version ELSE Without(Oldest)
<1>1. /\ n \in Nat /\ n <= MaxVersions /\ DOMAIN version = 1 .. n /\ version \in Seq(SavedRows)
      /\ MaxVersions \in Nat
  BY LenProperties, VersionsAssumption DEF VersionsInv
<1>2. n < MaxVersions \/ (Oldest \in DOMAIN version /\ version[Oldest].auto)
  <2>1. CASE Autos # {}
    <3>1. Autos \in SUBSET Nat
      BY <1>1 DEF Autos
    <3>2. \E i \in Autos : \A j \in Autos : i <= j
      BY <2>1, <3>1, LeastOfNaturals
    <3>3. Oldest \in Autos
      BY <3>2 DEF Oldest
    <3> QED BY <3>3 DEF Autos
  <2> QED BY <2>1 DEF Storable
<1>3. /\ rest \in Seq(SavedRows) /\ Len(rest) < MaxVersions
      /\ \A j \in DOMAIN version : ~version[j].auto => \E k \in DOMAIN rest : rest[k] = version[j]
  <2>1. CASE n < MaxVersions
    <3>1. rest = version
      BY <2>1
    <3> HIDE DEF rest
    <3> QED BY <1>1, <2>1, <3>1
  <2>2. CASE ~(n < MaxVersions)
    <3>1. rest = Without(Oldest) /\ Oldest \in DOMAIN version /\ version[Oldest].auto
      BY <1>2, <2>2
    <3> DEFINE o == Oldest
    <3>2. /\ Without(o) \in Seq(SavedRows) /\ Len(Without(o)) = n - 1
          /\ \A j \in DOMAIN version : j # o => \E k \in DOMAIN Without(o) : Without(o)[k] = version[j]
      <4>1. o \in DOMAIN version
        BY <3>1
      <4> HIDE DEF o
      <4> QED BY <1>1, <4>1, WithoutOne
    <3>3. \A j \in DOMAIN version : ~version[j].auto => j # o
      BY <3>1
    <3>4. rest = Without(o)
      BY <3>1
    <3> HIDE DEF rest, o
    <3> QED BY <1>1, <3>2, <3>3, <3>4
  <2> QED BY <2>1, <2>2
<1>4. row \in SavedRows /\ row.auto = auto /\ row.doc = Exported
  BY ExportedOK DEF SavedRows
<1>5. Stored(auto) = Append(rest, row)
  BY DEF Stored
<1> HIDE DEF rest, row
<1> DEFINE m == Len(rest)
           new == Append(rest, row)
<1>6. /\ new \in Seq(SavedRows) /\ Len(new) = m + 1 /\ new[m + 1] = row
      /\ \A k \in 1 .. m : new[k] = rest[k]
  BY <1>3, <1>4, AppendProperties
<1>7. m \in Nat /\ DOMAIN rest = 1 .. m
  BY <1>3, LenProperties
<1> HIDE DEF new
<1>8. DOMAIN new = 1 .. m + 1
  BY <1>6, LenProperties
<1>9. m + 1 <= MaxVersions /\ m + 1 \in 1 .. m + 1 /\ \A k \in 1 .. m : k \in 1 .. m + 1
  BY <1>1, <1>3, <1>7
<1> HIDE DEF m
<1>10. \A j \in DOMAIN version : ~version[j].auto => \E k \in DOMAIN new : new[k] = version[j]
  BY <1>3, <1>6, <1>7, <1>8, <1>9
<1>11. \E k \in DOMAIN new : new[k].auto = auto /\ new[k].doc = Exported
  BY <1>4, <1>6, <1>8, <1>9
<1>12. Stored(auto) = new
  BY <1>5 DEF new
<1> QED BY <1>6, <1>9, <1>10, <1>11, <1>12
----------------------------------------------------------------------------
(* Restoring a version. *)

(* The devices to be made, in the order of their names. *)
LEMMA SortedIsGood ==
  ASSUME NEW xs, ShapesOK(xs), \A x \in xs : Unique(x, {})
  PROVE  /\ GoodBatch(Sorted(xs)) /\ Len(Sorted(xs)) = Cardinality(xs)
         /\ \A x \in xs : \E i \in 1 .. Cardinality(xs) : Sorted(xs)[i] = x
<1> DEFINE key == [x \in xs |-> x.name]
           n == Cardinality(xs)
           place(x) == Cardinality({y \in xs : y.name <= x.name})
           at(i) == CHOOSE x \in xs : place(x) = i
<1>1. /\ IsFiniteSet(xs) /\ n \in Nat /\ \A x \in xs : x \in Shapes /\ x.name \in Nat
      /\ \A x, y \in xs : x # y => Apart(x, y)
  BY FS_CardinalityType, InventoryAssumption DEF ShapesOK, Shapes
<1>2. key \in [xs -> Nat] /\ Injects(xs, key)
  BY <1>1 DEF Injects, Apart
<1>3. \A x \in xs : place(x) = Cardinality(Upto(xs, key, x))
  <2>1. \A x \in xs : Upto(xs, key, x) = {y \in xs : y.name <= x.name}
    BY DEF Upto
  <2> QED BY <2>1
<1> HIDE DEF key
<1>4. ASSUME NEW i \in 1 .. n
      PROVE  at(i) \in xs /\ place(at(i)) = i
  <2>1. \E x \in xs : Cardinality(Upto(xs, key, x)) = i
    BY <1>1, <1>2, RankTaken
  <2>2. \E x \in xs : place(x) = i
    <3> HIDE DEF place
    <3> QED BY <1>3, <2>1
  <2> HIDE DEF place
  <2> QED BY <2>2
<1>5. ASSUME NEW x \in xs
      PROVE  place(x) \in 1 .. n /\ at(place(x)) = x
  <2>1. place(x) \in 1 .. n
    BY <1>1, <1>2, <1>3, UptoFinite
  <2>2. at(place(x)) \in xs /\ place(at(place(x))) = place(x)
    BY <1>4, <2>1
  <2> DEFINE y == at(place(x))
  <2> HIDE DEF y, place
  <2>3. y \in xs /\ Cardinality(Upto(xs, key, y)) = Cardinality(Upto(xs, key, x))
    BY <1>3, <2>2 DEF y
  <2>4. y = x
    BY <1>1, <1>2, <2>3, RanksDiffer
  <2> QED BY <2>1, <2>4 DEF y
<1>6. Sorted(xs) = [i \in 1 .. n |-> at(i)]
  BY DEF Sorted
<1> HIDE DEF place, at, n
<1>7. /\ Sorted(xs) \in Seq(Shapes) /\ Len(Sorted(xs)) = n
      /\ \A i \in 1 .. n : Sorted(xs)[i] = at(i)
  <2>1. Sorted(xs) \in [1 .. n -> Shapes]
    BY <1>1, <1>4, <1>6
  <2> QED BY <1>1, <1>6, <2>1, SeqOf
<1>8. \A i \in 1 .. n : Consistent(at(i)) /\ Unique(at(i), {})
  BY <1>4 DEF ShapesOK
<1>9. \A i, j \in 1 .. n : i # j => Apart(at(i), at(j))
  BY <1>1, <1>4
<1>10. GoodBatch(Sorted(xs))
  BY <1>7, <1>8, <1>9 DEF GoodBatch
<1> QED BY <1>5, <1>7, <1>10 DEF n

(* Role and kind may be edited in place: nothing else of a device changes.      *)
Likens(dev, new) ==
    /\ new \in [Ids -> DeviceRows \cup {None}]
    /\ \A d \in Ids : /\ dev[d] = None <=> new[d] = None
                      /\ dev[d] # None =>
                            /\ new[d].name = dev[d].name /\ new[d].ip = dev[d].ip
                            /\ new[d].uid = dev[d].uid /\ new[d].type = dev[d].type
                            /\ new[d].planned = dev[d].planned

LEMMA LikensKeeps ==
  ASSUME NEW dev, NEW b, NEW log, DevicesOK(dev, b), OneEach(dev), LoginsOK(dev, log),
         NEW new, Likens(dev, new)
  PROVE  /\ DevicesOK(new, b) /\ OneEach(new) /\ LoginsOK(new, log)
         /\ KeepsDevices(dev) => KeepsDevices(new)
<1>1. DevicesOK(new, b)
  BY DEF Likens, DevicesOK, Consistent, Managed, Deployable
<1>2. OneEach(new)
  BY DEF Likens, OneEach, Apart
<1>3. LoginsOK(new, log)
  BY DEF Likens, LoginsOK
<1>4. KeepsDevices(dev) => KeepsDevices(new)
  BY DEF Likens, KeepsDevices, Live
<1> QED BY <1>1, <1>2, <1>3, <1>4

LEMMA InPlaceLikens ==
  ASSUME RegistryInv, NEW doc, DocOK(doc), NEW dev, NEW b, DevicesOK(dev, b),
         \A d \in Live : dev[d] = device[d], NEW edited \in SUBSET Present(doc)
  PROVE  /\ Likens(dev, InPlace(doc, dev))
         /\ Likens(dev, [d \in Ids |-> IF d \in edited THEN InPlace(doc, dev)[d] ELSE dev[d]])
<1> DEFINE new == InPlace(doc, dev)
<1>1. dev \in [Ids -> DeviceRows \cup {None}]
  BY DEF DevicesOK
<1>2. ASSUME NEW d \in Present(doc)
      PROVE  /\ d \in Ids /\ dev[d] \in DeviceRows /\ dev[d] # None
             /\ DocNamed(doc, NameOf(d)).role \in Roles /\ DocNamed(doc, NameOf(d)).kind \in Kinds
  <2>1. d \in Live /\ \E x \in doc.devices : x.name = NameOf(d)
    BY DEF Present
  <2>2. DocNamed(doc, NameOf(d)) \in doc.devices
    BY <2>1 DEF DocNamed
  <2>3. DocNamed(doc, NameOf(d)) \in Shapes
    BY <2>2 DEF DocOK, ShapesOK
  <2>4. dev[d] # None /\ d \in Ids
    BY <2>1 DEF Live
  <2> QED BY <1>1, <2>3, <2>4 DEF Shapes
<1>3. ASSUME NEW d \in Present(doc)
      PROVE  /\ new[d] \in DeviceRows /\ new[d] # None
             /\ new[d].name = dev[d].name /\ new[d].ip = dev[d].ip /\ new[d].uid = dev[d].uid
             /\ new[d].type = dev[d].type /\ new[d].planned = dev[d].planned
  <2> DEFINE x == dev[d]
             ro == DocNamed(doc, NameOf(d)).role
             ki == DocNamed(doc, NameOf(d)).kind
  <2>1. new[d] = [x EXCEPT !.role = ro, !.kind = ki]
    BY <1>2 DEF InPlace
  <2>2. x \in DeviceRows /\ ro \in Roles /\ ki \in Kinds
    BY <1>2
  <2> HIDE DEF new, x, ro, ki
  <2>3. /\ new[d] \in DeviceRows /\ new[d].name = x.name /\ new[d].ip = x.ip
        /\ new[d].uid = x.uid /\ new[d].type = x.type /\ new[d].planned = x.planned
    BY <2>1, <2>2 DEF DeviceRows
  <2> QED BY <2>3, NoRow DEF x
<1>4. \A d \in Ids : d \notin Present(doc) => new[d] = dev[d]
  BY DEF InPlace
<1>5. \A d \in Ids : /\ new[d] \in DeviceRows \cup {None}
                     /\ dev[d] = None <=> new[d] = None
                     /\ dev[d] # None =>
                            /\ new[d].name = dev[d].name /\ new[d].ip = dev[d].ip
                            /\ new[d].uid = dev[d].uid /\ new[d].type = dev[d].type
                            /\ new[d].planned = dev[d].planned
  <2> HIDE DEF new
  <2> QED BY <1>1, <1>2, <1>3, <1>4
<1>6. new = [d \in Ids |-> new[d]]
  BY DEF InPlace
<1> HIDE DEF new
<1>7. Likens(dev, new)
  BY <1>5, <1>6 DEF Likens
<1>8. Likens(dev, [d \in Ids |-> IF d \in edited THEN new[d] ELSE dev[d]])
  BY <1>1, <1>5 DEF Likens
<1> QED BY <1>7, <1>8 DEF new
LEMMA StopsKeeps ==
  ASSUME RegistryInv, NEW doc, DocOK(doc), RestoreStops(doc)
  PROVE  /\ RegistryInv' /\ born' \in Nat /\ born <= born'
         /\ DesignOK(device', cable', vlan', access', svi', subif', loop', plain')
         /\ \A d \in Live : device'[d] # None /\ device'[d].uid = device[d].uid
                            /\ login'[d] = login[d]
<1>1. PICK made \in SUBSET {x \in Missing(doc) : WellFormed(x) /\ Unique(x, {})},
           edited \in SUBSET Present(doc) :
          LET dev == Added(Sorted(made)) IN
          /\ Fits(Sorted(made))
          /\ device' = [d \in Ids |-> IF d \in edited THEN InPlace(doc, dev)[d] ELSE dev[d]]
          /\ login' = AddedLogin(Sorted(made), FALSE)
          /\ born' = born + Cardinality(made)
  BY DEF RestoreStops
<1> DEFINE batch == Sorted(made)
           dev == Added(batch)
           log == AddedLogin(batch, FALSE)
<1>2. UNCHANGED <<member, record, change, default>> /\ ClearDesign
  BY DEF RestoreStops
<1>3. ShapesOK(made) /\ \A x \in made : Unique(x, {})
  <2>1. made \in SUBSET doc.devices
    BY DEF Missing
  <2>2. IsFiniteSet(made)
    BY <2>1, FS_Subset DEF DocOK, ShapesOK
  <2> QED BY <2>1, <2>2 DEF DocOK, ShapesOK
<1>4. GoodBatch(batch) /\ Len(batch) = Cardinality(made)
  BY <1>3, SortedIsGood
<1>5. Fits(batch) /\ login' = log /\ born' = born + Len(batch)
  BY <1>1, <1>4
<1>6. device' = [d \in Ids |-> IF d \in edited THEN InPlace(doc, dev)[d] ELSE dev[d]]
  BY <1>1
<1> HIDE DEF batch
<1>7. /\ DevicesOK(dev, born') /\ OneEach(dev) /\ LoginsOK(dev, log)
      /\ born' \in 0 .. MaxBorn
      /\ \A d \in Live : dev[d] = device[d] /\ log[d] = login[d]
  <2>1. FALSE \in BOOLEAN
    OBVIOUS
  <2> QED BY <1>4, <1>5, <2>1, BatchAdded
<1> HIDE DEF dev, log
<1>8. Likens(dev, device')
  BY <1>6, <1>7, InPlaceLikens
<1>9. KeepsDevices(dev)
  BY <1>7 DEF KeepsDevices, Live
<1>10. /\ DevicesOK(device', born') /\ OneEach(device') /\ LoginsOK(device', log)
       /\ KeepsDevices(device')
  BY <1>7, <1>8, <1>9, LikensKeeps
<1>11. MembersOK(device', member') /\ ChangesOK(device', change') /\ RecordsOK(device', record')
  BY <1>2, <1>10, RowsStay
<1>12. RegistryInv'
  <2>1. default \in BOOLEAN
    BY DEF RegistryInv
  <2> QED BY <1>2, <1>5, <1>7, <1>10, <1>11, <2>1 DEF RegistryInv
<1>13. DesignOK(device', cable', vlan', access', svi', subif', loop', plain')
  BY <1>2 DEF ClearDesign, DesignOK, Wired, Drawn
<1>14. born' \in Nat /\ born <= born'
  <2>1. Len(batch) \in Nat
    BY <1>4, LenProperties DEF GoodBatch
  <2> QED BY <1>5, <2>1, InventoryAssumption DEF RegistryInv
<1> QED BY <1>5, <1>7, <1>10, <1>12, <1>13, <1>14 DEF KeepsDevices

(* The rows of a kind that are written are rows of the document. *)
LEMMA WrittenSome ==
  ASSUME NEW doc, NEW k \in 1 .. 5, NEW w \in Written(doc, k)
  PROVE  w \subseteq RowKinds(doc)[k]
<1>1. Passing(doc)[k] \subseteq RowKinds(doc)[k]
  <2>1. k = 1 \/ k = 2 \/ k = 3 \/ k = 4 \/ k = 5
    OBVIOUS
  <2>2. /\ Passing(doc)[1] \subseteq RowKinds(doc)[1] /\ Passing(doc)[2] \subseteq RowKinds(doc)[2]
        /\ Passing(doc)[3] \subseteq RowKinds(doc)[3] /\ Passing(doc)[4] \subseteq RowKinds(doc)[4]
        /\ Passing(doc)[5] \subseteq RowKinds(doc)[5]
    BY DEF Passing, RowKinds
  <2> QED BY <2>1, <2>2
<1> QED BY <1>1 DEF Written

LEMMA WriteKeeps ==
  ASSUME NEW doc, DocOK(doc), NEW dev, NEW gone, dev \in [Ids -> DeviceRows \cup {None}],
         \A x \in doc.devices : \E d \in Ids : dev[d] # None /\ dev[d].name = x.name,
         \A d \in Ids : dev[d] # None /\ Holds(doc, dev[d].name) => gone[d] # None,
         Write(doc, dev)
  PROVE  DesignOK(gone, cable', vlan', access', svi', subif', loop', plain')
<1>1. ASSUME NEW n, Holds(doc, n)
      PROVE  ById(dev, n) \in Ids /\ gone[ById(dev, n)] # None
  <2>1. \E d \in Ids : dev[d] # None /\ dev[d].name = n
    BY <1>1 DEF Holds
  <2>2. ById(dev, n) \in Ids /\ dev[ById(dev, n)] # None /\ dev[ById(dev, n)].name = n
    BY <2>1 DEF ById
  <2> QED BY <1>1, <2>2
<1>2. cable' \subseteq Cables /\ Wired(cable', gone)
  <2>1. PICK cs \in SUBSET doc.cables : cable' = PlacedCables(cs, dev)
    BY DEF Write
  <2>2. ASSUME NEW o \in cs
        PROVE  LET c == [o EXCEPT !.a = ById(dev, @), !.b = ById(dev, @)] IN
               c \in Cables /\ gone[c.a] # None /\ gone[c.b] # None
    <3>1. o \in NamedCables /\ Holds(doc, o.a) /\ Holds(doc, o.b)
      BY DEF DocOK
    <3> DEFINE c == [o EXCEPT !.a = ById(dev, @), !.b = ById(dev, @)]
    <3>2. /\ ById(dev, o.a) \in Ids /\ ById(dev, o.b) \in Ids
          /\ gone[ById(dev, o.a)] # None /\ gone[ById(dev, o.b)] # None
      BY <1>1, <3>1
    <3>3. c \in Cables /\ c.a = ById(dev, o.a) /\ c.b = ById(dev, o.b)
      BY <3>1, <3>2 DEF NamedCables, Cables
    <3> HIDE DEF c
    <3>4. c \in Cables /\ gone[c.a] # None /\ gone[c.b] # None
      BY <3>2, <3>3
    <3> QED BY <3>4 DEF c
  <2> QED BY <2>1, <2>2 DEF PlacedCables, Wired
<1>3. vlan' \subseteq VlanIds
  BY DEF Write, DocOK
<1>4. /\ \E w \in SUBSET doc.access : access' = Placed(w, dev)
      /\ \E w \in SUBSET doc.svi : svi' = Placed(w, dev)
      /\ \E w \in SUBSET doc.loop : loop' = Placed(w, dev)
      /\ \E w \in SUBSET doc.subif : subif' = Placed(w, dev)
      /\ \E w \in SUBSET doc.plain : plain' = Placed(w, dev)
  <2>1. \A k \in 1 .. 5 : \A w \in Written(doc, k) : w \subseteq RowKinds(doc)[k]
    BY WrittenSome
  <2>2. /\ RowKinds(doc)[1] = doc.access /\ RowKinds(doc)[2] = doc.svi
        /\ RowKinds(doc)[3] = doc.loop /\ RowKinds(doc)[4] = doc.subif
        /\ RowKinds(doc)[5] = doc.plain
    BY DEF RowKinds
  <2>3. /\ \A w \in Written(doc, 1) : w \subseteq doc.access
        /\ \A w \in Written(doc, 2) : w \subseteq doc.svi
        /\ \A w \in Written(doc, 3) : w \subseteq doc.loop
        /\ \A w \in Written(doc, 4) : w \subseteq doc.subif
        /\ \A w \in Written(doc, 5) : w \subseteq doc.plain
    BY <2>1, <2>2
  <2> DEFINE fits == CablesFit(doc.cables)
             ws(k) == IF fits THEN Written(doc, k) ELSE {{}}
  <2>4. /\ \E w \in ws(1) : access' = Placed(w, dev)
        /\ \E w \in ws(2) : svi' = Placed(w, dev)
        /\ \E w \in ws(3) : loop' = Placed(w, dev)
        /\ \E w \in ws(4) : subif' = Placed(w, dev)
        /\ \E w \in ws(5) : plain' = Placed(w, dev)
    BY DEF Write
  <2>5. /\ \A w \in ws(1) : w \subseteq doc.access
        /\ \A w \in ws(2) : w \subseteq doc.svi
        /\ \A w \in ws(3) : w \subseteq doc.loop
        /\ \A w \in ws(4) : w \subseteq doc.subif
        /\ \A w \in ws(5) : w \subseteq doc.plain
    BY <2>3
  <2> HIDE DEF ws
  <2> QED BY <2>4, <2>5
<1>5. access' \subseteq AccessPorts /\ Drawn(access', gone)
  <2>1. PICK w \in SUBSET doc.access : access' = Placed(w, dev)
    BY <1>4
  <2>2. \A r \in w : r \in NamedAccess /\ ById(dev, r.dev) \in Ids /\ gone[ById(dev, r.dev)] # None
    BY <1>1 DEF DocOK
  <2> QED BY <2>1, <2>2 DEF Placed, NamedAccess, AccessPorts, Drawn
<1>6. svi' \subseteq Svis /\ Drawn(svi', gone)
  <2>1. PICK w \in SUBSET doc.svi : svi' = Placed(w, dev)
    BY <1>4
  <2>2. \A r \in w : r \in NamedSvis /\ ById(dev, r.dev) \in Ids /\ gone[ById(dev, r.dev)] # None
    BY <1>1 DEF DocOK
  <2> QED BY <2>1, <2>2 DEF Placed, NamedSvis, Svis, Drawn
<1>7. subif' \subseteq Subifs /\ Drawn(subif', gone)
  <2>1. PICK w \in SUBSET doc.subif : subif' = Placed(w, dev)
    BY <1>4
  <2>2. \A r \in w : r \in NamedSubifs /\ ById(dev, r.dev) \in Ids /\ gone[ById(dev, r.dev)] # None
    BY <1>1 DEF DocOK
  <2> QED BY <2>1, <2>2 DEF Placed, NamedSubifs, Subifs, Drawn
<1>8. loop' \subseteq Loopbacks /\ Drawn(loop', gone)
  <2>1. PICK w \in SUBSET doc.loop : loop' = Placed(w, dev)
    BY <1>4
  <2>2. \A r \in w : r \in NamedLoops /\ ById(dev, r.dev) \in Ids /\ gone[ById(dev, r.dev)] # None
    BY <1>1 DEF DocOK
  <2> QED BY <2>1, <2>2 DEF Placed, NamedLoops, Loopbacks, Drawn
<1>9. plain' \subseteq Plains /\ Drawn(plain', gone)
  <2>1. PICK w \in SUBSET doc.plain : plain' = Placed(w, dev)
    BY <1>4
  <2>2. \A r \in w : r \in NamedPlains /\ ById(dev, r.dev) \in Ids /\ gone[ById(dev, r.dev)] # None
    BY <1>1 DEF DocOK
  <2> QED BY <2>1, <2>2 DEF Placed, NamedPlains, Plains, Drawn
<1> QED BY <1>2, <1>3, <1>5, <1>6, <1>7, <1>8, <1>9 DEF DesignOK

(* A record is under the id of a device that stays, or marked as left behind. *)
LEMMA LeftOrThere ==
  ASSUME RegistryInv, NEW S, record' = LeftBehind(S)
  PROVE  \A r \in record' : r.left \/ (r \in record /\ r.dev \notin S)
<1> QED BY DEF LeftBehind, RegistryInv, RecordsOK

LEMMA RunsKeeps ==
  ASSUME RegistryInv, NEW doc, DocOK(doc), NEW prune \in BOOLEAN, RestoreRuns(doc, prune)
  PROVE  /\ RegistryInv' /\ born' \in Nat /\ born <= born'
         /\ DesignOK(device', cable', vlan', access', svi', subif', loop', plain')
         /\ \A d \in Live : IF device'[d] = None THEN prune
                            ELSE device'[d].uid = device[d].uid /\ login'[d] = login[d]
<1> DEFINE missing == Missing(doc)
           batch == Sorted(missing)
           made == Added(batch)
           log == AddedLogin(batch, FALSE)
           dev == InPlace(doc, made)
           S == Pruned(doc, prune)
<1>1. /\ DevicesFit(doc) /\ Fits(batch) /\ PurgeRows(S, dev, log)
      /\ born' = born + Len(batch) /\ UNCHANGED default /\ Write(doc, dev)
      /\ record' = LeftBehind(S)
  BY DEF RestoreRuns
<1>2. /\ ShapesOK(missing) /\ \A x \in missing : Unique(x, {})
  <2>1. missing \in SUBSET doc.devices
    BY DEF Missing
  <2>2. IsFiniteSet(missing)
    BY <2>1, FS_Subset DEF DocOK, ShapesOK
  <2> QED BY <1>1, <2>1, <2>2 DEF DocOK, ShapesOK, DevicesFit
<1>3. /\ GoodBatch(batch) /\ Len(batch) = Cardinality(missing)
      /\ \A x \in missing : \E i \in 1 .. Cardinality(missing) : batch[i] = x
  <2> HIDE DEF missing
  <2> QED BY <1>2, SortedIsGood
<1> HIDE DEF batch
<1>4. /\ DevicesOK(made, born') /\ OneEach(made) /\ LoginsOK(made, log)
      /\ born' \in 0 .. MaxBorn
      /\ \A d \in Live : made[d] = device[d] /\ log[d] = login[d]
      /\ \A d \in NewIds(batch) : /\ d \in Ids \ Live /\ made[d] # None
                                  /\ d - LastId \in 1 .. Len(batch)
                                  /\ Shape(made[d]) = batch[d - LastId]
      /\ \A d \in Ids : made[d] # None => d \in Live \cup NewIds(batch)
  <2>1. FALSE \in BOOLEAN
    OBVIOUS
  <2> QED BY <1>1, <1>3, <2>1, BatchAdded
<1> HIDE DEF made, log
<1>5. Likens(made, dev)
  <2>1. {} \in SUBSET Present(doc)
    OBVIOUS
  <2> QED BY <1>4, <2>1, InPlaceLikens
<1> HIDE DEF dev
<1>6. KeepsDevices(made)
  BY <1>4 DEF KeepsDevices, Live
<1>7. DevicesOK(dev, born') /\ OneEach(dev) /\ LoginsOK(dev, log) /\ KeepsDevices(dev)
  BY <1>4, <1>5, <1>6, LikensKeeps
<1>8. RegistryInv' /\ \A d \in Ids \ S : device'[d] = dev[d]
  <2> HIDE DEF S
  <2>1. \A r \in record' : r.left \/ (r \in record /\ r.dev \notin S)
    BY <1>1, LeftOrThere
  <2> QED BY <1>1, <1>4, <1>7, <2>1, PurgeKeeps
<1>9. \A x \in doc.devices : \E d \in Ids : dev[d] # None /\ dev[d].name = x.name
  <2> SUFFICES ASSUME NEW x \in doc.devices
               PROVE  \E d \in Ids : dev[d] # None /\ dev[d].name = x.name
    OBVIOUS
  <2>1. CASE x \in missing
    <3>1. PICK i \in 1 .. Cardinality(missing) : batch[i] = x
      BY <1>3, <2>1
    <3>2. LastId \in Nat /\ Len(batch) \in Nat
      BY <1>3, LiveIds, LenProperties, InventoryAssumption DEF GoodBatch
    <3> HIDE DEF missing
    <3>3. LastId + i \in NewIds(batch) /\ (LastId + i) - LastId = i
      BY <1>3, <3>2 DEF NewIds
    <3>4. /\ LastId + i \in Ids /\ made[LastId + i] # None /\ Shape(made[LastId + i]) = x
      BY <1>4, <3>1, <3>3
    <3>5. made[LastId + i].name = x.name
      BY <3>4 DEF Shape
    <3> QED BY <1>5, <3>4, <3>5 DEF Likens
  <2>2. CASE x \notin missing
    <3>1. PICK d \in Live : NameOf(d) = x.name
      BY <2>2 DEF Missing
    <3>2. d \in Ids /\ made[d] = device[d] /\ device[d] # None
      BY <1>4 DEF Live
    <3> QED BY <1>5, <3>1, <3>2 DEF Likens, NameOf
  <2> QED BY <2>1, <2>2
<1>10. \A d \in Ids : dev[d] # None /\ Holds(doc, dev[d].name) => device'[d] # None
  <2> SUFFICES ASSUME NEW d \in Ids, dev[d] # None, Holds(doc, dev[d].name), d \in S
               PROVE  FALSE
    BY <1>8
  <2>1. d \in Live /\ d \notin Present(doc)
    BY DEF Pruned
  <2>2. dev[d].name = NameOf(d)
    BY <1>4, <1>5, <2>1 DEF Likens, NameOf
  <2> QED BY <2>1, <2>2 DEF Present, Holds
<1>11. DesignOK(device', cable', vlan', access', svi', subif', loop', plain')
  <2>1. dev \in [Ids -> DeviceRows \cup {None}]
    BY <1>5 DEF Likens
  <2> QED BY <1>1, <1>9, <1>10, <2>1, WriteKeeps
<1>12. born' \in Nat /\ born <= born'
  <2>1. Len(batch) \in Nat
    BY <1>3, LenProperties DEF GoodBatch
  <2> QED BY <1>1, <2>1, InventoryAssumption DEF RegistryInv
<1>13. ASSUME NEW d \in Live
       PROVE  IF device'[d] = None THEN prune
              ELSE device'[d].uid = device[d].uid /\ login'[d] = login[d]
  <2>1. d \in Ids /\ dev[d] # None /\ dev[d].uid = device[d].uid /\ log[d] = login[d]
    BY <1>4, <1>7 DEF KeepsDevices, Live
  <2>2. /\ device'[d] = (IF d \in S THEN None ELSE dev[d])
        /\ login'[d] = (IF d \in S THEN None ELSE log[d])
    BY <1>1, <2>1 DEF PurgeRows
  <2>3. d \in S => prune
    BY DEF Pruned
  <2> QED BY <2>1, <2>2, <2>3
<1> QED BY <1>8, <1>11, <1>12, <1>13

LEMMA RestoreKeeps ==
  ASSUME TopologyInv, NEW i \in DOMAIN version, NEW prune \in BOOLEAN, RestoreVersion(i, prune)
  PROVE  /\ TopologyInv'
         /\ \A d \in Live : IF device'[d] = None THEN prune
                            ELSE device'[d].uid = device[d].uid /\ login'[d] = login[d]
<1> DEFINE doc == version[i].doc
<1> USE DEF TopologyInv
<1>1. DocOK(doc)
  <2>1. version[i] \in SavedRows
    BY LenProperties, ElementOfSeq DEF VersionsInv
  <2> QED BY <2>1 DEF SavedRows, Documents
<1>2. /\ Storable /\ version' = Stored(TRUE) /\ (RestoreStops(doc) \/ RestoreRuns(doc, prune))
      /\ UNCHANGED <<imported, bin>>
  BY DEF RestoreVersion
<1> HIDE DEF doc
<1>3. /\ RegistryInv' /\ born' \in Nat /\ born <= born'
      /\ DesignOK(device', cable', vlan', access', svi', subif', loop', plain')
      /\ \A d \in Live : IF device'[d] = None THEN prune
                         ELSE device'[d].uid = device[d].uid /\ login'[d] = login[d]
  <2>1. CASE RestoreStops(doc)
    BY <1>1, <2>1, StopsKeeps
  <2>2. CASE RestoreRuns(doc, prune)
    BY <1>1, <2>2, RunsKeeps
  <2> QED BY <1>2, <2>1, <2>2
<1>4. DrawingInv'
  BY <1>2, <1>3 DEF DrawingInv
<1>5. BinInv'
  BY <1>2, <1>3, BinStays
<1>6. VersionsInv'
  <2>1. TRUE \in BOOLEAN
    OBVIOUS
  <2> QED BY <1>2, <2>1, StoredOK DEF VersionsInv
<1> QED BY <1>3, <1>4, <1>5, <1>6
----------------------------------------------------------------------------
(* The inductive invariant. *)

LEMMA TopologyStarts == TopologyInit => TopologyInv
<1> SUFFICES ASSUME TopologyInit PROVE TopologyInv
  OBVIOUS
<1> USE DEF TopologyInit, InventoryInit, DiagramInit, VersionsInit
<1>1. RegistryInv
  <2>1. DevicesOK(device, born) /\ OneEach(device)
    BY DEF DevicesOK, OneEach
  <2>2. /\ LoginsOK(device, login) /\ MembersOK(device, member) /\ ChangesOK(device, change)
        /\ RecordsOK(device, record)
    BY DEF LoginsOK, MembersOK, ChangesOK, RecordsOK
  <2>3. born \in 0 .. MaxBorn
    BY InventoryAssumption
  <2>4. default \in BOOLEAN
    BY Zenon
  <2> QED BY <2>1, <2>2, <2>3, <2>4 DEF RegistryInv
<1>2. DrawingInv /\ BinInv
  BY DEF DrawingInv, DesignOK, Wired, Drawn, BinInv
<1>3. VersionsInv
  <2>1. <<>> \in Seq(SavedRows) /\ Len(<<>>) = 0
    OBVIOUS
  <2> QED BY <2>1, VersionsAssumption DEF VersionsInv
<1> QED BY <1>1, <1>2, <1>3 DEF TopologyInv

LEMMA TopologyStep == TopologyInv /\ [TopologyNext]_vsVars => TopologyInv'
<1> SUFFICES ASSUME TopologyInv, [TopologyNext]_vsVars PROVE TopologyInv'
  OBVIOUS
<1> USE DEF TopologyInv
<1>1. ASSUME DeviceStep, UNCHANGED version PROVE TopologyInv'
  <2>1. RegistryInv' /\ KeepsDevices(device')
    BY <1>1, DeviceStepKeeps
  <2>2. UNCHANGED <<diagram, imported, bin>>
    BY <1>1 DEF DeviceStep
  <2>3. DesignOK(device', cable, vlan, access, svi, subif, loop, plain)
    BY <2>1, DesignStays
  <2>4. DrawingInv'
    BY <2>2, <2>3 DEF DrawingInv, diagram, design
  <2>5. born' \in Nat /\ born <= born'
    <3>1. born \in Nat /\ born' \in Nat
      BY <2>1, InventoryAssumption DEF RegistryInv
    <3>2. born' = born \/ \E k \in Nat : born' = born + k
      <4>1. \A batch \in Seq(Shapes) : Len(batch) \in Nat
        BY LenProperties
      <4>2. CASE \E x \in Shapes, typed, useProject \in BOOLEAN : CreateDevice(x, typed, useProject)
        <5>1. PICK x \in Shapes : born' = born + Len(<<x>>)
          BY <4>2 DEF CreateDevice, AddDevices
        <5>2. <<x>> \in Seq(Shapes)
          OBVIOUS
        <5> QED BY <4>1, <5>1, <5>2
      <4>3. CASE \E batch \in Seq(Shapes), typed \in BOOLEAN : ImportCsv(batch, typed)
        BY <4>1, <4>3 DEF ImportCsv, AddDevices
      <4>4. CASE UNCHANGED born
        BY <4>4
      <4> QED
        BY <1>1, <4>2, <4>3, <4>4
        DEF DeviceStep, UpdateDevice, ProvisionDevice, DropDefault, PutDefault, ApplyDefault,
            JoinGroup, LeaveGroup, MakeRecord, OpenChange, CloseChange
    <3> QED BY <3>1, <3>2
  <2>6. BinInv'
    BY <2>2, <2>5, BinStays
  <2> QED BY <1>1, <2>1, <2>4, <2>6 DEF VersionsInv
<1>2. ASSUME CableStep \/ RowStep \/ BuildStep \/ TrashStep, UNCHANGED version PROVE TopologyInv'
  <2>1. RegistryInv' /\ DrawingInv' /\ BinInv'
    BY <1>2, CableStepKeeps, RowStepKeeps, BuildStepKeeps, TrashStepKeeps
  <2> QED BY <1>2, <2>1 DEF VersionsInv
<1>3. ASSUME UNCHANGED dgVars PROVE RegistryInv' /\ DrawingInv' /\ BinInv'
  BY <1>3 DEF dgVars, invVars, diagram, design, RegistryInv, DrawingInv, BinInv
<1>4. ASSUME CreateVersion PROVE TopologyInv'
  <2>1. FALSE \in BOOLEAN
    OBVIOUS
  <2>2. VersionsInv'
    BY <1>4, <2>1, StoredOK DEF CreateVersion, VersionsInv
  <2> QED BY <1>3, <1>4, <2>2 DEF CreateVersion
<1>5. ASSUME NEW i \in DOMAIN version, DeleteVersion(i) PROVE TopologyInv'
  <2>1. Len(version) \in Nat /\ Len(version) <= MaxVersions /\ MaxVersions \in Nat
    BY LenProperties, VersionsAssumption DEF VersionsInv
  <2>2. /\ version' = Without(i) /\ Without(i) \in Seq(SavedRows)
        /\ Len(Without(i)) = Len(version) - 1
    BY <1>5, WithoutOne DEF DeleteVersion, VersionsInv
  <2>3. VersionsInv'
    BY <2>1, <2>2 DEF VersionsInv
  <2> QED BY <1>3, <1>5, <2>3 DEF DeleteVersion
<1>6. ASSUME NEW i \in DOMAIN version, NEW prune \in BOOLEAN, RestoreVersion(i, prune)
      PROVE  TopologyInv'
  BY <1>6, RestoreKeeps
<1>7. CASE UNCHANGED vsVars
  BY <1>3, <1>7 DEF vsVars, VersionsInv
<1> QED BY <1>1, <1>2, <1>4, <1>5, <1>6, <1>7 DEF TopologyNext, VersionStep

(* Every reachable project is one whose rows, drawing, restore tokens and saved  *)
(* versions fit together (devices/service.py, devices/trash.py, topology).       *)
THEOREM TopologyHolds == TopologySpec => []TopologyInv
<1>1. TopologyInit => TopologyInv
  BY TopologyStarts
<1>2. TopologyInv /\ [TopologyNext]_vsVars => TopologyInv'
  BY TopologyStep
<1> QED BY <1>1, <1>2, PTL DEF TopologySpec

(* The tables hold rows of their types, a managed and provisioned device has an  *)
(* address, and there are never more versions than MAX_VERSIONS.                *)
THEOREM ProjectIsTyped == TopologySpec => []VersionsTypeOK
<1>1. TopologyInv => VersionsTypeOK
  <2> SUFFICES ASSUME TopologyInv PROVE VersionsTypeOK
    OBVIOUS
  <2> USE DEF TopologyInv
  <2>1. InventoryTypeOK
    <3>1. \A d \in Ids : device[d] # None =>
             Shape(device[d]) \in Shapes /\ Consistent(device[d]) /\ device[d].uid \in 1 .. born
      BY ShapeOf DEF RegistryInv, DevicesOK
    <3>2. \A d \in Ids : login[d] \in 1 .. MaxBorn \cup {Shared, None}
      BY DEF RegistryInv, LoginsOK
    <3> QED BY <3>1, <3>2 DEF InventoryTypeOK, RegistryInv
  <2>2. DiagramTypeOK
    BY <2>1 DEF DiagramTypeOK, DrawingInv, DesignOK
  <2>3. \A i \in DOMAIN version : version[i].auto \in BOOLEAN
    <3>1. \A i \in DOMAIN version : version[i] \in SavedRows
      BY LenProperties, ElementOfSeq DEF VersionsInv
    <3> QED BY <3>1 DEF SavedRows
  <2> QED BY <2>2, <2>3 DEF VersionsTypeOK, VersionsInv
<1> QED BY <1>1, TopologyHolds, PTL

(* Logins, group rows, change requests, grants, assignments, drafts and           *)
(* reservations found under a device's id were made for that device, although ids   *)
(* are used again after a delete; but for the records that a restore with prune,     *)
(* which asks for none, has left behind (devices/service.py, topology/versions.py).  *)
THEOREM RowsNeverChangeHands == TopologySpec => []RowsFollowDevice
<1>1. TopologyInv => RowsFollowDevice
  BY DEF TopologyInv, RegistryInv, LoginsOK, MembersOK, ChangesOK, RecordsOK, RowsFollowDevice,
         Live
<1> QED BY <1>1, TopologyHolds, PTL

(* Cables and design rows end on devices that are there, whatever is deleted,    *)
(* restored, copied or imported.                                                *)
THEOREM DrawingNeverDangles == TopologySpec => []NothingDangles
<1>1. TopologyInv => NothingDangles
  <2> SUFFICES ASSUME TopologyInv PROVE NothingDangles
    OBVIOUS
  <2>1. DesignOK(device, cable, vlan, access, svi, subif, loop, plain)
    BY DEF TopologyInv, DrawingInv
  <2>2. \A o \in cable : Pair(o) \subseteq Live
    BY <2>1 DEF DesignOK, Wired, Cables, Pair, Live
  <2>3. \A r \in access \cup svi : r.dev \in Live
    BY <2>1 DEF DesignOK, Drawn, AccessPorts, Svis, Live
  <2>4. \A r \in subif \cup loop \cup plain : r.dev \in Live
    BY <2>1 DEF DesignOK, Drawn, Subifs, Loopbacks, Plains, Live
  <2> QED BY <2>2, <2>3, <2>4 DEF NothingDangles
<1> QED BY <1>1, TopologyHolds, PTL

----------------------------------------------------------------------------
(* What a restore and the limit on versions never lose. *)

LEMMA OnlyRestoreMarks ==
  ASSUME TopologyNext, undo' # undo, undo' # None
  PROVE  \E i \in DOMAIN version, prune \in BOOLEAN :
            RestoreVersion(i, prune) /\ undo' = [doc |-> Exported, prune |-> prune]
BY DEF TopologyNext, VersionStep, CreateVersion, DeleteVersion, RestoreVersion

(* A version saved by hand leaves only when it is deleted: _store makes room by   *)
(* taking out automatic ones.                                                   *)
THEOREM HandSavedNeverEvicted == TopologySpec => SavedByHandIsKept
<1> DEFINE A == \A i \in DOMAIN version :
                   /\ ~version[i].auto
                   /\ \A j \in DOMAIN version' : version'[j] # version[i]
                   => Len(version') < Len(version)
<1>1. TopologyInv /\ [TopologyNext]_vsVars => [A]_vsVars
  <2> SUFFICES ASSUME TopologyInv, TopologyNext, NEW i \in DOMAIN version, ~version[i].auto,
                      \A j \in DOMAIN version' : version'[j] # version[i]
               PROVE  Len(version') < Len(version)
    OBVIOUS
  <2>1. CASE UNCHANGED version
    BY <2>1
  <2>2. CASE \E auto \in BOOLEAN : Storable /\ version' = Stored(auto)
    BY <2>2, StoredOK DEF TopologyInv
  <2>3. CASE \E k \in DOMAIN version : DeleteVersion(k)
    <3>1. PICK k \in DOMAIN version : version' = Without(k)
      BY <2>3 DEF DeleteVersion
    <3>2. Len(Without(k)) = Len(version) - 1 /\ Len(version) \in Nat
      BY WithoutOne, LenProperties DEF TopologyInv, VersionsInv
    <3> QED BY <3>1, <3>2
  <2>4. TRUE \in BOOLEAN /\ FALSE \in BOOLEAN
    OBVIOUS
  <2> QED BY <2>1, <2>2, <2>3, <2>4 DEF TopologyNext, VersionStep, CreateVersion, RestoreVersion
<1> HIDE DEF A
<1>2. TopologySpec => [][A]_vsVars
  BY <1>1, TopologyHolds, PTL DEF TopologySpec
<1> QED BY <1>2 DEF A, SavedByHandIsKept

(* Only a restore that prunes removes a device, and none gives a device that was  *)
(* there another id or another login.                                           *)
THEOREM RestoreLeavesLogins == TopologySpec => RestoreKeepsLogins
<1> DEFINE A == undo' # undo /\ undo' # None =>
                  \A d \in Live : IF device'[d] = None THEN undo'.prune
                                  ELSE device'[d].uid = device[d].uid /\ login'[d] = login[d]
<1>1. TopologyInv /\ [TopologyNext]_vsVars => [A]_vsVars
  <2> SUFFICES ASSUME TopologyInv, TopologyNext, undo' # undo, undo' # None, NEW d \in Live
               PROVE  IF device'[d] = None THEN undo'.prune
                      ELSE device'[d].uid = device[d].uid /\ login'[d] = login[d]
    OBVIOUS
  <2>1. PICK i \in DOMAIN version, prune \in BOOLEAN :
               RestoreVersion(i, prune) /\ undo' = [doc |-> Exported, prune |-> prune]
    BY OnlyRestoreMarks
  <2>2. undo'.prune = prune
    BY <2>1
  <2>3. IF device'[d] = None THEN prune
        ELSE device'[d].uid = device[d].uid /\ login'[d] = login[d]
    BY <2>1, RestoreKeeps
  <2> QED BY <2>2, <2>3
<1> HIDE DEF A
<1>2. TopologySpec => [][A]_vsVars
  BY <1>1, TopologyHolds, PTL DEF TopologySpec
<1> QED BY <1>2 DEF A, RestoreKeepsLogins

=============================================================================
