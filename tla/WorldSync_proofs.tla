-------------------------- MODULE WorldSync_proofs --------------------------
(***************************************************************************)
(* For any number of objects and packages: the types of ObjectManager and  *)
(* WorldSync, that the loop over the objects steps each of them once, that *)
(* the changes sent and the changes waiting make up the objects there are, *)
(* and that an orderly client has the objects of the server.               *)
(***************************************************************************)
EXTENDS WorldSync, DataFacts

(* What the loop has left behind was stepped, if it has been there.        *)
LoopOK == /\ \A x \in stepped : x < it
          /\ \A x \in alive : x < it => x \in stepped

(* Objects are there, or were removed since the last sync, never both.     *)
ObjectsOK == /\ m_objectsById \cap m_removedIds = {}
             /\ m_newObjects \ m_removedIds \subseteq m_objectsById

ManagerInv == TypeOK /\ LoopOK /\ ObjectsOK

LEMMA InitManager == Init => ManagerInv
BY ObjectAssumption DEF Init, ManagerInv, TypeOK, LoopOK, ObjectsOK, Ids, Idle, End

(* The loop goes on with the first object behind the one it is at.         *)
LEMMA AfterProperties ==
  ASSUME TypeOK, NEW id \in Int
  PROVE  /\ After(id) \in Ids \cup {End}
         /\ After(id) > id \/ After(id) = End
         /\ \A x \in m_objectsById : x > id => After(id) <= x
<1> DEFINE T == {x \in m_objectsById : x > id} \cup {End}
<1>1. T \in SUBSET (Ids \cup {End}) /\ End \in T
  <2>1. \A x \in m_objectsById : x \in Ids
    BY ObjectAssumption DEF TypeOK, Ids
  <2> QED BY <2>1
<1>2. T \in SUBSET Nat
  BY <1>1, ObjectAssumption DEF Ids, End
<1>3. (\A x \in T : x > id \/ x = End) /\ \A x \in m_objectsById : x > id => x \in T
  OBVIOUS
<1>4. After(id) = Min(T)
  BY DEF After
<1> HIDE DEF T
<1>5. Min(T) \in T /\ \A x \in T : Min(T) <= x
  BY <1>1, <1>2, MinProperties
<1> QED BY <1>1, <1>3, <1>4, <1>5

LEMMA ScriptKeepsManager ==
  ASSUME ManagerInv, Script
  PROVE  ManagerInv'
<1>1. CASE createObject
  <2>1. TypeOK'
    BY <1>1, ObjectAssumption DEF ManagerInv, TypeOK, createObject, loopVars
  <2>2. LoopOK'
    BY <1>1 DEF ManagerInv, LoopOK, createObject, loopVars
  <2>3. ObjectsOK'
    BY <1>1 DEF ManagerInv, TypeOK, ObjectsOK, createObject
  <2> QED BY <2>1, <2>2, <2>3 DEF ManagerInv
<1>2. CASE \E id \in Ids : removeObject(id)
  <2>1. PICK id \in Ids : removeObject(id)
    BY <1>2
  <2>2. TypeOK'
    BY <2>1 DEF ManagerInv, TypeOK, removeObject
  <2>3. LoopOK'
    BY <2>1 DEF ManagerInv, LoopOK, removeObject
  <2>4. ObjectsOK'
    BY <2>1 DEF ManagerInv, TypeOK, ObjectsOK, removeObject
  <2> QED BY <2>2, <2>3, <2>4 DEF ManagerInv
<1> QED BY <1>1, <1>2 DEF Script

(* The server may go down in a sync.                                       *)
LEMMA FlushKeepsManager ==
  ASSUME ManagerInv, flushUpdateCache, UNCHANGED loopVars, up' \in BOOLEAN
  PROVE  ManagerInv'
BY DEF ManagerInv, TypeOK, LoopOK, ObjectsOK, flushUpdateCache, loopVars

LEMMA UnchangedKeepsManager ==
  ASSUME ManagerInv, UNCHANGED vars
  PROVE  ManagerInv'
BY DEF ManagerInv, TypeOK, LoopOK, ObjectsOK, vars, managerVars, loopVars

LEMMA ManagerInductive == ManagerInv /\ [Next]_vars => ManagerInv'
<1> SUFFICES ASSUME ManagerInv, [Next]_vars PROVE ManagerInv'
  OBVIOUS
<1>0. TypeOK /\ LoopOK /\ ObjectsOK
  BY DEF ManagerInv
<1>1. CASE Script
  BY <1>1, ScriptKeepsManager
<1>2. CASE Flush
  <2>1. up' \in BOOLEAN
    BY <1>0, <1>2 DEF Flush, TypeOK
  <2> QED BY <1>2, <2>1, FlushKeepsManager DEF Flush
<1>3. CASE StepBegins
  <2>1. After(-1) \in Ids \cup {End} /\ \A x \in m_objectsById : x > -1 => After(-1) <= x
    BY <1>0, AfterProperties
  <2>2. \A x \in m_objectsById : x > -1
    BY <1>0 DEF TypeOK
  <2>3. TypeOK'
    BY <1>0, <1>3, <2>1 DEF StepBegins, TypeOK, managerVars
  <2>4. LoopOK'
    <3>1. \A x \in m_objectsById : ~(x < After(-1))
      BY <1>0, <2>1, <2>2, ObjectAssumption DEF TypeOK, Ids, End
    <3> QED BY <1>3, <3>1 DEF StepBegins, LoopOK
  <2>5. ObjectsOK'
    BY <1>0, <1>3 DEF StepBegins, ObjectsOK, managerVars
  <2> QED BY <2>3, <2>4, <2>5 DEF ManagerInv
<1>4. CASE StepObject
  <2>1. it \in Ids /\ it \in Int
    BY <1>4, ObjectAssumption DEF StepObject, Ids
  <2>2. /\ After(it) \in Ids \cup {End} /\ (After(it) > it \/ After(it) = End)
        /\ \A x \in m_objectsById : x > it => After(it) <= x
    BY <1>0, <2>1, AfterProperties
  <2>3. After(it) > it /\ After(it) \in Int
    BY <2>1, <2>2, ObjectAssumption DEF Ids, End
  <2>4. TypeOK'
    BY <1>0, <1>4, <2>1, <2>2 DEF StepObject, TypeOK, managerVars
  <2>5. LoopOK'
    <3>1. \A x \in stepped : x < After(it)
      BY <1>0, <2>1, <2>3, ObjectAssumption DEF LoopOK, TypeOK, Ids
    <3>2. ASSUME NEW x \in alive, x < After(it) PROVE x \in stepped \cup {it}
      BY <1>0, <2>1, <2>2, <2>3, <3>2 DEF LoopOK, TypeOK
    <3> QED BY <1>4, <2>3, <3>1, <3>2 DEF StepObject, LoopOK
  <2>6. ObjectsOK'
    BY <1>0, <1>4 DEF StepObject, ObjectsOK, managerVars
  <2> QED BY <2>4, <2>5, <2>6 DEF ManagerInv
<1>5. CASE StepEnds
  BY <1>0, <1>5 DEF ManagerInv, TypeOK, LoopOK, ObjectsOK, StepEnds, managerVars
<1>6. CASE UNCHANGED vars
  BY <1>6, UnchangedKeepsManager
<1> QED BY <1>1, <1>2, <1>3, <1>4, <1>5, <1>6 DEF Next

THEOREM AlwaysManagerInv == Spec => []ManagerInv
BY InitManager, ManagerInductive, PTL DEF Spec

(* The objects, the changes and the loop of the manager keep their types:  *)
(* every id known was given out (objectmanager.cpp:75-151, 208-213).       *)
THEOREM ManagerTypeCorrect == Spec => []TypeOK
<1>1. ManagerInv => TypeOK
  BY DEF ManagerInv
<1> QED BY <1>1, AlwaysManagerInv, PTL

(* No object is stepped twice in one loop, and one that is there from its  *)
(* beginning to its end is stepped (objectmanager.cpp:307-318).            *)
THEOREM LoopStepsEachOnce == Spec => EachSteppedOnce
<1> DEFINE Once == /\ it \in Ids /\ it' \notin {it, Idle} => it \notin stepped
                   /\ it = End /\ it' = Idle => alive \subseteq stepped
<1>1. ManagerInv => Once
  <2> SUFFICES ASSUME ManagerInv PROVE Once
    OBVIOUS
  <2>1. TypeOK /\ LoopOK
    BY DEF ManagerInv
  <2>2. ASSUME it \in Ids PROVE it \notin stepped
    BY <2>1, <2>2, ObjectAssumption DEF LoopOK, Ids
  <2>3. ASSUME it = End PROVE alive \subseteq stepped
    BY <2>1, <2>3, ObjectAssumption DEF LoopOK, TypeOK, End
  <2> QED BY <2>2, <2>3
<1>2. ManagerInv => [Once]_vars
  BY <1>1
<1> QED BY <1>2, AlwaysManagerInv, PTL DEF EachSteppedOnce

----------------------------------------------------------------------------
(* What the client makes of an update *)

Objects == [name : Int, data : Int]

(* A world, and the id of its next object.                                 *)
Worlds == {w \in [objects : UNION {[T -> Objects] : T \in SUBSET Nat}, next : Nat] :
             DOMAIN w.objects \subseteq 0..(w.next - 1)}

LEMMA DeserializeObjectType ==
  ASSUME NEW w \in Worlds, NEW id \in Nat
  PROVE  DeserializeObject(w, id) \in Worlds
<1>1. /\ w = [objects |-> w.objects, next |-> w.next] /\ w.next \in Nat
      /\ DOMAIN w.objects \subseteq 0..(w.next - 1)
      /\ w.objects \in [DOMAIN w.objects -> Objects]
  BY DEF Worlds
<1>2. CASE id \in DOMAIN w.objects
  <2> DEFINE f == [w.objects EXCEPT ![id].data = id]
  <2>1. f \in [DOMAIN w.objects -> Objects]
    BY <1>1, <1>2 DEF Objects
  <2>2. DeserializeObject(w, id) = [objects |-> f, next |-> w.next]
    BY <1>1, <1>2 DEF DeserializeObject
  <2> HIDE DEF f
  <2>3. DOMAIN w.objects \in SUBSET Nat /\ DOMAIN f = DOMAIN w.objects
    BY <1>1, <2>1
  <2> QED BY <1>1, <2>1, <2>2, <2>3 DEF Worlds
<1>3. CASE id \notin DOMAIN w.objects
  <2> DEFINE f == Bind(w.objects, w.next, [name |-> id, data |-> id])
             D == DOMAIN w.objects \cup {w.next}
  <2>1. [name |-> id, data |-> id] \in Objects
    BY DEF Objects
  <2>2. f \in [D -> Objects]
    BY <1>1, <2>1 DEF Bind
  <2>3. DeserializeObject(w, id) = [objects |-> f, next |-> w.next + 1]
    BY <1>3 DEF DeserializeObject
  <2>4. D \in SUBSET Nat /\ D \subseteq 0..((w.next + 1) - 1) /\ w.next + 1 \in Nat
    BY <1>1
  <2> HIDE DEF f, D
  <2>5. f \in UNION {[T -> Objects] : T \in SUBSET Nat} /\ DOMAIN f = D
    BY <2>2, <2>4
  <2> DEFINE r == [objects |-> f, next |-> w.next + 1]
  <2>6. r \in [objects : UNION {[T -> Objects] : T \in SUBSET Nat}, next : Nat]
    BY <2>4, <2>5
  <2>7. DOMAIN r.objects \subseteq 0..(r.next - 1)
    BY <2>4, <2>5
  <2> HIDE DEF r
  <2>8. r \in Worlds
    BY <2>6, <2>7 DEF Worlds
  <2> QED BY <2>3, <2>8 DEF r
<1> QED BY <1>2, <1>3

(* The loop over the objects of an update, one of them after the other.    *)
Steps(g, base, objects) ==
  /\ g[0] = base
  /\ \A k \in 1..Len(objects) : g[k] = DeserializeObject(g[k - 1], objects[k])

LEMMA DeserializeSteps ==
  ASSUME NEW base \in Worlds, NEW objects \in Seq(Nat)
  PROVE  \E g \in [0..Len(objects) -> Worlds] :
           /\ Steps(g, base, objects)
           /\ FoldLeft(DeserializeObject, base, objects) = g[Len(objects)]
<1> DEFINE n == Len(objects)
           Folds(f) == f = [s \in SUBSET DOMAIN objects |->
                              IF s = {} THEN base
                              ELSE DeserializeObject(f[s \ {Max(s)}], objects[Max(s)])]
           step == [p \in (1..n) \X Worlds |-> DeserializeObject(p[2], objects[p[1]])]
<1>1. n \in Nat /\ DOMAIN objects = 1..n /\ \A k \in 1..n : objects[k] \in Nat
  BY LenProperties, ElementOfSeq
<1>2. FoldLeft(DeserializeObject, base, objects) = (CHOOSE f : Folds(f))[DOMAIN objects]
  BY DEF FoldLeft, MapThenFoldSet
<1> HIDE DEF n
<1>3. step \in [(1..n) \X Worlds -> Worlds]
  <2>1. \A p \in (1..n) \X Worlds : DeserializeObject(p[2], objects[p[1]]) \in Worlds
    BY <1>1, DeserializeObjectType
  <2> QED BY <2>1
<1>4. \A k \in 1..n, w \in Worlds : step[<<k, w>>] = DeserializeObject(w, objects[k])
  OBVIOUS
<1> HIDE DEF step
<1>5. PICK f \in [SUBSET (1..n) -> Worlds] : IsFold(f, n, base, step)
  BY <1>1, <1>3, FoldExists
<1>6. Folds(f)
  <2>1. ASSUME NEW s \in SUBSET (1..n), s # {}
        PROVE  step[<<Max(s), f[s \ {Max(s)}]>>]
                 = DeserializeObject(f[s \ {Max(s)}], objects[Max(s)])
    <3>1. Max(s) \in 1..n
      BY <1>1, <2>1, MaxProperties
    <3>2. f[s \ {Max(s)}] \in Worlds
      OBVIOUS
    <3> QED BY <1>4, <3>1, <3>2
  <2> QED BY <1>1, <1>5, <2>1 DEF IsFold
<1> DEFINE h == CHOOSE d : Folds(d)
<1>7. Folds(h)
  BY <1>6
<1> HIDE DEF h
<1>8. \A s \in SUBSET (1..n) :
        h[s] = IF s = {} THEN base
               ELSE DeserializeObject(h[s \ {Max(s)}], objects[Max(s)])
  BY <1>1, <1>7
<1> HIDE DEF Folds
<1>9. ASSUME NEW k \in 1..n
      PROVE  h[1..k] = DeserializeObject(h[1..(k - 1)], objects[k])
  <2>1. Max(1..k) \in 1..k /\ Max(1..k) >= k
    <3>1. k \in Nat /\ 1 <= k
      BY <1>1
    <3>2. k \in 1..k /\ 1..k \in SUBSET (1..k)
      BY <3>1
    <3>3. 1..k # {}
      BY <3>2
    <3> QED BY <3>1, <3>2, <3>3, MaxProperties
  <2>2. Max(1..k) = k
    BY <1>1, <2>1
  <2>3. (1..k) \ {k} = 1..(k - 1) /\ 1..k # {} /\ 1..k \in SUBSET (1..n)
    <3>1. n \in Nat /\ k \in Nat /\ 1 <= k /\ k <= n
      BY <1>1
    <3>2. k \in 1..k
      BY <3>1
    <3>3. \A j \in Int : j \in 1..k /\ j # k <=> j \in 1..(k - 1)
      BY <3>1
    <3>4. (1..k) \ {k} = 1..(k - 1)
      BY <3>3
    <3>5. \A j \in 1..k : j \in 1..n
      BY <3>1
    <3> QED BY <3>2, <3>4, <3>5
  <2> QED BY <1>8, <2>2, <2>3
<1>10. h[1..0] = base
  <2>1. 1..0 = {} /\ 1..0 \in SUBSET (1..n)
    OBVIOUS
  <2> QED BY <1>8, <2>1
<1> DEFINE g == [k \in 0..n |-> h[1..k]]
           T == {k \in 0..n : h[1..k] \in Worlds}
<1>11. 0..n \subseteq T
  <2>1. 0 \in T
    BY <1>1, <1>10
  <2>2. ASSUME NEW k \in 0..(n - 1), k \in T PROVE k + 1 \in T
    <3>1. k + 1 \in 1..n /\ (k + 1) - 1 = k
      BY <1>1
    <3>2. h[1..(k + 1)] = DeserializeObject(h[1..k], objects[k + 1])
      BY <1>9, <3>1
    <3>3. h[1..(k + 1)] \in Worlds
      BY <1>1, <2>2, <3>1, <3>2, DeserializeObjectType
    <3> QED BY <1>1, <3>1, <3>3
  <2> HIDE DEF T
  <2> QED BY <1>1, <2>1, <2>2, IntervalInduction
<1>12. g \in [0..n -> Worlds]
  BY <1>11
<1>13. Steps(g, base, objects)
  <2>1. g[0] = base
    BY <1>1, <1>10
  <2>2. ASSUME NEW k \in 1..n PROVE g[k] = DeserializeObject(g[k - 1], objects[k])
    BY <1>1, <1>9
  <2> HIDE DEF g
  <2> QED BY <2>1, <2>2 DEF Steps, n
<1>14. FoldLeft(DeserializeObject, base, objects) = g[n]
  BY <1>1, <1>2 DEF h
<1> HIDE DEF g
<1> QED BY <1>12, <1>13, <1>14 DEF n

(* The objects of S, each under its id, with its name and its data.        *)
Mirror(S) == [id \in S |-> [name |-> id, data |-> id]]

LEMMA KnownStays ==
  ASSUME NEW S, NEW c, NEW id \in S
  PROVE  DeserializeObject([objects |-> Mirror(S), next |-> c], id)
           = [objects |-> Mirror(S), next |-> c]
<1> DEFINE w == [objects |-> Mirror(S), next |-> c]
<1>1. w.objects = Mirror(S) /\ w.next = c
  OBVIOUS
<1>2. DOMAIN Mirror(S) = S
  BY DEF Mirror
<1>3. [Mirror(S) EXCEPT ![id].data = id] = Mirror(S)
  BY DEF Mirror
<1>4. DeserializeObject(w, id) = [w EXCEPT !.objects[id].data = id]
  BY <1>1, <1>2 DEF DeserializeObject
<1>5. [w EXCEPT !.objects[id].data = id] = [objects |-> [Mirror(S) EXCEPT ![id].data = id], next |-> c]
  OBVIOUS
<1> QED BY <1>3, <1>4, <1>5

LEMMA NextIsAdded ==
  ASSUME NEW S, NEW c, c \notin S
  PROVE  DeserializeObject([objects |-> Mirror(S), next |-> c], c)
           = [objects |-> Mirror(S \cup {c}), next |-> c + 1]
<1> DEFINE w == [objects |-> Mirror(S), next |-> c]
<1>1. w.objects = Mirror(S) /\ w.next = c
  OBVIOUS
<1>2. c \notin DOMAIN w.objects
  BY <1>1 DEF Mirror
<1> HIDE DEF w
<1>3. DeserializeObject(w, c)
        = [objects |-> Bind(Mirror(S), c, [name |-> c, data |-> c]), next |-> c + 1]
  BY <1>1, <1>2 DEF DeserializeObject
<1>4. Bind(Mirror(S), c, [name |-> c, data |-> c]) = Mirror(S \cup {c})
  BY DEF Bind, Mirror
<1> QED BY <1>3, <1>4 DEF w

(* A client that has the objects S and goes on with the server's next id n *)
(* takes the objects from n on in the order of their ids, under those ids. *)
LEMMA DeserializeMirrors ==
  ASSUME NEW n \in Nat, NEW m \in Nat, n <= m, NEW S \in SUBSET (0..(n - 1)),
         NEW objects \in Seq(0..(m - 1)), IsAscending(objects),
         n..(m - 1) \subseteq ToSet(objects), ToSet(objects) \subseteq S \cup n..(m - 1)
  PROVE  FoldLeft(DeserializeObject, [objects |-> Mirror(S), next |-> n], objects)
           = [objects |-> Mirror(S \cup ToSet(objects)), next |-> m]
<1> DEFINE base == [objects |-> Mirror(S), next |-> n]
           Seen(k) == {objects[j] : j \in 1..k}
           Ends(k, c) == \A x \in Int : x \in n..(c - 1) <=> x \in Seen(k) /\ x >= n
           l == Len(objects)
<1>1. /\ l \in Nat /\ DOMAIN objects = 1..l
      /\ \A k \in 1..l : objects[k] \in 0..(m - 1)
  BY LenProperties, ElementOfSeq
<1>2. \A j, k \in 1..l : j < k => objects[j] < objects[k]
  BY <1>1 DEF IsAscending
<1>3. base \in Worlds
  <2>1. Mirror(S) \in [S -> Objects] /\ DOMAIN Mirror(S) = S
    BY DEF Mirror, Objects
  <2>2. S \in SUBSET Nat
    OBVIOUS
  <2>3. base \in [objects : UNION {[T -> Objects] : T \in SUBSET Nat}, next : Nat]
    BY <2>1, <2>2
  <2>4. DOMAIN base.objects \subseteq 0..(base.next - 1)
    BY <2>1
  <2> HIDE DEF base
  <2> QED BY <2>3, <2>4 DEF Worlds
<1>4. objects \in Seq(Nat)
  <2>1. 0..(m - 1) \subseteq Nat
    OBVIOUS
  <2> QED BY <2>1, SeqMonotonic
<1>5. PICK g \in [0..l -> Worlds] :
        Steps(g, base, objects) /\ FoldLeft(DeserializeObject, base, objects) = g[l]
  BY <1>3, <1>4, DeserializeSteps
<1> HIDE DEF l
<1>6. ToSet(objects) = Seen(l)
  BY <1>1 DEF ToSet
<1> DEFINE State(k, c) == g[k] = [objects |-> Mirror(S \cup Seen(k)), next |-> c]
           T == {k \in 0..l : \E c \in Nat : n <= c /\ Ends(k, c) /\ State(k, c)}
<1>7. 0 \in T
  <2>1. Seen(0) = {}
    OBVIOUS
  <2>2. Ends(0, n)
    BY <2>1
  <2>3. State(0, n)
    BY <1>5, <2>1 DEF Steps
  <2>4. 0 \in 0..l
    BY <1>1
  <2> HIDE DEF Ends, State
  <2>5. \E c \in Nat : n <= c /\ Ends(0, c) /\ State(0, c)
    BY <2>2, <2>3
  <2> QED BY <2>4, <2>5
<1>8. ASSUME NEW k \in 0..(l - 1), k \in T PROVE k + 1 \in T
  <2> DEFINE id == objects[k + 1]
  <2>1. PICK c \in Nat : n <= c /\ Ends(k, c) /\ State(k, c)
    BY <1>8
  <2>2. k + 1 \in 1..l /\ (k + 1) - 1 = k /\ k \in Nat /\ k + 1 \in 0..l
    BY <1>1
  <2>3. id \in 0..(m - 1) /\ id \in Nat
    BY <1>1, <2>2
  <2>4. Seen(k + 1) = Seen(k) \cup {id}
    BY <2>2
  <2>5. \A x \in Seen(k) : x \in Int /\ x < id
    BY <1>1, <1>2, <2>2
  <2>6. \A x \in Seen(l) : x \in Seen(k) \/ x >= id
    <3>1. ASSUME NEW j \in 1..l PROVE objects[j] \in Seen(k) \/ objects[j] >= id
      <4>1. CASE j <= k
        <5>1. j \in 1..k
          BY <1>1, <2>2, <4>1
        <5> QED BY <5>1
      <4>2. CASE j = k + 1
        BY <2>3, <4>2
      <4>3. CASE j > k + 1
        <5>1. objects[k + 1] < objects[j]
          BY <1>1, <1>2, <2>2, <4>3
        <5> QED BY <1>1, <2>3, <5>1
      <4> QED BY <1>1, <2>2, <4>1, <4>2, <4>3
    <3> QED BY <3>1
  <2>7. id \in S \cup n..(m - 1) /\ n..(m - 1) \subseteq Seen(l)
    BY <1>1, <1>6, <2>2
  <2>8. g[k + 1] = DeserializeObject(g[k], id)
    BY <1>5, <2>2 DEF Steps, l
  <2> HIDE DEF id, Seen
  <2>9. CASE id < n
    <3>1. id \in S
      BY <2>3, <2>7, <2>9
    <3>2. S \cup Seen(k + 1) = S \cup Seen(k) /\ id \in S \cup Seen(k)
      BY <2>4, <3>1
    <3>3. State(k + 1, c)
      BY <2>1, <2>8, <3>2, KnownStays
    <3>4. Ends(k + 1, c)
      BY <2>1, <2>3, <2>4, <2>9
    <3>5. \E d \in Nat : n <= d /\ Ends(k + 1, d) /\ State(k + 1, d)
      BY <2>1, <3>3, <3>4
    <3> QED BY <2>2, <3>5
  <2>10. CASE id >= n
    <3>1. id = c
      <4>1. id \notin Seen(k)
        BY <2>3, <2>5
      <4>2. ~(id < c)
        BY <2>1, <2>3, <2>10, <4>1
      <4>3. ASSUME c < id PROVE FALSE
        <5>1. c \in n..(m - 1)
          BY <2>1, <2>3, <4>3
        <5>2. c \in Seen(k)
          BY <2>3, <2>6, <2>7, <4>3, <5>1
        <5> QED BY <2>1, <5>2
      <4> QED BY <2>3, <4>2, <4>3
    <3>2. c \notin S \cup Seen(k)
      BY <2>1, <2>5, <3>1
    <3>3. (S \cup Seen(k)) \cup {c} = S \cup Seen(k + 1)
      BY <2>4, <3>1
    <3>4. State(k + 1, c + 1)
      BY <2>1, <2>8, <3>1, <3>2, <3>3, NextIsAdded
    <3>5. Ends(k + 1, c + 1)
      BY <2>1, <2>4, <3>1
    <3>6. c + 1 \in Nat /\ n <= c + 1
      BY <2>1
    <3>7. \E d \in Nat : n <= d /\ Ends(k + 1, d) /\ State(k + 1, d)
      BY <3>4, <3>5, <3>6
    <3> QED BY <2>2, <3>7
  <2> HIDE DEF T
  <2> QED BY <2>3, <2>9, <2>10
<1>9. l \in T
  <2> HIDE DEF T
  <2>1. 0..l \subseteq T
    BY <1>1, <1>7, <1>8, IntervalInduction
  <2> QED BY <1>1, <2>1
<1>10. PICK c \in Nat : n <= c /\ Ends(l, c) /\ State(l, c)
  BY <1>9
<1>11. c = m
  <2>1. \A x \in Int : x \in n..(m - 1) <=> x \in Seen(l) /\ x >= n
    <3>1. \A x \in Int : x \in S => x < n
      OBVIOUS
    <3> HIDE DEF Seen
    <3> QED BY <1>6, <3>1
  <2>2. \A x \in Int : x \in n..(m - 1) <=> x \in n..(c - 1)
    BY <1>10, <2>1
  <2>3. ASSUME c < m PROVE FALSE
    <3>1. c \in n..(m - 1)
      BY <1>10, <2>3
    <3>2. c \in Int
      OBVIOUS
    <3>3. (c \in n..(m - 1) <=> c \in n..(c - 1))
      BY <2>2, <3>2, Zenon
    <3> QED BY <3>1, <3>3
  <2>4. ASSUME m < c PROVE FALSE
    <3>1. m \in n..(c - 1)
      BY <1>10, <2>4
    <3>2. m \in n..(m - 1)
      BY <2>2, <3>1
    <3> QED BY <3>2
  <2> QED BY <2>3, <2>4
<1> QED BY <1>5, <1>6, <1>10, <1>11

----------------------------------------------------------------------------
(* The packages sent *)

PackageOK(u) == /\ u.no \in 1..Sent /\ u.next \in 0..nextId
                /\ u.objects \in Seq(0..(u.next - 1))
                /\ u.view \subseteq 0..(u.next - 1)

(* They are numbered from 1, without a gap.                                *)
NetOK == /\ IsFiniteSet(net) /\ Sent <= MaxUpdates
         /\ \A u \in net : PackageOK(u)
         /\ \A u, v \in net : u.no = v.no => u = v
         /\ \A k \in 1..Sent : \E u \in net : u.no = k

LEMMA SentIsNat == NetOK => Sent \in Nat
BY FS_CardinalityType DEF NetOK, Sent

(* View is the view of the last package.                                   *)
LEMMA ViewOfLast ==
  ASSUME NetOK, NEW u \in net, u.no = Sent
  PROVE  View = u.view
<1>1. {v \in net : v.no = Sent} = {u}
  BY DEF NetOK
<1>2. View = UNION {v.view : v \in {u}}
  BY <1>1 DEF View
<1> QED BY <1>2

LEMMA ViewInCreated ==
  ASSUME NetOK, TypeOK
  PROVE  View \subseteq 0..(nextId - 1)
<1>1. ASSUME NEW u \in net, u.no = Sent PROVE u.view \subseteq 0..(nextId - 1)
  <2>1. nextId \in Nat /\ u.next \in 0..nextId /\ u.view \subseteq 0..(u.next - 1)
    BY <1>1, ObjectAssumption DEF NetOK, PackageOK, TypeOK
  <2> QED BY <2>1
<1> QED BY <1>1 DEF View

LEMMA NetGrows ==
  ASSUME NetOK, TypeOK, Sent < MaxUpdates, NEW u, u.no = Sent + 1, u.next = nextId,
         u.objects \in Seq(0..(nextId - 1)), u.view \subseteq 0..(nextId - 1),
         net' = net \cup {u}, nextId' = nextId
  PROVE  /\ NetOK' /\ Sent' = Sent + 1 /\ View' = u.view
         /\ \A v \in net' : v.no = Sent' <=> v = u
<1>1. Sent \in Nat /\ MaxUpdates \in Nat /\ nextId \in Nat
  BY SentIsNat, WorldAssumption, ObjectAssumption DEF TypeOK
<1>2. \A v \in net : PackageOK(v) /\ v.no <= Sent
  BY <1>1 DEF NetOK, PackageOK
<1>3. u \notin net
  BY <1>1, <1>2
<1>4. IsFiniteSet(net') /\ Sent' = Sent + 1
  BY <1>3, FS_AddElement DEF NetOK, Sent
<1>5. ASSUME NEW v \in net' PROVE PackageOK(v)'
  <2>1. CASE v \in net
    <3>1. /\ v.no \in 1..Sent /\ v.next \in 0..nextId
          /\ v.objects \in Seq(0..(v.next - 1)) /\ v.view \subseteq 0..(v.next - 1)
      BY <1>2, <2>1 DEF PackageOK
    <3>2. v.no \in 1..Sent'
      BY <1>1, <1>4, <3>1
    <3> QED BY <3>1, <3>2 DEF PackageOK
  <2>2. CASE v = u
    <3>1. u.no \in 1..Sent' /\ u.next \in 0..nextId'
      BY <1>1, <1>4
    <3> QED BY <2>2, <3>1 DEF PackageOK
  <2> QED BY <2>1, <2>2
<1>6. \A v, w \in net' : v.no = w.no => v = w
  BY <1>1, <1>2 DEF NetOK
<1>7. ASSUME NEW k \in 1..Sent' PROVE \E v \in net' : v.no = k
  <2>1. k \in 1..Sent \/ k = Sent + 1
    BY <1>1, <1>4
  <2>2. CASE k \in 1..Sent
    BY <2>2 DEF NetOK
  <2>3. CASE k = Sent + 1
    BY <2>3
  <2> QED BY <2>1, <2>2, <2>3
<1>8. NetOK'
  BY <1>1, <1>4, <1>5, <1>6, <1>7 DEF NetOK
<1>9. \A v \in net' : v.no = Sent' <=> v = u
  BY <1>1, <1>2, <1>4
<1>10. View' = UNION {v.view : v \in {v \in net' : v.no = Sent'}}
  BY DEF View
<1>11. {v \in net' : v.no = Sent'} = {u}
  BY <1>9
<1>12. View' = u.view
  BY <1>10, <1>11
<1> QED BY <1>4, <1>8, <1>9, <1>12

LEMMA NetStays ==
  ASSUME NetOK, net' = net, nextId \in Nat, nextId' \in Nat, nextId <= nextId'
  PROVE  NetOK' /\ Sent' = Sent /\ View' = View
<1>1. Sent' = Sent /\ View' = View
  BY DEF Sent, View
<1>2. ASSUME NEW u \in net PROVE PackageOK(u)'
  BY <1>1 DEF NetOK, PackageOK
<1> QED BY <1>1, <1>2 DEF NetOK

(* Objects that are serialized, in any order.                              *)
LEMMA SerializedObjects ==
  ASSUME TypeOK, NEW S, S \subseteq 0..(nextId - 1), NEW s \in SetToSeqs(S)
  PROVE  s \in Seq(0..(nextId - 1)) /\ ToSet(s) = S
<1>1. nextId \in Nat
  BY ObjectAssumption DEF TypeOK
<1>2. IsFiniteSet(0..(nextId - 1))
  BY <1>1, FS_Interval
<1>3. IsFiniteSet(S)
  BY <1>2, FS_Subset
<1>4. s \in Seq(S) /\ ToSet(s) = S
  BY <1>3, SetToSeqsProperties
<1> QED BY <1>4, SeqMonotonic

----------------------------------------------------------------------------
(* The invariant *)

ClientOK == /\ [objects |-> world, next |-> clientNextId] \in Worlds
            /\ clientNextId <= MaxClientObjects /\ last \in 0..Sent
            /\ loaded \in BOOLEAN /\ orderly \in BOOLEAN
            /\ session \in {"none", "inactive", "active", "joined"}

(* The objects of v are those that were created since u, and at most some  *)
(* a client knows from u.                                                  *)
Follows(u, v) == /\ u.next <= v.next
                 /\ u.next..(v.next - 1) \subseteq ToSet(v.objects)
                 /\ ToSet(v.objects) \subseteq u.view \cup u.next..(v.next - 1)
                 /\ v.view = (u.view \cup ToSet(v.objects)) \ v.removed

(* The one full state is sent to a session that stays, and has all objects *)
(* there have been.  Each package after it follows the one before, and the *)
(* changes that wait are what makes the next one follow.                   *)
FullOK(f) == /\ session = "joined" /\ f.view = 0..(f.next - 1)
             /\ ToSet(f.objects) = f.view /\ f.removed = {}

SentOK == /\ \A f \in net : f.full => FullOK(f)
          /\ \A f, g \in net : f.full /\ g.full => f = g
          /\ \A f, u, v \in net : f.full /\ f.no <= u.no /\ v.no = u.no + 1 => Follows(u, v)

WaitingOK == up => \A f, u \in net : f.full /\ u.no = Sent =>
  /\ u.next..(nextId - 1) \subseteq m_newObjects
  /\ m_newObjects \subseteq u.view \cup u.next..(nextId - 1)

(* The packages the client has applied came in the order of their ids.     *)
Ordered == \A u \in net : u.no <= last => IsAscending(u.objects)

AppliedOK == /\ last = 0 => world = Mirror({}) /\ clientNextId = 0
             /\ last > 0 => \E f \in net : f.full /\ f.no <= last
             /\ last > 0 /\ Ordered => \A u \in net : u.no = last =>
                  world = Mirror(u.view) /\ clientNextId = u.next

WorldInv == /\ ManagerInv /\ NetOK /\ ClientOK /\ ChangesComplete
            /\ orderly => SentOK /\ WaitingOK /\ AppliedOK

LEMMA InitWorld == WorldInit => WorldInv
<1> SUFFICES ASSUME WorldInit PROVE WorldInv
  OBVIOUS
<1>1. ManagerInv
  BY InitManager DEF WorldInit
<1>2. net = {} /\ Sent = 0
  BY FS_EmptySet DEF WorldInit, Sent
<1>3. NetOK
  BY <1>2, FS_EmptySet, WorldAssumption DEF NetOK
<1>4. world = Mirror({})
  BY DEF WorldInit, Mirror
<1>5. [objects |-> world, next |-> clientNextId] \in Worlds
  <2>1. world \in [{} -> Objects] /\ DOMAIN world = {}
    BY <1>4 DEF Mirror
  <2> QED BY <2>1 DEF WorldInit, Worlds
<1>6. ClientOK
  <2>1. clientNextId <= MaxClientObjects /\ last \in 0..Sent
    BY <1>2, WorldAssumption DEF WorldInit
  <2>2. loaded \in BOOLEAN /\ orderly \in BOOLEAN /\ session = "none"
    BY DEF WorldInit
  <2> QED BY <1>5, <2>1, <2>2 DEF ClientOK
<1>7. ChangesComplete
  BY DEF WorldInit, ChangesComplete
<1>8. SentOK /\ WaitingOK /\ AppliedOK
  BY <1>2, <1>4 DEF WorldInit, SentOK, WaitingOK, AppliedOK
<1> QED BY <1>1, <1>3, <1>6, <1>7, <1>8 DEF WorldInv

----------------------------------------------------------------------------
(* The steps of the server *)

LEMMA AppliedStays ==
  ASSUME AppliedOK, UNCHANGED <<net, clientVars>>
  PROVE  AppliedOK'
BY DEF AppliedOK, Ordered, clientVars

LEMMA SentStays ==
  ASSUME SentOK, UNCHANGED <<net, session>>
  PROVE  SentOK'
BY DEF SentOK, FullOK, Follows

(* A package the client has not applied yet does not matter to it.         *)
LEMMA AppliedGrows ==
  ASSUME NetOK, ClientOK, AppliedOK, NEW u, u.no = Sent + 1, net' = net \cup {u},
         UNCHANGED clientVars
  PROVE  AppliedOK'
<1>1. Sent \in Nat /\ last \in 0..Sent
  BY SentIsNat DEF ClientOK
<1>2. u.no > last /\ u.no # last
  BY <1>1
<1>3. Ordered' <=> Ordered
  BY <1>1, <1>2 DEF Ordered, clientVars
<1> QED BY <1>2, <1>3 DEF AppliedOK, clientVars

LEMMA SentGrows ==
  ASSUME NetOK, SentOK, NEW u, u.no = Sent + 1, ~u.full, net' = net \cup {u},
         session' = session,
         \A f, v \in net : f.full /\ v.no = Sent => Follows(v, u)
  PROVE  SentOK'
<1>1. Sent \in Nat /\ \A v \in net : v.no \in 1..Sent
  BY SentIsNat DEF NetOK, PackageOK
<1>2. \A f \in net' : f.full => f \in net
  OBVIOUS
<1>3. ASSUME NEW f \in net', NEW v \in net', NEW w \in net',
             f.full, f.no <= v.no, w.no = v.no + 1
      PROVE  Follows(v, w)
  <2>1. v \in net
    BY <1>1, <1>3
  <2>2. CASE w \in net
    BY <1>2, <1>3, <2>1, <2>2 DEF SentOK
  <2>3. CASE w = u
    <3>1. v.no = Sent
      BY <1>1, <1>3, <2>1, <2>3
    <3> QED BY <1>2, <1>3, <2>1, <2>3, <3>1
  <2> QED BY <2>2, <2>3
<1>4. \A f \in net' : f.full => FullOK(f)'
  BY <1>2 DEF SentOK, FullOK
<1>5. \A f, g \in net' : f.full /\ g.full => f = g
  BY <1>2 DEF SentOK
<1> QED BY <1>3, <1>4, <1>5 DEF SentOK, Follows

LEMMA ServerScriptStep ==
  ASSUME WorldInv, ServerScript
  PROVE  WorldInv'
<1>1. /\ ManagerInv /\ TypeOK /\ ObjectsOK /\ NetOK /\ ClientOK /\ ChangesComplete
      /\ orderly => SentOK /\ WaitingOK /\ AppliedOK
  BY DEF WorldInv, ManagerInv
<1>2. Script /\ UNCHANGED <<session, net, clientVars, orderly>>
  BY DEF ServerScript
<1>3. ManagerInv' /\ TypeOK'
  BY <1>1, <1>2, ScriptKeepsManager DEF ManagerInv
<1>4. /\ nextId \in Nat /\ nextId' \in Nat /\ nextId <= nextId' /\ (up' => up)
      /\ m_newObjects' = m_newObjects \cup nextId..(nextId' - 1)
  <2>1. nextId \in Nat
    BY <1>1, ObjectAssumption DEF TypeOK
  <2>2. CASE createObject
    <3>1. nextId..((nextId + 1) - 1) = {nextId}
      BY <2>1
    <3> QED BY <2>1, <2>2, <3>1 DEF createObject
  <2>3. CASE \E id \in Ids : removeObject(id)
    <3>1. nextId..(nextId - 1) = {}
      BY <2>1
    <3> QED BY <2>1, <2>3, <3>1 DEF removeObject
  <2> QED BY <1>2, <2>2, <2>3 DEF Script
<1>5. NetOK' /\ Sent' = Sent /\ View' = View
  BY <1>1, <1>2, <1>4, NetStays
<1>6. ClientOK'
  BY <1>1, <1>2, <1>5 DEF ClientOK, clientVars
<1>7. ChangesComplete'
  <2>1. CASE createObject
    <3>1. nextId \notin m_removedIds
      BY <1>1, <1>4 DEF TypeOK
    <3> QED BY <1>1, <1>2, <1>5, <2>1, <3>1 DEF ChangesComplete, createObject
  <2>2. CASE \E id \in Ids : removeObject(id)
    BY <1>1, <1>2, <1>5, <2>2 DEF ChangesComplete, removeObject
  <2> QED BY <1>2, <2>1, <2>2 DEF Script
<1>8. ASSUME orderly' PROVE SentOK' /\ WaitingOK' /\ AppliedOK'
  <2>1. SentOK /\ WaitingOK /\ AppliedOK
    BY <1>1, <1>2, <1>8
  <2>2. SentOK' /\ AppliedOK'
    BY <1>2, <2>1, SentStays, AppliedStays
  <2>3. ASSUME up', NEW f \in net', NEW u \in net', f.full, u.no = Sent'
        PROVE  /\ u.next..(nextId' - 1) \subseteq m_newObjects'
               /\ m_newObjects' \subseteq u.view \cup u.next..(nextId' - 1)
    <3>1. u \in net /\ f \in net /\ u.no = Sent /\ up
      BY <1>2, <1>4, <1>5, <2>3
    <3>2. /\ u.next..(nextId - 1) \subseteq m_newObjects
          /\ m_newObjects \subseteq u.view \cup u.next..(nextId - 1)
      BY <2>1, <2>3, <3>1 DEF WaitingOK
    <3>3. u.next \in 0..nextId
      BY <1>1, <3>1 DEF NetOK, PackageOK
    <3>4. u.next..(nextId' - 1) = u.next..(nextId - 1) \cup nextId..(nextId' - 1)
      BY <1>4, <3>3
    <3> QED BY <1>4, <3>2, <3>4
  <2> QED BY <2>2, <2>3 DEF WaitingOK
<1> QED BY <1>3, <1>5, <1>6, <1>7, <1>8 DEF WorldInv

LEMMA SyncStep ==
  ASSUME WorldInv, sync
  PROVE  WorldInv'
<1>1. /\ ManagerInv /\ TypeOK /\ ObjectsOK /\ NetOK /\ ClientOK /\ ChangesComplete
      /\ orderly => SentOK /\ WaitingOK /\ AppliedOK
  BY DEF WorldInv, ManagerInv
<1>2. /\ up /\ flushUpdateCache /\ UNCHANGED <<loopVars, session, clientVars, orderly>>
      /\ m_newObjects' = {} /\ m_removedIds' = {} /\ UNCHANGED <<m_objectsById, nextId>>
  BY DEF sync, flushUpdateCache
<1>3. up' \in BOOLEAN
  BY DEF sync
<1>4. ManagerInv'
  BY <1>1, <1>2, <1>3, FlushKeepsManager
<1>5. nextId \in Nat /\ m_newObjects \subseteq 0..(nextId - 1)
  BY <1>1, ObjectAssumption DEF TypeOK
<1>6. CASE session \in {"active", "joined"} /\ up'
  <2>1. Sent < MaxUpdates /\ \E update \in Changes : net' = net \cup {update}
    BY <1>6 DEF sync
  <2>2. PICK objects \in SetToSeqs(m_newObjects) :
          net' = net \cup {Update(objects, m_removedIds, FALSE)}
    BY <2>1 DEF Changes, serializeChanges
  <2>0. PICK u : u = Update(objects, m_removedIds, FALSE)
    OBVIOUS
  <2>3. /\ u.no = Sent + 1 /\ u.next = nextId /\ u.objects = objects
        /\ u.removed = m_removedIds /\ ~u.full
        /\ u.view = (View \cup ToSet(objects)) \ m_removedIds
    BY <2>0 DEF Update
  <2>4. net' = net \cup {u}
    BY <2>0, <2>2
  <2>5. objects \in Seq(0..(nextId - 1)) /\ ToSet(objects) = m_newObjects
    BY <1>1, <1>5, SerializedObjects
  <2>6. u.view \subseteq 0..(nextId - 1)
    BY <1>1, <1>5, <2>3, <2>5, ViewInCreated
  <2>7. NetOK' /\ Sent' = Sent + 1 /\ View' = u.view /\ \A v \in net' : v.no = Sent' <=> v = u
    BY <1>1, <1>2, <2>1, <2>3, <2>4, <2>5, <2>6, NetGrows
  <2>8. ClientOK'
    <3>1. Sent \in Nat
      BY <1>1, SentIsNat
    <3> QED BY <1>1, <1>2, <2>7, <3>1 DEF ClientOK, clientVars
  <2>9. ChangesComplete'
    BY <1>1, <1>2, <2>3, <2>5, <2>7 DEF ChangesComplete
  <2>10. ASSUME orderly' PROVE SentOK' /\ WaitingOK' /\ AppliedOK'
    <3>1. SentOK /\ WaitingOK /\ AppliedOK
      BY <1>1, <1>2, <2>10
    <3>2. ASSUME NEW f \in net, NEW v \in net, f.full, v.no = Sent PROVE Follows(v, u)
      <4>1. View = v.view
        BY <1>1, <3>2, ViewOfLast
      <4>2. /\ v.next..(nextId - 1) \subseteq m_newObjects
            /\ m_newObjects \subseteq v.view \cup v.next..(nextId - 1)
        BY <1>2, <3>1, <3>2 DEF WaitingOK
      <4>3. v.next <= nextId
        BY <1>1, <1>5, <3>2 DEF NetOK, PackageOK
      <4> QED BY <2>3, <2>5, <4>1, <4>2, <4>3 DEF Follows
    <3>3. SentOK'
      BY <1>1, <1>2, <2>3, <2>4, <3>1, <3>2, SentGrows
    <3>4. AppliedOK'
      BY <1>1, <1>2, <2>3, <2>4, <3>1, AppliedGrows
    <3>5. WaitingOK'
      <4>1. u.next..(nextId' - 1) = {}
        BY <1>2, <1>5, <2>3
      <4> QED BY <1>2, <2>7, <4>1 DEF WaitingOK
    <3> QED BY <3>3, <3>4, <3>5
  <2> QED BY <1>4, <2>7, <2>8, <2>9, <2>10 DEF WorldInv
<1>7. CASE ~(session \in {"active", "joined"} /\ up')
  <2>1. net' = net
    BY <1>7 DEF sync
  <2>2. ~up' \/ session # "joined"
    BY <1>7
  <2>3. NetOK' /\ Sent' = Sent
    BY <1>1, <1>2, <1>5, <2>1, NetStays
  <2>4. ClientOK'
    BY <1>1, <1>2, <2>3 DEF ClientOK, clientVars
  <2>5. ChangesComplete'
    BY <1>2, <2>2 DEF ChangesComplete
  <2>6. ASSUME orderly' PROVE SentOK' /\ WaitingOK' /\ AppliedOK'
    <3>1. SentOK /\ AppliedOK
      BY <1>1, <1>2, <2>6
    <3>2. SentOK' /\ AppliedOK'
      BY <1>2, <2>1, <3>1, SentStays, AppliedStays
    <3>3. WaitingOK'
      BY <1>2, <2>1, <2>2, <3>1 DEF WaitingOK, SentOK, FullOK
    <3> QED BY <3>2, <3>3
  <2> QED BY <1>4, <2>3, <2>4, <2>5, <2>6 DEF WorldInv
<1> QED BY <1>6, <1>7

LEMMA JoinAcknowledgeStep ==
  ASSUME WorldInv, JoinAcknowledge
  PROVE  WorldInv'
<1>1. /\ ManagerInv /\ TypeOK /\ ObjectsOK /\ NetOK /\ ClientOK /\ ChangesComplete
      /\ orderly => SentOK /\ WaitingOK /\ AppliedOK
  BY DEF WorldInv, ManagerInv
<1>2. /\ session' = "joined" /\ Sent < MaxUpdates /\ UNCHANGED <<vars, clientVars>>
      /\ orderly' = (orderly /\ m_objectsById = 0..(nextId - 1) /\ \A p \in net : ~p.full)
  BY DEF JoinAcknowledge
<1>3. /\ m_objectsById' = m_objectsById /\ m_newObjects' = m_newObjects
      /\ m_removedIds' = m_removedIds /\ nextId' = nextId
  BY <1>2 DEF vars, managerVars
<1>4. ManagerInv'
  BY <1>1, <1>2, UnchangedKeepsManager
<1>5. PICK objects \in serializeFull : net' = net \cup {Update(objects, {}, TRUE)}
  BY DEF JoinAcknowledge
<1>0. PICK u : u = Update(objects, {}, TRUE)
  OBVIOUS
<1>6. /\ u.no = Sent + 1 /\ u.next = nextId /\ u.objects = objects
      /\ u.removed = {} /\ u.full /\ u.view = ToSet(objects)
  BY <1>0 DEF Update
<1>7. net' = net \cup {u}
  BY <1>0, <1>5
<1>8. nextId \in Nat /\ m_objectsById \subseteq 0..(nextId - 1)
      /\ m_newObjects \subseteq 0..(nextId - 1)
  BY <1>1, ObjectAssumption DEF TypeOK
<1>9. objects \in Seq(0..(nextId - 1)) /\ ToSet(objects) = m_objectsById
  <2>1. objects \in SetToSeqs(m_objectsById)
    BY DEF serializeFull
  <2> QED BY <1>1, <1>8, <2>1, SerializedObjects
<1>10. NetOK' /\ Sent' = Sent + 1 /\ View' = u.view /\ \A v \in net' : v.no = Sent' <=> v = u
  BY <1>1, <1>2, <1>3, <1>6, <1>7, <1>8, <1>9, NetGrows
<1>11. ClientOK'
  <2>1. Sent \in Nat
    BY <1>1, SentIsNat
  <2>2. orderly' \in BOOLEAN
    BY <1>2
  <2> QED BY <1>1, <1>2, <1>10, <2>1, <2>2 DEF ClientOK, clientVars
<1>12. ChangesComplete'
  BY <1>1, <1>3, <1>6, <1>9, <1>10 DEF ChangesComplete, ObjectsOK
<1>13. ASSUME orderly' PROVE SentOK' /\ WaitingOK' /\ AppliedOK'
  <2>1. SentOK /\ AppliedOK /\ m_objectsById = 0..(nextId - 1) /\ \A p \in net : ~p.full
    BY <1>1, <1>2, <1>13
  <2>2. \A f \in net' : f.full => f = u
    BY <1>7, <2>1
  <2>3. Sent \in Nat /\ \A v \in net' : v.no \in 1..(Sent + 1)
    BY <1>10, SentIsNat, <1>1 DEF NetOK, PackageOK
  <2>4. FullOK(u)'
    BY <1>2, <1>6, <1>9, <2>1 DEF FullOK
  <2>5. \A f, v, w \in net' : ~(f.full /\ f.no <= v.no /\ w.no = v.no + 1)
    BY <1>6, <2>2, <2>3
  <2>6. SentOK'
    BY <2>2, <2>4, <2>5 DEF SentOK
  <2>7. AppliedOK'
    BY <1>1, <1>2, <1>6, <1>7, <2>1, AppliedGrows
  <2>8. WaitingOK'
    <3>1. u.next..(nextId' - 1) = {}
      BY <1>3, <1>6, <1>8
    <3>2. m_newObjects' \subseteq u.view
      BY <1>3, <1>6, <1>8, <1>9, <2>1
    <3> QED BY <1>10, <3>1, <3>2 DEF WaitingOK
  <2> QED BY <2>6, <2>7, <2>8
<1> QED BY <1>4, <1>10, <1>11, <1>12, <1>13 DEF WorldInv

(* A session that is not in the game gets a state of its own.              *)
LEMMA SessionStep ==
  ASSUME WorldInv, UNCHANGED <<vars, net, clientVars>>,
         session' \in {"none", "inactive", "active"}, orderly' \in BOOLEAN,
         orderly' => orderly /\ session # "joined"
  PROVE  WorldInv'
<1>1. /\ ManagerInv /\ TypeOK /\ NetOK /\ ClientOK
      /\ orderly => SentOK /\ WaitingOK /\ AppliedOK
  BY DEF WorldInv, ManagerInv
<1>2. ManagerInv'
  BY <1>1, UnchangedKeepsManager
<1>3. nextId \in Nat /\ nextId' = nextId
  BY <1>1, ObjectAssumption DEF TypeOK, vars, managerVars
<1>4. NetOK' /\ Sent' = Sent
  BY <1>1, <1>3, NetStays
<1>5. ClientOK'
  BY <1>1, <1>4 DEF ClientOK, clientVars
<1>6. ChangesComplete'
  BY DEF ChangesComplete
<1>7. ASSUME orderly' PROVE SentOK' /\ WaitingOK' /\ AppliedOK'
  <2>1. \A f \in net : ~f.full
    BY <1>1, <1>7 DEF SentOK, FullOK
  <2>2. AppliedOK'
    BY <1>1, <1>7, AppliedStays
  <2> QED BY <2>1, <2>2 DEF SentOK, WaitingOK
<1> QED BY <1>2, <1>4, <1>5, <1>6, <1>7 DEF WorldInv

LEMMA SessionSteps ==
  ASSUME WorldInv, JoinRequest \/ SessionCloses \/ CallArrives
  PROVE  WorldInv'
<1>1. orderly \in BOOLEAN
  BY DEF WorldInv, ClientOK
<1>2. CASE JoinRequest
  BY <1>1, <1>2, SessionStep DEF JoinRequest
<1>3. CASE SessionCloses
  <2>1. orderly' \in BOOLEAN /\ (orderly' => orderly /\ session # "joined")
    BY <1>3 DEF SessionCloses
  <2> QED BY <1>3, <2>1, SessionStep DEF SessionCloses
<1>4. CASE CallArrives
  BY <1>1, <1>4, SessionStep DEF CallArrives
<1> QED BY <1>2, <1>3, <1>4

----------------------------------------------------------------------------
(* The steps of the client *)

LEMMA ClientStep ==
  ASSUME WorldInv, UNCHANGED <<vars, session, net>>, ClientOK',
         orderly' => orderly /\ AppliedOK'
  PROVE  WorldInv'
<1>1. /\ ManagerInv /\ TypeOK /\ NetOK /\ ClientOK /\ ChangesComplete
      /\ orderly => SentOK /\ WaitingOK /\ AppliedOK
  BY DEF WorldInv, ManagerInv
<1>2. ManagerInv'
  BY <1>1, UnchangedKeepsManager
<1>3. nextId \in Nat /\ nextId' = nextId /\ up' = up /\ m_newObjects' = m_newObjects
      /\ m_objectsById' = m_objectsById /\ m_removedIds' = m_removedIds
  BY <1>1, ObjectAssumption DEF TypeOK, vars, managerVars
<1>4. NetOK' /\ Sent' = Sent /\ View' = View
  BY <1>1, <1>3, NetStays
<1>5. ChangesComplete'
  BY <1>1, <1>3, <1>4 DEF ChangesComplete
<1>6. ASSUME orderly' PROVE SentOK' /\ WaitingOK'
  <2>1. SentOK'
    BY <1>1, <1>6, SentStays
  <2>2. WaitingOK'
    BY <1>1, <1>3, <1>4, <1>6 DEF WaitingOK
  <2> QED BY <2>1, <2>2
<1> QED BY <1>2, <1>4, <1>5, <1>6 DEF WorldInv

(* What ClientOK says of the objects.                                      *)
LEMMA WorldsFact ==
  ASSUME [objects |-> world, next |-> clientNextId] \in Worlds
  PROVE  /\ clientNextId \in Nat /\ world \in [DOMAIN world -> Objects]
         /\ DOMAIN world \subseteq 0..(clientNextId - 1)
<1> DEFINE w == [objects |-> world, next |-> clientNextId]
<1>1. w.objects = world /\ w.next = clientNextId
  OBVIOUS
<1> HIDE DEF w
<1>2. /\ w.next \in Nat /\ w.objects \in [DOMAIN w.objects -> Objects]
      /\ DOMAIN w.objects \subseteq 0..(w.next - 1)
  BY DEF Worlds, w
<1> QED BY <1>1, <1>2

LEMMA IsWorlds ==
  ASSUME NEW n \in Nat, NEW f, NEW D, D \subseteq 0..(n - 1), f \in [D -> Objects]
  PROVE  [objects |-> f, next |-> n] \in Worlds
<1> DEFINE w == [objects |-> f, next |-> n]
<1>1. w.objects = f /\ w.next = n /\ DOMAIN f = D /\ D \in SUBSET Nat
  OBVIOUS
<1>2. w \in [objects : UNION {[T -> Objects] : T \in SUBSET Nat}, next : Nat]
  BY <1>1
<1> HIDE DEF w
<1>3. w \in Worlds
  BY <1>1, <1>2 DEF Worlds
<1> QED BY <1>3 DEF w

LEMMA OwnSteps ==
  ASSUME WorldInv, ClientLoads \/ ClientCreates \/ ClientRemoves
  PROVE  WorldInv'
<1>1. ClientOK /\ (orderly => AppliedOK)
  BY DEF WorldInv
<1>2. /\ clientNextId \in Nat /\ world \in [DOMAIN world -> Objects]
      /\ DOMAIN world \subseteq 0..(clientNextId - 1)
  BY <1>1, WorldsFact DEF ClientOK
<1>3. net' = net => Sent' = Sent
  BY DEF Sent
<1>4. CASE ClientLoads
  <2>1. /\ UNCHANGED <<vars, session, net, world, clientNextId, last, orderly>>
        /\ loaded' = TRUE
    BY <1>4 DEF ClientLoads
  <2>2. ClientOK'
    BY <1>1, <1>3, <2>1 DEF ClientOK
  <2>3. AppliedOK => AppliedOK'
    BY <2>1 DEF AppliedOK, Ordered
  <2> QED BY <1>1, <2>1, <2>2, <2>3, ClientStep
<1>5. CASE ClientCreates
  <2> DEFINE f == Bind(world, clientNextId, [name |-> -1, data |-> -1])
             D == DOMAIN world \cup {clientNextId}
  <2>1. /\ clientNextId < MaxClientObjects /\ world' = f /\ clientNextId' = clientNextId + 1
        /\ orderly' = FALSE /\ UNCHANGED <<vars, session, net, loaded, last>>
    BY <1>5 DEF ClientCreates
  <2>2. [name |-> -1, data |-> -1] \in Objects
    BY DEF Objects
  <2>3. f \in [D -> Objects] /\ D \subseteq 0..((clientNextId + 1) - 1) /\ clientNextId + 1 \in Nat
    BY <1>2, <2>2 DEF Bind
  <2> HIDE DEF f, D
  <2>4. [objects |-> world', next |-> clientNextId'] \in Worlds
    BY <2>1, <2>3, IsWorlds
  <2>5. ClientOK'
    <3>1. clientNextId' <= MaxClientObjects
      BY <1>2, <2>1, WorldAssumption
    <3>2. last' \in 0..Sent' /\ loaded' \in BOOLEAN /\ orderly' \in BOOLEAN
          /\ session' \in {"none", "inactive", "active", "joined"}
      BY <1>1, <1>3, <2>1 DEF ClientOK
    <3> QED BY <2>4, <3>1, <3>2 DEF ClientOK
  <2> QED BY <2>1, <2>5, ClientStep
<1>6. CASE ClientRemoves
  <2>1. /\ orderly' = FALSE /\ UNCHANGED <<vars, session, net, loaded, clientNextId, last>>
        /\ \E id \in DOMAIN world : world' = [x \in DOMAIN world \ {id} |-> world[x]]
    BY <1>6 DEF ClientRemoves
  <2>2. PICK id \in DOMAIN world : world' = [x \in DOMAIN world \ {id} |-> world[x]]
    BY <2>1
  <2> DEFINE D == DOMAIN world \ {id}
  <2>3. D \subseteq 0..(clientNextId - 1) /\ world' \in [D -> Objects]
    BY <1>2, <2>2
  <2> HIDE DEF D
  <2>4. [objects |-> world', next |-> clientNextId'] \in Worlds
    BY <1>2, <2>1, <2>3, IsWorlds
  <2>5. ClientOK'
    BY <1>1, <1>3, <2>1, <2>4 DEF ClientOK
  <2> QED BY <2>1, <2>5, ClientStep
<1> QED BY <1>4, <1>5, <1>6

LEMMA ReceiveStep ==
  ASSUME WorldInv, NEW u \in net, Receive(u)
  PROVE  WorldInv'
<1> DEFINE base == [objects |-> world, next |-> clientNextId]
           w == FoldLeft(DeserializeObject, base, u.objects)
<1>1. /\ TypeOK /\ NetOK /\ ClientOK
      /\ orderly => SentOK /\ AppliedOK
  BY DEF WorldInv, ManagerInv
<1>2. /\ w.next <= MaxClientObjects
      /\ world' = [id \in DOMAIN w.objects \ u.removed |-> w.objects[id]]
      /\ clientNextId' = w.next /\ last' = u.no
      /\ orderly' = (orderly /\ IF last = 0 THEN u.full ELSE u.no = last + 1)
      /\ UNCHANGED <<vars, session, net, loaded>>
  BY DEF Receive, deserialize
<1>3. /\ u.no \in 1..Sent /\ u.next \in Nat /\ u.objects \in Seq(0..(u.next - 1))
      /\ u.view \subseteq 0..(u.next - 1) /\ Sent \in Nat /\ Sent' = Sent
  BY <1>1, <1>2, SentIsNat, ObjectAssumption DEF NetOK, PackageOK, TypeOK, Sent
<1>4. u.objects \in Seq(Nat)
  <2>1. 0..(u.next - 1) \subseteq Nat
    BY <1>3
  <2> QED BY <1>3, <2>1, SeqMonotonic
<1>5. base \in Worlds
  BY <1>1 DEF ClientOK
<1> HIDE DEF w
<1>6. w \in Worlds
  <2>1. PICK g \in [0..Len(u.objects) -> Worlds] : w = g[Len(u.objects)]
    BY <1>4, <1>5, DeserializeSteps DEF w
  <2>2. Len(u.objects) \in 0..Len(u.objects)
    BY <1>4, LenProperties
  <2> QED BY <2>1, <2>2
<1>7. /\ w.next \in Nat /\ w.objects \in [DOMAIN w.objects -> Objects]
      /\ DOMAIN w.objects \subseteq 0..(w.next - 1)
  BY <1>6 DEF Worlds
<1>8. ClientOK'
  <2> DEFINE D == DOMAIN w.objects \ u.removed
  <2>1. D \subseteq 0..(w.next - 1) /\ world' \in [D -> Objects]
    BY <1>2, <1>7
  <2> HIDE DEF D
  <2>2. [objects |-> world', next |-> clientNextId'] \in Worlds
    BY <1>2, <1>7, <2>1, IsWorlds
  <2>3. orderly' \in BOOLEAN
    BY <1>2
  <2>4. last' \in 0..Sent' /\ clientNextId' <= MaxClientObjects
    BY <1>2, <1>3
  <2> QED BY <1>1, <1>2, <2>2, <2>3, <2>4 DEF ClientOK
<1>9. ASSUME orderly' PROVE AppliedOK'
  <2>1. SentOK /\ AppliedOK /\ IF last = 0 THEN u.full ELSE u.no = last + 1
    BY <1>1, <1>2, <1>9
  <2>2. ASSUME NEW S \in SUBSET (0..(clientNextId - 1)), world = Mirror(S),
               clientNextId \in Nat, clientNextId <= u.next, IsAscending(u.objects),
               clientNextId..(u.next - 1) \subseteq ToSet(u.objects),
               ToSet(u.objects) \subseteq S \cup clientNextId..(u.next - 1),
               u.view = (S \cup ToSet(u.objects)) \ u.removed
        PROVE  world' = Mirror(u.view) /\ clientNextId' = u.next
    <3>1. w = [objects |-> Mirror(S \cup ToSet(u.objects)), next |-> u.next]
      <4> DEFINE n == clientNextId
      <4> HIDE DEF n
      <4>0. /\ n \in Nat /\ u.next \in Nat /\ n <= u.next /\ S \in SUBSET (0..(n - 1))
            /\ u.objects \in Seq(0..(u.next - 1)) /\ IsAscending(u.objects)
            /\ n..(u.next - 1) \subseteq ToSet(u.objects)
            /\ ToSet(u.objects) \subseteq S \cup n..(u.next - 1)
        BY <1>3, <2>2 DEF n
      <4>1. FoldLeft(DeserializeObject, [objects |-> Mirror(S), next |-> n], u.objects)
              = [objects |-> Mirror(S \cup ToSet(u.objects)), next |-> u.next]
        BY <4>0, DeserializeMirrors
      <4>2. base = [objects |-> Mirror(S), next |-> clientNextId]
        BY <2>2
      <4> QED BY <4>1, <4>2 DEF w, n
    <3>2. w.objects = Mirror(S \cup ToSet(u.objects)) /\ w.next = u.next
      BY <3>1
    <3>3. world' = Mirror(u.view)
      BY <1>2, <2>2, <3>2 DEF Mirror
    <3> QED BY <1>2, <3>2, <3>3
  <2>3. \A v \in net' : v.no = last' <=> v = u
    BY <1>1, <1>2 DEF NetOK
  <2>4. Ordered' => IsAscending(u.objects)
    BY <1>2, <1>3 DEF Ordered
  <2>5. CASE last = 0
    <3>1. /\ world = Mirror({}) /\ clientNextId = 0 /\ u.full
          /\ u.view = 0..(u.next - 1) /\ ToSet(u.objects) = u.view /\ u.removed = {}
      BY <2>1, <2>5 DEF AppliedOK, SentOK, FullOK
    <3>2. ASSUME Ordered' PROVE world' = Mirror(u.view) /\ clientNextId' = u.next
      <4>1. {} \in SUBSET (0..(clientNextId - 1)) /\ clientNextId \in Nat
            /\ clientNextId <= u.next
            /\ clientNextId..(u.next - 1) \subseteq ToSet(u.objects)
            /\ ToSet(u.objects) \subseteq {} \cup clientNextId..(u.next - 1)
            /\ u.view = ({} \cup ToSet(u.objects)) \ u.removed
        BY <1>3, <3>1
      <4> QED BY <2>2, <2>4, <3>1, <3>2, <4>1
    <3>3. u \in net' /\ u.full /\ u.no <= last' /\ last' # 0
      BY <1>2, <1>3, <3>1
    <3> QED BY <2>3, <3>2, <3>3 DEF AppliedOK
  <2>6. CASE last # 0
    <3>1. last \in 1..Sent /\ last > 0 /\ u.no = last + 1
      BY <1>1, <1>3, <2>1, <2>6 DEF ClientOK
    <3>2. PICK v \in net : v.no = last
      BY <1>1, <3>1 DEF NetOK
    <3>3. PICK f \in net : f.full /\ f.no <= last
      BY <2>1, <3>1 DEF AppliedOK
    <3>4. Follows(v, u)
      BY <2>1, <3>1, <3>2, <3>3 DEF SentOK
    <3>5. v.next \in Nat /\ v.view \subseteq 0..(v.next - 1) /\ f.no \in Nat
      BY <1>1, ObjectAssumption DEF NetOK, PackageOK, TypeOK
    <3>6. ASSUME Ordered' PROVE world' = Mirror(u.view) /\ clientNextId' = u.next
      <4>1. Ordered
        <5>1. \A x \in net : x.no \in Int
          BY <1>1 DEF NetOK, PackageOK
        <5> QED BY <1>2, <3>1, <3>6, <5>1 DEF Ordered
      <4>2. world = Mirror(v.view) /\ clientNextId = v.next
        BY <2>1, <3>1, <3>2, <4>1 DEF AppliedOK
      <4> QED BY <2>2, <2>4, <3>4, <3>5, <3>6, <4>2 DEF Follows
    <3>7. f \in net' /\ f.no <= last' /\ last' # 0
      BY <1>2, <3>1, <3>3, <3>5
    <3> QED BY <2>3, <3>3, <3>6, <3>7 DEF AppliedOK
  <2> QED BY <2>5, <2>6
<1>10. orderly' => orderly
  BY <1>2
<1> QED BY <1>2, <1>8, <1>9, <1>10, ClientStep

----------------------------------------------------------------------------
LEMMA WorldInductive == WorldInv /\ [WorldNext]_worldVars => WorldInv'
<1> SUFFICES ASSUME WorldInv, [WorldNext]_worldVars PROVE WorldInv'
  OBVIOUS
<1>1. CASE ServerScript
  BY <1>1, ServerScriptStep
<1>2. CASE sync
  BY <1>2, SyncStep
<1>3. CASE JoinAcknowledge
  BY <1>3, JoinAcknowledgeStep
<1>4. CASE JoinRequest \/ SessionCloses \/ CallArrives
  BY <1>4, SessionSteps
<1>5. CASE ClientLoads \/ ClientCreates \/ ClientRemoves
  BY <1>5, OwnSteps
<1>6. CASE \E update \in net : Receive(update)
  BY <1>6, ReceiveStep
<1>7. CASE UNCHANGED worldVars
  <2>1. UNCHANGED <<vars, session, net, clientVars, orderly>>
    BY <1>7 DEF worldVars
  <2>2. ClientOK /\ (orderly => AppliedOK)
    BY DEF WorldInv
  <2>3. ClientOK' /\ (AppliedOK => AppliedOK')
    BY <2>1, <2>2, AppliedStays DEF ClientOK, clientVars, Sent
  <2> QED BY <2>1, <2>2, <2>3, ClientStep
<1> QED BY <1>1, <1>2, <1>3, <1>4, <1>5, <1>6, <1>7 DEF WorldNext

THEOREM AlwaysWorldInv == WorldSpec => []WorldInv
BY InitWorld, WorldInductive, PTL DEF WorldSpec

(* The types of the world: ids of the client's objects were given out by   *)
(* its counter, whatever packages it applies, in whatever order            *)
(* (objectmanager.cpp:75-151, 237-253).                                    *)
THEOREM WorldTypeCorrect == WorldSpec => []WorldTypeOK
<1>1. WorldInv => WorldTypeOK
  <2> SUFFICES ASSUME WorldInv PROVE WorldTypeOK
    OBVIOUS
  <2>1. TypeOK /\ ClientOK /\ Sent <= MaxUpdates
    BY DEF WorldInv, ManagerInv, NetOK
  <2>2. clientNextId \in Nat /\ DOMAIN world \subseteq 0..(clientNextId - 1)
    BY <2>1, WorldsFact DEF ClientOK
  <2>3. clientNextId \in 0..MaxClientObjects
    BY <2>1, <2>2, WorldAssumption DEF ClientOK
  <2> QED BY <2>1, <2>2, <2>3 DEF ClientOK, WorldTypeOK
<1> QED BY <1>1, AlwaysWorldInv, PTL

(* What a client in the game was told and what waits for the next sync are *)
(* the objects there are (objectmanager.cpp:208-235,                       *)
(* networkserver.cpp:162-180, 240-244).                                    *)
THEOREM ChangesAlwaysComplete == WorldSpec => []ChangesComplete
<1>1. WorldInv => ChangesComplete
  BY DEF WorldInv
<1> QED BY <1>1, AlwaysWorldInv, PTL

(* An orderly client whose packages held their objects in the order of the *)
(* ids has the objects of the server, each under the same id               *)
(* (objectmanager.cpp:237-253, networkclient.cpp:133-150).                 *)
THEOREM OrderlyAlwaysMirrored == WorldSpec => []WorldMirrored
<1>1. WorldInv => WorldMirrored
  BY DEF WorldInv, AppliedOK, Ordered, Mirror, WorldMirrored
<1> QED BY <1>1, AlwaysWorldInv, PTL
==============================================================================
