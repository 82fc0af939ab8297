--------------------------- MODULE Campaign_proofs ---------------------------
(***************************************************************************)
(* Theorems about Serializer and Campaign, for any campaigns on the two    *)
(* sides whose classes have no two properties of one name.                 *)
(***************************************************************************)
EXTENDS Campaign, DataFacts

(***************************************************************************)
(* What the serializer does.                                               *)
(***************************************************************************)
Serialized(class, list) == {p \in ToSet(class) : IsSerialized(p, list)}

(* The message of an object has the listed properties of its class that    *)
(* can be serialized, and no others.                                       *)
LEMMA SerializedProperties ==
  ASSUME NEW P, NEW class \in Seq(P), NEW values, NEW list
  PROVE  /\ serializeObject(class, values, list)
              \in Seq({Entry(p, values) : p \in Serialized(class, list)})
         /\ ToSet(serializeObject(class, values, list))
              = {Entry(p, values) : p \in Serialized(class, list)}
<1> DEFINE n == Len(class)
           E == {Entry(p, values) : p \in Serialized(class, list)}
           V == Seq(E)
           Next1(k, s) == IF IsSerialized(class[k], list) THEN Append(s, Entry(class[k], values))
                          ELSE s
           Loop(f) == f = [k \in 0..n |->
                             IF k = 0 THEN <<>>
                             ELSE IF IsSerialized(class[k], list)
                                  THEN Append(f[k - 1], Entry(class[k], values))
                             ELSE f[k - 1]]
           step == [p \in (1..n) \X V |-> Next1(p[1], p[2])]
           Of(k) == {Entry(p, values) : p \in {class[j] : j \in {i \in 1..k : IsSerialized(class[i], list)}}}
<1>1. n \in Nat /\ DOMAIN class = 1..n
  BY LenProperties
<1>2. serializeObject(class, values, list) = (CHOOSE f : Loop(f))[n]
  BY DEF serializeObject
<1>3. \A k \in 1..n : IsSerialized(class[k], list) => Entry(class[k], values) \in E
  BY <1>1 DEF Serialized, ToSet
<1>4. E = Of(n)
  BY <1>1 DEF Serialized, ToSet
<1> HIDE DEF n, E
<1>5. \A k \in 1..n, s \in V : Next1(k, s) \in V
  BY <1>3, AppendProperties
<1> HIDE DEF Next1
<1>6. step \in [(1..n) \X V -> V] /\ \A k \in 1..n, s \in V : step[<<k, s>>] = Next1(k, s)
  BY <1>5
<1> HIDE DEF step
<1> DEFINE empty == <<>>
<1>7. empty \in V
  OBVIOUS
<1> HIDE DEF V, empty
<1>8. PICK g \in [0..n -> V] : IsRecursive(g, n, empty, step)
  BY <1>1, <1>6, <1>7, RecursionExists
<1>9. ASSUME NEW k \in 1..n PROVE g[k] = Next1(k, g[k - 1])
  <2>1. k - 1 \in 0..n
    BY <1>1
  <2>2. g[k - 1] \in V
    BY <2>1
  <2> QED BY <1>6, <1>8, <2>2 DEF IsRecursive
<1>10. Loop(g)
  <2>1. ASSUME NEW k \in 0..n
        PROVE  g[k] = IF k = 0 THEN empty ELSE Next1(k, g[k - 1])
    BY <1>1, <1>8, <1>9 DEF IsRecursive
  <2>2. g = [k \in 0..n |-> IF k = 0 THEN empty ELSE Next1(k, g[k - 1])]
    BY <2>1
  <2> QED BY <2>2 DEF Next1, empty
<1> DEFINE f == CHOOSE h : Loop(h)
<1>11. Loop(f)
  BY <1>10
<1> HIDE DEF f
<1>12. f[0] = empty /\ \A k \in 1..n : f[k] = Next1(k, f[k - 1])
  <2>1. f = [k \in 0..n |-> IF k = 0 THEN empty ELSE Next1(k, f[k - 1])]
    BY <1>11 DEF Next1, empty
  <2> HIDE DEF Loop
  <2>2. \A k \in 0..n : f[k] = IF k = 0 THEN empty ELSE Next1(k, f[k - 1])
    BY <2>1
  <2> QED BY <1>1, <2>2
<1> HIDE DEF Loop
<1> DEFINE T == {k \in 0..n : f[k] \in V /\ ToSet(f[k]) = Of(k)}
<1>13. 0 \in T
  <2>1. Of(0) = {}
    OBVIOUS
  <2>2. ToSet(empty) = {}
    BY DEF ToSet, empty
  <2> QED BY <1>1, <1>7, <1>12, <2>1, <2>2
<1>14. ASSUME NEW k \in 0..(n - 1), k \in T PROVE k + 1 \in T
  <2>1. k + 1 \in 1..n /\ k + 1 \in 0..n /\ (k + 1) - 1 = k
    BY <1>1
  <2>2. f[k + 1] = Next1(k + 1, f[k]) /\ f[k] \in V /\ ToSet(f[k]) = Of(k)
    BY <1>12, <1>14, <2>1
  <2>3. f[k + 1] \in V
    BY <1>5, <2>1, <2>2
  <2>4. CASE IsSerialized(class[k + 1], list)
    <3> DEFINE e == Entry(class[k + 1], values)
    <3>1. e \in E /\ f[k + 1] = Append(f[k], e)
      BY <1>3, <2>1, <2>2, <2>4 DEF Next1
    <3>2. Of(k + 1) = Of(k) \cup {e}
      BY <2>1, <2>4
    <3> HIDE DEF e
    <3>3. ToSet(Append(f[k], e)) = ToSet(f[k]) \cup {e}
      <4>1. f[k] \in Seq(E)
        BY <2>2 DEF V
      <4>2. Len(f[k]) \in Nat /\ DOMAIN f[k] = 1..Len(f[k])
        BY <4>1, LenProperties
      <4>3. /\ DOMAIN Append(f[k], e) = 1..(Len(f[k]) + 1)
            /\ \A j \in 1..Len(f[k]) : Append(f[k], e)[j] = f[k][j]
            /\ Append(f[k], e)[Len(f[k]) + 1] = e
        BY <3>1, <4>1, <4>2, AppendProperties, LenProperties
      <4> QED BY <4>2, <4>3 DEF ToSet
    <3>4. ToSet(f[k + 1]) = Of(k + 1)
      BY <2>2, <3>1, <3>2, <3>3
    <3> QED BY <2>1, <2>3, <3>4
  <2>5. CASE ~IsSerialized(class[k + 1], list)
    <3>1. f[k + 1] = f[k]
      BY <2>2, <2>5 DEF Next1
    <3>2. \A i \in 1..(k + 1) : IsSerialized(class[i], list) => i \in 1..k
      BY <2>1, <2>5
    <3>3. Of(k + 1) = Of(k)
      BY <2>1, <3>2
    <3> QED BY <2>1, <2>2, <2>3, <3>1, <3>3
  <2> QED BY <2>4, <2>5
<1> HIDE DEF T
<1>15. n \in T
  <2>1. 0..n \subseteq T
    BY <1>1, <1>13, <1>14, IntervalInduction
  <2> QED BY <1>1, <2>1
<1>16. f[n] \in V /\ ToSet(f[n]) = Of(n)
  BY <1>15 DEF T
<1> QED BY <1>2, <1>4, <1>16 DEF V, E, f

(* The loop over the entries comes to its end exactly if every entry is a  *)
(* property of the class with the same declaration, and the values it      *)
(* leaves are those of all entries.                                        *)
LEMMA DeserializedIfFits ==
  ASSUME NEW P, NEW source \in Seq(P), NEW class, NEW values
  PROVE  LET d == deserializeObject(source, class, values)
         IN  /\ d.result \in {"true", "false", "throws"}
             /\ d.result = "true" <=> \A e \in ToSet(source) : Fits(e, class)
             /\ d.result = "true" => d.values = applied(source, class, values, Len(source))
             /\ d.values = [n \in Names(class) |-> d.values[n]]
<1> DEFINE bad == {i \in DOMAIN source : ~Fits(source[i], class)}
           end == IF bad = {} THEN Len(source) + 1 ELSE CHOOSE i \in bad : \A j \in bad : i <= j
           named == source[end].name \in Names(class)
           d == deserializeObject(source, class, values)
<1>1. /\ d.values = applied(source, class, values, end - 1)
      /\ d.result = IF bad = {} THEN "true" ELSE IF named THEN "false" ELSE "throws"
  BY DEF deserializeObject
<1>2. bad = {} <=> \A e \in ToSet(source) : Fits(e, class)
  BY DEF ToSet
<1>3. bad = {} => (Len(source) + 1) - 1 = Len(source)
  BY LenProperties
<1>4. bad = {} => end = Len(source) + 1
  OBVIOUS
<1>5. bad = {} => d.values = applied(source, class, values, Len(source))
  BY <1>1, <1>3, <1>4
<1> HIDE DEF bad, end, d
<1>6. d.values = [n \in Names(class) |-> d.values[n]]
  BY <1>1 DEF applied
<1> HIDE DEF named
<1>7. bad # {} => d.result # "true" /\ d.result \in {"false", "throws"}
  BY <1>1
<1>8. bad = {} => d.result = "true"
  BY <1>1
<1> QED BY <1>2, <1>5, <1>6, <1>7, <1>8 DEF d

Distinct(class) == \A p, q \in ToSet(class) : p.name = q.name => p = q

(* Between two classes, one of which has what of the other is sent: each   *)
(* property that is no array arrives with its value, in whatever order the *)
(* classes have their properties.                                          *)
LEMMA SentValuesArrive ==
  ASSUME NEW class \in Seq(Properties), Distinct(class), NEW values, NEW list,
         NEW target, NEW old, NEW source,
         source = serializeObject(class, values, list),
         \A e \in ToSet(source) : Fits(e, target),
         NEW p \in Serialized(class, list), p.decl \in Singular
  PROVE  /\ p.name \in Names(target)
         /\ applied(source, target, old, Len(source))[p.name] = values[p.name]
<1> DEFINE at == {i \in 1..Len(source) : source[i].name = p.name}
           E == {Entry(q, values) : q \in Serialized(class, list)}
<1>1. source \in Seq(E) /\ ToSet(source) = E
  BY SerializedProperties
<1>2. DOMAIN source = 1..Len(source)
  BY <1>1, LenProperties
<1>3. \A q \in Serialized(class, list) : q \in ToSet(class)
  BY DEF Serialized
<1>4. Entry(p, values).name = p.name /\ Entry(p, values).decl = p.decl
      /\ Entry(p, values).dat = values[p.name]
  BY DEF Entry, Stored, Singular
<1>5. Entry(p, values) \in ToSet(source)
  BY <1>1
<1>6. p.name \in Names(target)
  <2>1. [name |-> p.name, decl |-> p.decl] \in ToSet(target)
    BY <1>4, <1>5 DEF Fits
  <2> QED BY <2>1 DEF Names
<1>7. at # {}
  <2>1. PICK i \in DOMAIN source : source[i] = Entry(p, values)
    BY <1>5 DEF ToSet
  <2> QED BY <1>2, <1>4, <2>1
<1>8. ASSUME NEW i \in at PROVE source[i] = Entry(p, values)
  <2>1. source[i] \in ToSet(source) /\ source[i].name = p.name
    BY <1>2 DEF ToSet
  <2>2. PICK q \in Serialized(class, list) : source[i] = Entry(q, values)
    BY <1>1, <2>1
  <2>3. q.name = p.name
    BY <2>1, <2>2 DEF Entry
  <2>4. q = p
    BY <1>3, <2>3 DEF Distinct
  <2> QED BY <2>2, <2>4
<1>9. p.decl \notin Arrays
  BY DEF Singular, Arrays
<1> DEFINE c == CHOOSE i \in at : TRUE
<1>10. c \in at
  BY <1>7
<1>11. applied(source, target, old, Len(source))[p.name] = Decoded(source[c])
  BY <1>6, <1>7 DEF applied
<1> HIDE DEF c
<1>12. Decoded(source[c]) = values[p.name]
  BY <1>4, <1>8, <1>9, <1>10 DEF Decoded
<1> QED BY <1>6, <1>11, <1>12

----------------------------------------------------------------------------
(***************************************************************************)
(* The inductive invariant.                                                *)
(***************************************************************************)
DisksOK ==
  disk["server"] \in ServerDisks /\ disk["client"] \in ClientDisks

StartedOK ==
  /\ server = "serving" => Version("server") # NoCampaign
  /\ client = "playing" => Version("client") # NoCampaign

(* The values of the object are those of its class, and an array is one.   *)
ObjectOK ==
  object # None =>
    /\ Version("server") # NoCampaign
    /\ object \in Objects(Names(ServerClass))
    /\ \A n \in Names(ServerClass) :
         DeclOf(ServerClass, n) \in Arrays => object.values[n] \in Seq(Nat)

(* An update is what the serializer made of the values it is of.           *)
NetOK ==
  \A u \in net :
    /\ Version("server") # NoCampaign
    /\ u.position \in Positions
    /\ u.entries = serializeObject(ServerClass, u.of, Version("server").list)

ShownOK ==
  shown # None =>
    /\ Version("client") # NoCampaign
    /\ shown = [position |-> shown.position, values |-> shown.values]
    /\ shown.values = [n \in Names(Version("client").class) |-> shown.values[n]]

(* Nothing is applied before the client plays, what was applied as a whole *)
(* was sent, and nothing is given up half-way between campaigns that fit.  *)
AppliedOK ==
  /\ client \in {"joining", "no_campaign"} => shown = None /\ mirrors = None /\ ~torn
  /\ mirrors # None => mirrors \in net
  /\ torn => ~Compatible

ClientInv == ShownOK /\ AppliedOK /\ MirroredAfterSuccess /\ WholeIfCompatible

IInv == TypeOK /\ DisksOK /\ StartedOK /\ ObjectOK /\ NetOK /\ ClientInv

(* A disk that is searched with success has a campaign whose class has no  *)
(* two properties of one name.                                             *)
LEMMA VersionType ==
  ASSUME DisksOK, NEW side \in Sides, Version(side) # NoCampaign
  PROVE  /\ Version(side) \in Versions
         /\ Distinct(Version(side).class)
         /\ None \notin Objects(Names(Version(side).class))
<1>1. PICK d : d = disk[side]
  OBVIOUS
<1>2. d \in ServerDisks \cup ClientDisks
  BY <1>1 DEF DisksOK, Sides
<1>3. d \in Seq(Versions \cup {NoCampaign})
  BY <1>2, CampaignAssumption
<1>4. Len(d) \in Nat /\ DOMAIN d = 1..Len(d)
  BY <1>3, LenProperties
<1> DEFINE found == {j \in Nat : j \in DOMAIN d /\ d[j] # NoCampaign}
           i == CHOOSE j \in DOMAIN d : d[j] # NoCampaign /\ \A k \in 1..(j - 1) : d[k] = NoCampaign
<1>5. Version(side) = IF \A j \in DOMAIN d : d[j] = NoCampaign THEN NoCampaign ELSE d[i]
  BY <1>1 DEF Version, loadCampaignPath
<1>6. found # {} /\ found \in SUBSET Nat
  BY <1>4, <1>5
<1>7. PICK l \in found : \A m \in found : l <= m
  <2> HIDE DEF found
  <2> QED BY <1>6, LeastNatural
<1>8. l \in DOMAIN d /\ d[l] # NoCampaign /\ \A k \in 1..(l - 1) : d[k] = NoCampaign
  BY <1>4, <1>7
<1>9. i \in DOMAIN d /\ d[i] # NoCampaign
  BY <1>8
<1>10. Version(side) = d[i]
  BY <1>5, <1>9
<1> HIDE DEF i
<1>11. d[i] \in ToSet(d) \ {NoCampaign}
  BY <1>9 DEF ToSet
<1>12. d[i] \in Versions
  BY <1>3, <1>4, <1>9, ElementOfSeq
<1> QED
  BY <1>2, <1>10, <1>11, <1>12, CampaignAssumption DEF Distinct

(* The disks do not change, so the campaigns do not.                       *)
LEMMA VersionKept ==
  ASSUME UNCHANGED disk
  PROVE  /\ Version("server")' = Version("server") /\ Version("client")' = Version("client")
         /\ ServerClass' = ServerClass /\ Sent' = Sent /\ (Compatible' <=> Compatible)
         /\ (DisksOK => DisksOK')
BY DEF Version, ServerClass, Sent, Compatible, DisksOK

LEMMA ClientKept ==
  ASSUME ClientInv, UNCHANGED <<disk, clientVars>>, net \subseteq net'
  PROVE  ClientInv'
<1> USE VersionKept
<1>1. UNCHANGED <<disk, client, shown, mirrors, torn>>
  BY DEF clientVars
<1>2. ShownOK'
  BY <1>1 DEF ClientInv, ShownOK
<1>3. AppliedOK'
  BY <1>1 DEF ClientInv, AppliedOK
<1>4. MirroredAfterSuccess'
  BY <1>1 DEF ClientInv, MirroredAfterSuccess
<1>5. WholeIfCompatible'
  BY <1>1 DEF ClientInv, WholeIfCompatible
<1> QED BY <1>2, <1>3, <1>4, <1>5 DEF ClientInv

LEMMA ServerKept ==
  ASSUME ObjectOK, NetOK, UNCHANGED <<disk, object, net>>
  PROVE  ObjectOK' /\ NetOK'
<1> USE VersionKept
<1>1. ObjectOK'
  BY DEF ObjectOK
<1>2. NetOK'
  BY DEF NetOK
<1> QED BY <1>1, <1>2

(* Whoever sends an update sends the object there is, or ends the server.  *)
LEMMA SendUpdateInv ==
  ASSUME TypeOK, ObjectOK, NetOK, object # None, SendUpdate, UNCHANGED <<disk, object>>
  PROVE  /\ net \subseteq net' /\ server' \in {server, "down"}
         /\ ObjectOK' /\ NetOK'
         /\ \A u \in net' : u.position \in Positions
<1> USE VersionKept
<1>1. ObjectOK'
  BY DEF ObjectOK
<1>2. /\ Update.position = object.position /\ Update.of = object.values
      /\ Update.entries = serializeObject(ServerClass, Update.of, Version("server").list)
  BY DEF Update, ServerClass
<1>3. object.position \in Positions /\ Version("server") # NoCampaign
  BY DEF ObjectOK, Objects
<1>4. net' \in {net, net \cup {Update}} /\ server' \in {server, "down"}
  BY DEF SendUpdate
<1>5. NetOK'
  BY <1>2, <1>3, <1>4 DEF NetOK
<1>6. \A u \in net' : u.position \in Positions
  BY <1>5 DEF NetOK
<1> QED BY <1>1, <1>4, <1>5, <1>6

LEMMA InitInv == Init => IInv
<1> SUFFICES ASSUME Init PROVE IInv
  OBVIOUS
<1>1. disk["server"] \in ServerDisks /\ disk["client"] \in ClientDisks
  <2>1. PICK s \in ServerDisks, c \in ClientDisks :
          disk = [side \in Sides |-> IF side = "server" THEN s ELSE c]
    BY DEF Init
  <2> QED BY <2>1 DEF Sides
<1>2. TypeOK
  <2>1. \A u \in net \cup ({mirrors} \ {None}) : u.position \in Positions
    BY DEF Init
  <2>2. writes \in 0..MaxWrites /\ repeats \in 0..MaxRepeats
    BY CampaignAssumption DEF Init
  <2> QED BY <2>1, <2>2 DEF Init, TypeOK
<1>3. DisksOK /\ StartedOK /\ ObjectOK /\ NetOK
  BY <1>1 DEF Init, DisksOK, StartedOK, ObjectOK, NetOK
<1>4. ClientInv
  BY DEF Init, ClientInv, ShownOK, AppliedOK, MirroredAfterSuccess, WholeIfCompatible
<1> QED BY <1>2, <1>3, <1>4 DEF IInv

----------------------------------------------------------------------------
(***************************************************************************)
(* The steps.                                                              *)
(***************************************************************************)
(* What TypeOK says of the variables that have a type of their own.        *)
ScalarsOK ==
  /\ server \in {"starting", "refused", "serving", "down"}
  /\ client \in {"joining", "no_campaign", "playing", "down"}
  /\ registered \in [Sides -> BOOLEAN]
  /\ isNew \in BOOLEAN /\ torn \in BOOLEAN
  /\ session \in {"none", "active", "joined"}
  /\ isNew => object # None
  /\ writes \in 0..MaxWrites /\ repeats \in 0..MaxRepeats

LEMMA TypeFromParts ==
  ASSUME ScalarsOK', ObjectOK', NetOK', ShownOK', AppliedOK'
  PROVE  TypeOK'
<1>1. object' # None => DOMAIN object'.values = Names(ServerClass')
  BY DEF ObjectOK, Objects
<1>2. shown' # None => DOMAIN shown'.values = Names(Version("client").class)'
  <2> SUFFICES ASSUME shown' # None
               PROVE  DOMAIN shown'.values = Names(Version("client").class)'
    OBVIOUS
  <2>1. shown'.values = [n \in Names(Version("client").class)' |-> shown'.values[n]]
    BY DEF ShownOK
  <2> QED BY <2>1
<1>3. \A u \in net' \cup ({mirrors'} \ {None}) : u.position \in Positions
  BY DEF NetOK, AppliedOK
<1> QED BY <1>1, <1>2, <1>3 DEF TypeOK, ScalarsOK, ServerClass

LEMMA TypeHasScalars == TypeOK => ScalarsOK
BY DEF TypeOK, ScalarsOK

LEMMA RegisterObjectType == \A v : registerObject(v) \subseteq BOOLEAN
BY DEF registerObject

LEMMA ServerStartsInv == IInv /\ ServerStarts => IInv'
<1> SUFFICES ASSUME IInv, ServerStarts PROVE IInv'
  OBVIOUS
<1> USE VersionKept
<1>1. ScalarsOK /\ DisksOK /\ StartedOK /\ ObjectOK /\ NetOK /\ ClientInv
  BY TypeHasScalars DEF IInv
<1>2. UNCHANGED <<disk, object, isNew, session, clientVars, net, writes, repeats>>
  BY DEF ServerStarts
<1>3. DisksOK' /\ ObjectOK' /\ NetOK' /\ ClientInv'
  BY <1>1, <1>2, ServerKept, ClientKept
<1>4. server' \in {"refused", "down", "serving"}
      /\ (server' = "serving" => Version("server") # NoCampaign)
  BY DEF ServerStarts
<1>5. StartedOK'
  BY <1>1, <1>2, <1>4 DEF StartedOK, clientVars
<1>6. registered' \in [Sides -> BOOLEAN]
  <2>1. PICK r \in registerObject(Version("server")) :
          registered' = [registered EXCEPT !["server"] = r]
    BY DEF ServerStarts
  <2>2. r \in BOOLEAN
    BY RegisterObjectType
  <2> QED BY <1>1, <2>1, <2>2 DEF ScalarsOK
<1>7. ScalarsOK'
  BY <1>1, <1>2, <1>4, <1>6 DEF ScalarsOK, clientVars
<1> QED BY <1>3, <1>5, <1>7, TypeFromParts DEF IInv, ClientInv

LEMMA ServerCreatesInv == IInv /\ ServerCreates => IInv'
<1> SUFFICES ASSUME IInv, ServerCreates PROVE IInv'
  OBVIOUS
<1> USE VersionKept
<1>1. ScalarsOK /\ DisksOK /\ StartedOK /\ ObjectOK /\ NetOK /\ ClientInv
  BY TypeHasScalars DEF IInv
<1>2. UNCHANGED <<disk, registered, session, clientVars, net, writes, repeats>>
      /\ server = "serving"
  BY DEF ServerCreates
<1>3. DisksOK' /\ ClientInv'
  BY <1>1, <1>2, ClientKept
<1>4. server' \in {server, "down"}
  BY DEF ServerCreates
<1>5. StartedOK'
  BY <1>1, <1>2, <1>4 DEF StartedOK, clientVars
<1>6. CASE registered["server"]
  <2>1. PICK p \in Positions : object' = [position |-> p, values |-> Initial(ServerClass)]
    BY <1>6 DEF ServerCreates, ServerClass
  <2>2. isNew' = TRUE
    BY <1>6 DEF ServerCreates
  <2>3. Version("server") # NoCampaign
    BY <1>1, <1>2 DEF StartedOK
  <2> DEFINE N == Names(ServerClass)
  <2>4. /\ Initial(ServerClass) \in [N -> Nat \cup Seq(Nat)]
        /\ \A n \in N : DeclOf(ServerClass, n) \in Arrays => Initial(ServerClass)[n] \in Seq(Nat)
    BY DEF Initial
  <2>5. object' \in Objects(N)
    BY <2>1, <2>4 DEF Objects
  <2>6. object' # None
    <3>1. None \notin Objects(N)
      BY <1>1, <2>3, VersionType DEF Sides, ServerClass
    <3> QED BY <2>5, <3>1
  <2>7. ObjectOK'
    BY <1>2, <2>1, <2>3, <2>4, <2>5 DEF ObjectOK
  <2>8. NetOK'
    BY <1>1, <1>2 DEF NetOK
  <2>9. ScalarsOK'
    BY <1>1, <1>2, <1>4, <2>2, <2>6 DEF ScalarsOK, clientVars
  <2> QED BY <1>3, <1>5, <2>7, <2>8, <2>9, TypeFromParts DEF IInv, ClientInv
<1>7. CASE ~registered["server"]
  <2>1. UNCHANGED <<object, isNew>>
    BY <1>7 DEF ServerCreates
  <2>2. ObjectOK' /\ NetOK'
    BY <1>1, <1>2, <2>1, ServerKept
  <2>3. ScalarsOK'
    BY <1>1, <1>2, <1>4, <2>1 DEF ScalarsOK, clientVars
  <2> QED BY <1>3, <1>5, <2>2, <2>3, TypeFromParts DEF IInv, ClientInv
<1> QED BY <1>6, <1>7

LEMMA ServerWritesInv == IInv /\ ServerWrites => IInv'
<1> SUFFICES ASSUME IInv, ServerWrites PROVE IInv'
  OBVIOUS
<1> USE VersionKept
<1>1. ScalarsOK /\ DisksOK /\ StartedOK /\ ObjectOK /\ NetOK /\ ClientInv
  BY TypeHasScalars DEF IInv
<1>2. /\ UNCHANGED <<disk, registered, server, isNew, session, clientVars, net, repeats>>
      /\ object # None /\ writes < MaxWrites /\ writes' = writes + 1
  BY DEF ServerWrites
<1>3. DisksOK' /\ ClientInv' /\ NetOK'
  BY <1>1, <1>2, ClientKept DEF NetOK
<1>4. StartedOK'
  BY <1>1, <1>2 DEF StartedOK, clientVars
<1> DEFINE N == Names(ServerClass)
<1>5. PICK n \in N :
        object' = [object EXCEPT !.values[n] = Written(DeclOf(ServerClass, n), object.values[n])]
  BY DEF ServerWrites, ServerClass
<1>6. PICK w : w = Written(DeclOf(ServerClass, n), object.values[n])
  OBVIOUS
<1>7. w \in Nat \cup Seq(Nat) /\ (DeclOf(ServerClass, n) \in Arrays => w \in Seq(Nat))
  <2>1. writes + 1 \in Nat
    BY <1>1, CampaignAssumption DEF ScalarsOK
  <2>2. DeclOf(ServerClass, n) \in Arrays => object.values[n] \in Seq(Nat)
    BY <1>1, <1>2 DEF ObjectOK
  <2>3. DeclOf(ServerClass, n) \in Arrays => w \in Seq(Nat)
    BY <1>6, <2>1, <2>2, AppendProperties DEF Written
  <2>4. DeclOf(ServerClass, n) \notin Arrays => w \in Nat
    BY <1>6, <2>1 DEF Written
  <2> QED BY <2>3, <2>4
<1> DEFINE V == Nat \cup Seq(Nat)
<1>8. object \in [position : Positions, values : [N -> V]]
  BY <1>1, <1>2 DEF ObjectOK, Objects
<1> HIDE DEF V, N
<1>9. object' = [object EXCEPT !.values[n] = w] /\ w \in V
  BY <1>5, <1>6, <1>7 DEF V
<1>10. /\ object' \in [position : Positions, values : [N -> V]]
       /\ object'.values = [object.values EXCEPT ![n] = w]
  BY <1>8, <1>9
<1>11. object' \in Objects(Names(ServerClass))
  BY <1>10 DEF Objects, V, N
<1>12. Version("server") # NoCampaign
  BY <1>1, <1>2 DEF ObjectOK
<1>13. \A x \in N : DeclOf(ServerClass, x) \in Arrays => object'.values[x] \in Seq(Nat)
  BY <1>1, <1>2, <1>7, <1>8, <1>10 DEF ObjectOK, N
<1>14. ObjectOK'
  BY <1>2, <1>11, <1>12, <1>13 DEF ObjectOK, N
<1>15. object' # None
  <2>1. None \notin Objects(Names(ServerClass))
    BY <1>1, <1>12, VersionType DEF Sides, ServerClass
  <2> QED BY <1>11, <2>1
<1>16. writes' \in 0..MaxWrites
  BY <1>1, <1>2, CampaignAssumption DEF ScalarsOK
<1>17. ScalarsOK'
  BY <1>1, <1>2, <1>15, <1>16 DEF ScalarsOK, clientVars
<1> QED BY <1>3, <1>4, <1>14, <1>17, TypeFromParts DEF IInv, ClientInv

(* A step of the server that may send the object.                          *)
LEMMA SendingInv ==
  ASSUME IInv, object # None, SendUpdate, UNCHANGED <<disk, registered, object, clientVars, writes>>,
         session' \in {"none", "active", "joined"}, repeats' \in 0..MaxRepeats,
         isNew' \in {isNew, FALSE}
  PROVE  IInv'
<1> USE VersionKept
<1>1. ScalarsOK /\ DisksOK /\ StartedOK /\ ObjectOK /\ NetOK /\ ClientInv /\ TypeOK
  BY TypeHasScalars DEF IInv
<1>2. net \subseteq net' /\ server' \in {server, "down"} /\ ObjectOK' /\ NetOK'
  BY <1>1, SendUpdateInv
<1>3. DisksOK' /\ ClientInv'
  BY <1>1, <1>2, ClientKept
<1>4. StartedOK'
  BY <1>1, <1>2 DEF StartedOK, clientVars
<1>5. ScalarsOK'
  BY <1>1, <1>2 DEF ScalarsOK, clientVars
<1> QED BY <1>2, <1>3, <1>4, <1>5, TypeFromParts DEF IInv, ClientInv

(* A step of the server that sends nothing.                                *)
LEMMA SilentInv ==
  ASSUME IInv, UNCHANGED <<disk, registered, server, object, clientVars, net, writes>>,
         session' \in {"none", "active", "joined"}, repeats' \in 0..MaxRepeats,
         isNew' \in {isNew, FALSE}
  PROVE  IInv'
<1> USE VersionKept
<1>1. ScalarsOK /\ DisksOK /\ StartedOK /\ ObjectOK /\ NetOK /\ ClientInv
  BY TypeHasScalars DEF IInv
<1>2. DisksOK' /\ ClientInv' /\ ObjectOK' /\ NetOK'
  BY <1>1, ClientKept, ServerKept
<1>3. StartedOK'
  BY <1>1 DEF StartedOK, clientVars
<1>4. ScalarsOK'
  <2>1. object' = object /\ isNew' \in {isNew, FALSE}
    OBVIOUS
  <2>2. isNew \in BOOLEAN /\ (isNew => object # None)
    BY <1>1 DEF ScalarsOK
  <2>3. isNew' \in BOOLEAN /\ (isNew' => object' # None)
    <3>1. CASE isNew' = isNew
      BY <2>1, <2>2, <3>1
    <3>2. CASE isNew' = FALSE
      BY <3>2, Zenon
    <3> QED BY <2>1, <3>1, <3>2
  <2> QED BY <1>1, <2>3 DEF ScalarsOK, clientVars
<1> QED BY <1>2, <1>3, <1>4, TypeFromParts DEF IInv, ClientInv

LEMMA ServerSendsInv ==
  IInv /\ (sync \/ JoinRequest \/ JoinAcknowledge \/ RepeatedAcknowledge) => IInv'
<1> SUFFICES ASSUME IInv, sync \/ JoinRequest \/ JoinAcknowledge \/ RepeatedAcknowledge
             PROVE  IInv'
  OBVIOUS
<1>1. ScalarsOK
  BY TypeHasScalars DEF IInv
<1>2. /\ session \in {"none", "active", "joined"} /\ repeats \in 0..MaxRepeats
      /\ isNew => object # None
  BY <1>1 DEF ScalarsOK
<1>3. CASE sync
  <2>1. /\ UNCHANGED <<disk, registered, object, session, clientVars, writes, repeats>>
        /\ isNew' = FALSE
    BY <1>3 DEF sync
  <2>2. CASE isNew /\ session # "none"
    BY <1>2, <1>3, <2>1, <2>2, SendingInv DEF sync
  <2>3. CASE ~(isNew /\ session # "none")
    BY <1>2, <1>3, <2>1, <2>3, SilentInv DEF sync
  <2> QED BY <2>2, <2>3
<1>4. CASE JoinRequest
  BY <1>2, <1>4, SilentInv DEF JoinRequest
<1>5. CASE JoinAcknowledge
  <2>1. /\ UNCHANGED <<disk, registered, object, isNew, clientVars, writes, repeats>>
        /\ session' \in {"none", "joined"}
    BY <1>5 DEF JoinAcknowledge
  <2>2. CASE client = "playing" /\ object # None
    BY <1>2, <1>5, <2>1, <2>2, SendingInv DEF JoinAcknowledge, FullState
  <2>3. CASE ~(client = "playing" /\ object # None)
    BY <1>2, <1>5, <2>1, <2>3, SilentInv DEF JoinAcknowledge, FullState
  <2> QED BY <2>2, <2>3
<1>6. CASE RepeatedAcknowledge
  <2>1. UNCHANGED <<disk, registered, object, isNew, session, clientVars, writes>>
    BY <1>6 DEF RepeatedAcknowledge
  <2>2. repeats' \in 0..MaxRepeats
    BY <1>2, <1>6, CampaignAssumption DEF RepeatedAcknowledge
  <2>3. CASE object # None
    BY <1>2, <1>6, <2>1, <2>2, <2>3, SendingInv DEF RepeatedAcknowledge, FullState
  <2>4. CASE object = None
    BY <1>2, <1>6, <2>1, <2>2, <2>4, SilentInv DEF RepeatedAcknowledge, FullState
  <2> QED BY <2>3, <2>4
<1> QED BY <1>3, <1>4, <1>5, <1>6

----------------------------------------------------------------------------
(* A step of the client before it plays, which ends it or lets it play.    *)
LEMMA NotYetPlayingInv ==
  ASSUME IInv, client \in {"joining", "no_campaign"},
         UNCHANGED <<disk, serverVars, shown, mirrors, torn, net, writes, repeats>>,
         client' \in {"no_campaign", "down", "playing"},
         client' = "playing" => Version("client") # NoCampaign,
         registered' \in [Sides -> BOOLEAN]
  PROVE  IInv'
<1> USE VersionKept
<1>1. ScalarsOK /\ DisksOK /\ StartedOK /\ ObjectOK /\ NetOK /\ ClientInv
  BY TypeHasScalars DEF IInv
<1>2. UNCHANGED <<server, object, isNew, session>>
  BY DEF serverVars
<1>3. shown' = None /\ mirrors' = None /\ ~torn'
  BY <1>1 DEF ClientInv, AppliedOK
<1>4. ClientInv'
  BY <1>3 DEF ClientInv, ShownOK, AppliedOK, MirroredAfterSuccess, WholeIfCompatible
<1>5. DisksOK' /\ ObjectOK' /\ NetOK'
  BY <1>1, <1>2, ServerKept
<1>6. StartedOK'
  BY <1>1, <1>2 DEF StartedOK
<1>7. ScalarsOK'
  BY <1>1, <1>2, <1>3 DEF ScalarsOK
<1> QED BY <1>4, <1>5, <1>6, <1>7, TypeFromParts DEF IInv, ClientInv

LEMMA ClientStartsInv ==
  IInv /\ (ClientLoads \/ StepWithoutLogic \/ ReceiveWithoutModule) => IInv'
<1> SUFFICES ASSUME IInv, ClientLoads \/ StepWithoutLogic \/ ReceiveWithoutModule
             PROVE  IInv'
  OBVIOUS
<1>1. registered \in [Sides -> BOOLEAN]
  BY DEF IInv, TypeOK
<1>2. CASE ClientLoads
  <2>1. /\ client \in {"joining", "no_campaign"}
        /\ UNCHANGED <<disk, serverVars, shown, mirrors, torn, net, writes, repeats>>
        /\ client' \in {"no_campaign", "down", "playing"}
        /\ client' = "playing" => Version("client") # NoCampaign
    BY <1>2 DEF ClientLoads
  <2>2. PICK r \in registerObject(Version("client")) :
          registered' = [registered EXCEPT !["client"] = r]
    BY <1>2 DEF ClientLoads
  <2>3. registered' \in [Sides -> BOOLEAN]
    <3>1. r \in BOOLEAN
      BY RegisterObjectType
    <3> QED BY <1>1, <2>2, <3>1
  <2> QED BY <2>1, <2>3, NotYetPlayingInv
<1>3. CASE StepWithoutLogic \/ ReceiveWithoutModule
  <2>1. /\ client \in {"joining", "no_campaign"} /\ client' = "down"
        /\ UNCHANGED <<disk, registered, serverVars, shown, mirrors, torn, net, writes, repeats>>
    BY <1>3 DEF StepWithoutLogic, ReceiveWithoutModule
  <2> QED BY <1>1, <2>1, NotYetPlayingInv
<1> QED BY <1>2, <1>3

LEMMA ClientWritesInv == IInv /\ ClientWrites => IInv'
<1> SUFFICES ASSUME IInv, ClientWrites PROVE IInv'
  OBVIOUS
<1> USE VersionKept
<1>1. ScalarsOK /\ DisksOK /\ StartedOK /\ ObjectOK /\ NetOK /\ ClientInv
  BY TypeHasScalars DEF IInv
<1>2. /\ UNCHANGED <<disk, registered, server, object, isNew, session, client, torn, net, repeats>>
      /\ client = "playing" /\ shown # None
      /\ writes < MaxWrites /\ writes' = writes + 1
  BY DEF ClientWrites, serverVars
<1> DEFINE N == Names(Version("client").class)
<1>3. PICK n \in N :
        /\ shown' = [shown EXCEPT !.values[n] =
                       Written(DeclOf(Version("client").class, n), shown.values[n])]
        /\ mirrors' = IF n \in Version("server").list THEN None ELSE mirrors
  BY DEF ClientWrites
<1>4. PICK w : w = Written(DeclOf(Version("client").class, n), shown.values[n])
  OBVIOUS
<1>5. /\ shown = [position |-> shown.position, values |-> shown.values]
      /\ shown.values = [x \in N |-> shown.values[x]]
      /\ Version("client") # NoCampaign
  BY <1>1, <1>2 DEF ClientInv, ShownOK
<1> HIDE DEF N
<1>6. /\ shown' = [position |-> shown.position, values |-> [shown.values EXCEPT ![n] = w]]
      /\ shown'.position = shown.position
      /\ shown'.values = [shown.values EXCEPT ![n] = w]
  BY <1>3, <1>4, <1>5
<1>7. /\ shown' = [position |-> shown'.position, values |-> shown'.values]
      /\ shown'.values = [x \in N |-> shown'.values[x]]
      /\ \A x \in N : x # n => shown'.values[x] = shown.values[x]
  BY <1>5, <1>6
<1>8. ShownOK'
  BY <1>2, <1>5, <1>7 DEF ShownOK, N
<1>9. AppliedOK'
  BY <1>1, <1>2, <1>3 DEF ClientInv, AppliedOK
<1>10. WholeIfCompatible'
  BY <1>1, <1>2, <1>3 DEF ClientInv, WholeIfCompatible
<1>11. MirroredAfterSuccess'
  <2> SUFFICES ASSUME mirrors' # None
               PROVE  /\ shown'.position = mirrors'.position
                      /\ \A p \in Sent : p.decl \in Singular =>
                           shown'.values[p.name] = mirrors'.of[p.name]
    BY <1>2 DEF MirroredAfterSuccess
  <2>1. mirrors' = mirrors /\ n \notin Version("server").list
    BY <1>3
  <2>2. \A p \in Sent : p.name # n
    BY <2>1 DEF Sent, IsSerialized
  <2>3. /\ shown.position = mirrors.position
        /\ \A p \in Sent : p.decl \in Singular => shown.values[p.name] = mirrors.of[p.name]
    BY <1>1, <2>1 DEF ClientInv, MirroredAfterSuccess
  <2>4. \A p \in Sent : shown'.values[p.name] = shown.values[p.name]
    BY <1>5, <1>6, <2>2
  <2> QED BY <1>6, <2>1, <2>3, <2>4
<1>12. DisksOK' /\ ObjectOK' /\ NetOK'
  BY <1>1, <1>2, ServerKept
<1>13. StartedOK'
  BY <1>1, <1>2 DEF StartedOK
<1>14. writes' \in 0..MaxWrites
  BY <1>1, <1>2, CampaignAssumption DEF ScalarsOK
<1>15. ScalarsOK'
  BY <1>1, <1>2, <1>14 DEF ScalarsOK
<1> QED
  BY <1>8, <1>9, <1>10, <1>11, <1>12, <1>13, <1>15, TypeFromParts DEF IInv, ClientInv

(* The entries of an update fit the class of the client exactly if the     *)
(* campaigns fit each other.                                               *)
LEMMA CompatibleFits ==
  ASSUME DisksOK, NetOK, NEW u \in net
  PROVE  Compatible <=> \A e \in ToSet(u.entries) : Fits(e, Version("client").class)
<1>1. Version("server") # NoCampaign
  BY DEF NetOK
<1>2. ServerClass \in Seq(Properties)
  BY <1>1, VersionType DEF Versions, Sides, ServerClass
<1>3. Sent = Serialized(ServerClass, Version("server").list)
  BY DEF Sent, Serialized
<1>4. ToSet(u.entries) = {Entry(p, u.of) : p \in Sent}
  <2> DEFINE c == ServerClass
             list == Version("server").list
  <2>1. u.entries = serializeObject(c, u.of, list)
    BY DEF NetOK
  <2> HIDE DEF c, list
  <2>2. ToSet(serializeObject(c, u.of, list)) = {Entry(p, u.of) : p \in Serialized(c, list)}
    BY <1>2, SerializedProperties DEF c
  <2> QED BY <1>3, <2>1, <2>2 DEF c, list
<1>5. ASSUME NEW p \in Sent
      PROVE  Fits(Entry(p, u.of), Version("client").class) <=> p \in ToSet(Version("client").class)
  <2>1. p \in Properties
    BY <1>2 DEF Sent, ToSet
  <2>2. [name |-> p.name, decl |-> p.decl] = p
    BY <2>1 DEF Properties
  <2> QED BY <2>2 DEF Fits, Entry
<1> QED BY <1>4, <1>5 DEF Compatible

(* An update that is applied: what it leaves in the object, and that it is *)
(* applied as a whole between campaigns that fit each other only.          *)
LEMMA DeserializeInv ==
  ASSUME IInv, client = "playing", NEW u \in net, NEW values, Deserialize(u, values),
         UNCHANGED <<disk, registered, serverVars, net, writes, repeats>>
  PROVE  IInv'
<1> USE VersionKept
<1>1. ScalarsOK /\ DisksOK /\ StartedOK /\ ObjectOK /\ NetOK /\ ClientInv
  BY TypeHasScalars DEF IInv
<1>2. UNCHANGED <<server, object, isNew, session>>
  BY DEF serverVars
<1> DEFINE target == Version("client").class
           d == deserializeObject(u.entries, target, values)
<1>3. /\ shown' = [position |-> u.position, values |-> d.values]
      /\ client' = IF d.result = "throws" THEN "down" ELSE client
      /\ torn' = (torn \/ d.result = "false")
      /\ mirrors' = IF d.result = "true" THEN u ELSE None
  BY DEF Deserialize
<1>4. /\ Version("server") # NoCampaign /\ Version("client") # NoCampaign
      /\ u.entries = serializeObject(ServerClass, u.of, Version("server").list)
  BY <1>1 DEF NetOK, StartedOK
<1>5. ServerClass \in Seq(Properties) /\ Distinct(ServerClass)
  BY <1>1, <1>4, VersionType DEF Versions, Sides, ServerClass
<1>6. \E P : u.entries \in Seq(P)
  <2>1. PICK class, list : class = ServerClass /\ list = Version("server").list
    OBVIOUS
  <2>2. u.entries \in Seq({Entry(p, u.of) : p \in Serialized(class, list)})
    BY <1>4, <1>5, <2>1, SerializedProperties
  <2> QED BY <2>2
<1>7. /\ d.result \in {"true", "false", "throws"}
      /\ d.result = "true" <=> \A e \in ToSet(u.entries) : Fits(e, target)
      /\ d.result = "true" => d.values = applied(u.entries, target, values, Len(u.entries))
      /\ d.values = [n \in Names(target) |-> d.values[n]]
  <2>1. PICK P : u.entries \in Seq(P)
    BY <1>6
  <2> HIDE DEF target
  <2> QED BY <2>1, DeserializedIfFits
<1>8. Compatible <=> d.result = "true"
  BY <1>1, <1>7, CompatibleFits
<1> HIDE DEF d
<1>9. ShownOK'
  <2>1. /\ shown'.position = u.position /\ shown'.values = d.values
        /\ shown' = [position |-> shown'.position, values |-> shown'.values]
    BY <1>3
  <2> QED BY <1>4, <1>7, <2>1 DEF ShownOK
<1>10. torn => ~Compatible
  BY <1>1 DEF ClientInv, AppliedOK
<1>11. torn' => ~Compatible
  BY <1>3, <1>8, <1>10
<1>12. AppliedOK'
  <2>1. client' \in {"playing", "down"}
    BY <1>3
  <2>2. mirrors' # None => mirrors' \in net'
    BY <1>3
  <2> QED BY <1>11, <2>1, <2>2 DEF AppliedOK
<1>13. WholeIfCompatible'
  <2>1. CASE Compatible
    BY <1>3, <1>8, <1>11, <2>1 DEF WholeIfCompatible
  <2>2. CASE ~Compatible
    <3>1. d.result = "false" \/ d.result = "throws"
      BY <1>7, <1>8, <2>2
    <3>2. mirrors' = None
      BY <1>3, <3>1
    <3>3. torn' \/ client' = "down"
      BY <1>3, <3>1
    <3> QED BY <2>2, <3>2, <3>3 DEF WholeIfCompatible
  <2> QED BY <2>1, <2>2
<1>14. MirroredAfterSuccess'
  <2> SUFFICES ASSUME mirrors' # None
               PROVE  /\ shown'.position = mirrors'.position
                      /\ \A p \in Sent : p.decl \in Singular =>
                           shown'.values[p.name] = mirrors'.of[p.name]
    BY DEF MirroredAfterSuccess
  <2>1. d.result = "true" /\ mirrors' = u
    BY <1>3
  <2>2. ASSUME NEW p \in Sent, p.decl \in Singular
        PROVE  shown'.values[p.name] = u.of[p.name]
    <3> DEFINE list == Version("server").list
    <3>1. p \in Serialized(ServerClass, list)
      BY DEF Sent, Serialized
    <3>2. \A e \in ToSet(u.entries) : Fits(e, target)
      BY <1>7, <2>1
    <3> HIDE DEF target, list
    <3>3. applied(u.entries, target, values, Len(u.entries))[p.name] = u.of[p.name]
      <4>1. PICK class : class = ServerClass
        OBVIOUS
      <4>2. u.entries = serializeObject(class, u.of, list)
        BY <1>4, <4>1 DEF list
      <4>3. class \in Seq(Properties) /\ Distinct(class) /\ p \in Serialized(class, list)
        BY <1>5, <3>1, <4>1
      <4> QED BY <2>2, <3>2, <4>2, <4>3, SentValuesArrive
    <3> QED BY <1>3, <1>7, <2>1, <3>3
  <2> QED BY <1>3, <2>1, <2>2
<1>15. DisksOK' /\ ObjectOK' /\ NetOK'
  BY <1>1, <1>2, ServerKept
<1>16. StartedOK'
  BY <1>1, <1>2, <1>4 DEF StartedOK
<1>17. ScalarsOK'
  <2>1. client' \in {"playing", "down"}
    BY <1>3
  <2>2. torn' \in BOOLEAN
    BY <1>3, Zenon
  <2> QED BY <1>1, <1>2, <2>1, <2>2 DEF ScalarsOK
<1> QED
  BY <1>9, <1>12, <1>13, <1>14, <1>15, <1>16, <1>17, TypeFromParts DEF IInv, ClientInv

LEMMA ReceiveInv == ASSUME IInv, NEW u \in net, Receive(u) PROVE IInv'
<1>1. /\ client = "playing"
      /\ UNCHANGED <<disk, registered, serverVars, net, writes, repeats>>
  BY DEF Receive
<1>2. CASE \E values : Deserialize(u, values)
  BY <1>1, <1>2, DeserializeInv
<1>3. CASE shown = None /\ client' = "down" /\ UNCHANGED <<shown, mirrors, torn>>
  <2> USE VersionKept
  <2>1. ScalarsOK /\ DisksOK /\ StartedOK /\ ObjectOK /\ NetOK /\ ClientInv
    BY TypeHasScalars DEF IInv
  <2>2. UNCHANGED <<server, object, isNew, session>>
    BY <1>1 DEF serverVars
  <2>3. ShownOK' /\ AppliedOK'
    BY <1>1, <1>3, <2>1 DEF ClientInv, ShownOK, AppliedOK
  <2>4. MirroredAfterSuccess' /\ WholeIfCompatible'
    BY <1>1, <1>3, <2>1 DEF ClientInv, MirroredAfterSuccess, WholeIfCompatible
  <2>5. DisksOK' /\ ObjectOK' /\ NetOK'
    BY <1>1, <2>1, <2>2, ServerKept
  <2>6. StartedOK'
    BY <1>1, <1>3, <2>1, <2>2 DEF StartedOK
  <2>7. ScalarsOK'
    BY <1>1, <1>3, <2>1, <2>2 DEF ScalarsOK
  <2> QED BY <2>3, <2>4, <2>5, <2>6, <2>7, TypeFromParts DEF IInv, ClientInv
<1> QED BY <1>2, <1>3 DEF Receive

----------------------------------------------------------------------------
(***************************************************************************)
(* The theorems.                                                           *)
(***************************************************************************)
LEMMA StutterInv == IInv /\ UNCHANGED vars => IInv'
<1> SUFFICES ASSUME IInv, UNCHANGED vars PROVE IInv'
  OBVIOUS
<1>1. UNCHANGED <<disk, registered, server, object, clientVars, net, writes>>
      /\ UNCHANGED <<session, repeats, isNew>>
  BY DEF vars, serverVars
<1>2. session \in {"none", "active", "joined"} /\ repeats \in 0..MaxRepeats
  BY DEF IInv, TypeOK
<1> QED BY <1>1, <1>2, SilentInv

LEMMA NextInv == IInv /\ [Next]_vars => IInv'
<1> SUFFICES ASSUME IInv, [Next]_vars PROVE IInv'
  OBVIOUS
<1>1. CASE ServerStarts
  BY <1>1, ServerStartsInv
<1>2. CASE ServerCreates
  BY <1>2, ServerCreatesInv
<1>3. CASE ServerWrites
  BY <1>3, ServerWritesInv
<1>4. CASE sync \/ JoinRequest \/ JoinAcknowledge \/ RepeatedAcknowledge
  BY <1>4, ServerSendsInv
<1>5. CASE ClientLoads \/ StepWithoutLogic \/ ReceiveWithoutModule
  BY <1>5, ClientStartsInv
<1>6. CASE ClientWrites
  BY <1>6, ClientWritesInv
<1>7. CASE \E u \in net : Receive(u)
  BY <1>7, ReceiveInv
<1>8. CASE UNCHANGED vars
  BY <1>8, StutterInv
<1> QED BY <1>1, <1>2, <1>3, <1>4, <1>5, <1>6, <1>7, <1>8 DEF Next

(* The conjunction the other theorems follow from: above all, what is on   *)
(* the wire is what the serializer made of values the object had           *)
(* (gameobject.cpp:120-135).                                               *)
THEOREM AlwaysIInv == Spec => []IInv
BY InitInv, NextInv, PTL DEF Spec

(* Programs, sessions and packages keep their types, and the values on     *)
(* both sides are those of the class of that side.                         *)
THEOREM TypeCorrect == Spec => []TypeOK
<1>1. IInv => TypeOK
  BY DEF IInv
<1> QED BY <1>1, AlwaysIInv, PTL

(* An update that was applied as a whole left the client with the values   *)
(* of the server, for any two classes and lists (serializer.cpp:111-200).  *)
THEOREM AlwaysMirroredAfterSuccess == Spec => []MirroredAfterSuccess
<1>1. IInv => MirroredAfterSuccess
  BY DEF IInv, ClientInv
<1> QED BY <1>1, AlwaysIInv, PTL

(* Whether updates are applied as a whole depends on the two classes and   *)
(* the list of the server alone (serializer.cpp:184-224).                  *)
THEOREM AlwaysWholeIfCompatible == Spec => []WholeIfCompatible
<1>1. IInv => WholeIfCompatible
  BY DEF IInv, ClientInv
<1> QED BY <1>1, AlwaysIInv, PTL
==============================================================================
