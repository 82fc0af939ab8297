------------------------------ MODULE Campaign ------------------------------
(***************************************************************************)
(* A server and a client start a campaign (server.cpp, main.cpp,           *)
(* campaign/, script/scriptengine.cpp), each from its own disk, and the    *)
(* properties of an object of the server reach the client                  *)
(* (oms/gameobject.cpp, script/serializer.cpp).                            *)
(*                                                                         *)
(* There is one type of objects and one object: which objects a client     *)
(* has, and under which ids, is the business of WorldSync, the handshake   *)
(* that of NetworkServer.  No package is taken out of net, so it may be    *)
(* late or arrive again.                                                   *)
(*                                                                         *)
(* A version of a campaign is what its scripts do on one side:             *)
(*   main   of the file main.as: "missing", "broken" or "good"             *)
(*   init   of initServer or initClient: "absent", "raises" or "ok"        *)
(*   class  the class it registers for the type; <<>> if there is none     *)
(*   list   names of the properties it asks to be synchronized             *)
(***************************************************************************)
EXTENDS Serializer

CONSTANTS
  ServerDisks, ClientDisks,  \* the versions on a disk, in the order of the search
  NoCampaign,      \* where a disk has none
  None,            \* no object, no update
  Positions,       \* values of a position matrix nobody has set
  MaxWrites,       \* bound: properties written
  MaxRepeats       \* bound: acknowledgements executed again

Versions ==
  [main : {"missing", "broken", "good"}, init : {"absent", "raises", "ok"},
   class : Seq(Properties), list : SUBSET STRING]

(* An object: its position, and its values by the names of their           *)
(* properties.                                                             *)
Objects(names) == [position : Positions, values : [names -> Nat \cup Seq(Nat)]]

ASSUME CampaignAssumption ==
  /\ MaxWrites \in Nat /\ MaxRepeats \in Nat
  /\ \A d \in ServerDisks \cup ClientDisks :
       /\ d \in Seq(Versions \cup {NoCampaign}) /\ Len(d) = 4
       /\ \A v \in ToSet(d) \ {NoCampaign} :
            /\ \A p, q \in ToSet(v.class) : p.name = q.name => p = q
            /\ None \notin Objects(Names(v.class))

VARIABLES
  disk,            \* of "server" and "client"
  server,          \* "starting", "refused": has ended itself, "serving" or "down"
  client,          \* "joining", "no_campaign", "playing" or "down"
  registered,      \* is the type in m_registeredTypes, on either side?
  object,          \* of the server
  isNew,           \* is it in m_newObjects?
  session,         \* of the client: "none", "active" or "joined"
  net,             \* states of the world that were sent
  shown,           \* the object at the client
  mirrors,         \* update that was applied as a whole and not written over
  torn,            \* has the client given up an update half-way?
  writes, repeats

serverVars == <<server, object, isNew, session>>
clientVars == <<client, shown, mirrors, torn>>
vars == <<disk, registered, serverVars, clientVars, net, writes, repeats>>

Sides == {"server", "client"}

Init ==
  /\ disk \in {[side \in Sides |-> IF side = "server" THEN s ELSE c] :
                  s \in ServerDisks, c \in ClientDisks}
  /\ server = "starting" /\ client = "joining"
  /\ registered = [side \in Sides |-> FALSE]
  /\ object = None /\ isNew = FALSE /\ session = "none"
  /\ net = {}
  /\ shown = None /\ mirrors = None /\ torn = FALSE
  /\ writes = 0 /\ repeats = 0

----------------------------------------------------------------------------
(* Loading *)

(* loadCampaignPath: ./campaigns, then CAMPAIGN_PATH; in each the          *)
(* directory of that name, then the archive.                               *)
loadCampaignPath(d) ==
  IF \A i \in DOMAIN d : d[i] = NoCampaign THEN NoCampaign
  ELSE d[CHOOSE i \in DOMAIN d : d[i] # NoCampaign /\ \A j \in 1..(i - 1) : d[j] = NoCampaign]

Version(side) == loadCampaignPath(disk[side])

(* Calls registerObject for a type whose class is there.  A script that    *)
(* raises an exception may have called it before.                          *)
registerObject(v) ==
  IF v = NoCampaign \/ v.main # "good" \/ v.init = "absent" \/ v.class = <<>>
  THEN {FALSE}
  ELSE IF v.init = "raises" THEN BOOLEAN ELSE {TRUE}

(* The server ends if it has no campaign or cannot initialize it; whether  *)
(* the import succeeded is not asked, and without main.as there is no      *)
(* module to look for initServer in.                                       *)
ServerStarts ==
  /\ server = "starting"
  /\ LET v == Version("server")
     IN  /\ server' = IF v = NoCampaign THEN "refused"
                      ELSE CASE v.main = "missing"               -> "down"
                             [] v.main = "good" /\ v.init = "ok" -> "serving"
                             [] OTHER                            -> "refused"
         /\ \E r \in registerObject(v) : registered' = [registered EXCEPT !["server"] = r]
  /\ UNCHANGED <<disk, object, isNew, session, clientVars, net, writes, repeats>>

(* The callback of main for a join response.  What initClient returns is   *)
(* not asked.                                                              *)
ClientLoads ==
  /\ client = "joining" /\ session # "none"
  /\ LET v == Version("client")
     IN  /\ client' = IF v = NoCampaign THEN "no_campaign"
                      ELSE IF v.main = "missing" THEN "down" ELSE "playing"
         /\ \E r \in registerObject(v) : registered' = [registered EXCEPT !["client"] = r]
  /\ UNCHANGED <<disk, serverVars, shown, mirrors, torn, net, writes, repeats>>

(* The main loop calls logic->step although there is no logic. *)
StepWithoutLogic ==
  /\ client = "no_campaign" /\ client' = "down"
  /\ UNCHANGED <<disk, registered, serverVars, shown, mirrors, torn, net, writes, repeats>>

----------------------------------------------------------------------------
(* The server *)

Written(decl, value) == IF decl \in Arrays THEN Append(value, writes + 1) ELSE writes + 1

(* createObject asserts that the type was registered. *)
ServerCreates ==
  /\ server = "serving" /\ object = None
  /\ IF registered["server"]
     THEN /\ \E p \in Positions :
               object' = [position |-> p, values |-> Initial(Version("server").class)]
          /\ isNew' = TRUE /\ UNCHANGED server
     ELSE server' = "down" /\ UNCHANGED <<object, isNew>>
  /\ UNCHANGED <<disk, registered, session, clientVars, net, writes, repeats>>

(* A script of the server writes a property. *)
ServerWrites ==
  /\ server = "serving" /\ object # None
  /\ writes < MaxWrites /\ writes' = writes + 1
  /\ \E n \in Names(Version("server").class) :
       object' = [object EXCEPT !.values[n] = Written(DeclOf(Version("server").class, n), @)]
  /\ UNCHANGED <<disk, registered, server, isNew, session, clientVars, net, repeats>>

(* serialize; of is not on the wire. *)
Update ==
  [position |-> object.position, of |-> object.values,
   entries  |-> serializeObject(Version("server").class, object.values, Version("server").list)]

SendUpdate ==
  IF CanSerialize(Version("server").class, Version("server").list)
  THEN net' = net \cup {Update} /\ UNCHANGED server
  ELSE server' = "down" /\ UNCHANGED net

(* The timer: the object is sent if it is new and there is a session; it   *)
(* is not new any more in any case.                                        *)
sync ==
  /\ server = "serving"
  /\ IF isNew /\ session # "none" THEN SendUpdate ELSE UNCHANGED <<server, net>>
  /\ isNew' = FALSE
  /\ UNCHANGED <<disk, registered, object, session, clientVars, writes, repeats>>

JoinRequest ==
  /\ server = "serving" /\ client = "joining" /\ session = "none"
  /\ session' = "active"
  /\ UNCHANGED <<disk, registered, server, object, isNew, clientVars, net, writes, repeats>>

(* Mutant: the full state holds the new objects only. *)
FullStateOfNew == IF isNew THEN SendUpdate ELSE UNCHANGED <<server, net>>

FullState == IF object # None THEN SendUpdate ELSE UNCHANGED <<server, net>>

JoinAcknowledge ==
  /\ server = "serving" /\ session = "active" /\ client \in {"playing", "no_campaign"}
  /\ IF client = "playing" THEN FullState /\ session' = "joined"
                           ELSE session' = "none" /\ UNCHANGED <<server, net>>
  /\ UNCHANGED <<disk, registered, object, isNew, clientVars, writes, repeats>>

(* The call arrives twice and is executed twice. *)
RepeatedAcknowledge ==
  /\ server = "serving" /\ session = "joined"
  /\ repeats < MaxRepeats /\ repeats' = repeats + 1
  /\ FullState
  /\ UNCHANGED <<disk, registered, object, isNew, session, clientVars, writes>>

----------------------------------------------------------------------------
(* The client *)

(* deserialize of the object: the position first, then the properties;     *)
(* that they failed is not asked.                                          *)
Deserialize(u, values) ==
  LET d == deserializeObject(u.entries, Version("client").class, values)
  IN  /\ shown' = [position |-> u.position, values |-> d.values]
      /\ client' = IF d.result = "throws" THEN "down" ELSE client
      /\ torn' = (torn \/ d.result = "false")
      /\ mirrors' = IF d.result = "true" THEN u ELSE None

(* The object manager creates the object if it is not there: of an empty   *)
(* class, and with a failing assertion, if its type is unknown.            *)
Receive(u) ==
  /\ client = "playing"
  /\ \/ shown = None /\ registered["client"] /\ Deserialize(u, Initial(Version("client").class))
     \/ shown # None /\ Deserialize(u, shown.values)
     \/ /\ shown = None /\ ~registered["client"]
        /\ client' = "down" /\ UNCHANGED <<shown, mirrors, torn>>
  /\ UNCHANGED <<disk, registered, serverVars, net, writes, repeats>>

(* There is an object manager but no module: a null pointer. *)
ReceiveWithoutModule ==
  /\ client = "no_campaign" /\ net # {}
  /\ client' = "down"
  /\ UNCHANGED <<disk, registered, serverVars, shown, mirrors, torn, net, writes, repeats>>

(* A script of the client writes a property. *)
ClientWrites ==
  /\ client = "playing" /\ shown # None
  /\ writes < MaxWrites /\ writes' = writes + 1
  /\ \E n \in Names(Version("client").class) :
       /\ shown' = [shown EXCEPT !.values[n] = Written(DeclOf(Version("client").class, n), @)]
       /\ mirrors' = IF n \in Version("server").list THEN None ELSE mirrors
  /\ UNCHANGED <<disk, registered, serverVars, client, torn, net, repeats>>

----------------------------------------------------------------------------
Next ==
  \/ ServerStarts \/ ServerCreates \/ ServerWrites
  \/ sync \/ JoinRequest \/ JoinAcknowledge \/ RepeatedAcknowledge
  \/ ClientLoads \/ StepWithoutLogic \/ ClientWrites
  \/ (\E u \in net : Receive(u)) \/ ReceiveWithoutModule

Spec == Init /\ [][Next]_vars

(* The event loops run, and a package that was sent arrives. *)
Fairness ==
  /\ WF_vars(sync) /\ WF_vars(JoinAcknowledge)
  /\ WF_vars(\E u \in net : Receive(u))

FairSpec == Spec /\ Fairness

----------------------------------------------------------------------------
TypeOK ==
  /\ server \in {"starting", "refused", "serving", "down"}
  /\ client \in {"joining", "no_campaign", "playing", "down"}
  /\ registered \in [Sides -> BOOLEAN]
  /\ isNew \in BOOLEAN /\ torn \in BOOLEAN
  /\ session \in {"none", "active", "joined"}
  /\ object # None => DOMAIN object.values = Names(Version("server").class)
  /\ shown # None => DOMAIN shown.values = Names(Version("client").class)
  /\ isNew => object # None
  /\ \A u \in net \cup ({mirrors} \ {None}) : u.position \in Positions
  /\ writes \in 0..MaxWrites /\ repeats \in 0..MaxRepeats

ServerClass == Version("server").class

(* What the server asks to be sent, and can be. *)
Sent == {p \in ToSet(ServerClass) : IsSerialized(p, Version("server").list)}

(* An update that was applied as a whole, and whose properties no script   *)
(* of the client has written since, left the client with the values the    *)
(* server had when it was made, in whatever order the two classes have     *)
(* their properties (serializer.cpp:111-200, gameobject.cpp:120-146).      *)
MirroredAfterSuccess ==
  mirrors # None =>
    /\ shown.position = mirrors.position
    /\ \A p \in Sent : p.decl \in Singular => shown.values[p.name] = mirrors.of[p.name]

Compatible == Sent \subseteq ToSet(Version("client").class)

(* Updates are applied as a whole exactly if every property the server     *)
(* sends is one of the client's class with the same declaration: then none *)
(* is given up half-way and none ends the client, and else every one is or *)
(* does (serializer.cpp:184-224).  The list of the client's own campaign   *)
(* plays no part in it.                                                    *)
WholeIfCompatible ==
  shown # None =>
    IF Compatible THEN ~torn /\ client = "playing"
                  ELSE mirrors = None /\ (torn \/ client = "down")

(* Between campaigns that fit each other an object that is there once the  *)
(* client plays gets to the client: as a new object, or with the full      *)
(* state, also if the sync that was to send it found no session            *)
(* (networkserver.cpp:162-180, 240-244).                                   *)
Fitting ==
  /\ server = "serving" /\ client = "playing" /\ registered["client"] /\ Compatible
  /\ CanSerialize(ServerClass, Version("server").list)

ObjectShown == object # None /\ Fitting ~> shown # None
==============================================================================
