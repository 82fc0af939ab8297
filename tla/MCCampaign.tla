----------------------------- MODULE MCCampaign -----------------------------
(***************************************************************************)
(* Campaigns for TLC: good, faulty and missing ones, on several places.    *)
(***************************************************************************)
EXTENDS Campaign

Property(name, decl) == [name |-> name, decl |-> decl]
Hp == Property("hp", "small")
Foo == Property("foo", "string")
Title == Property("title", "string")
Tags == Property("tags", "string[]")
Secret == Property("secret", "small")

Class == <<Foo, Hp, Tags, Secret>>
Reordered == <<Title, Secret, Tags, Foo, Hp>>
OtherDecl == <<Hp, Property("foo", "small"), Tags, Secret>>
WithoutFoo == <<Secret, Tags, Hp>>
WithWide == <<Hp, Property("clock", "wide"), Property("owner", "object"), Property("parts", "small[]")>>

Scripts(main, init, class, list) == [main |-> main, init |-> init, class |-> class, list |-> list]
Good(class, list) == Scripts("good", "ok", class, list)

Listed == {"hp", "foo", "tags"}
First(v) == <<v, NoCampaign, NoCampaign, NoCampaign>>

(* The ways a campaign can fail, and one that is found last. *)
Faults == {Scripts("missing", "ok", Class, Listed), Scripts("broken", "ok", Class, Listed),
           Scripts("good", "absent", Class, Listed), Scripts("good", "raises", Class, Listed),
           Good(<<>>, Listed)}

NoDisk == First(NoCampaign)
FaultyDisks == {First(v) : v \in Faults} \cup {NoDisk}

MCServerDisks ==
  {First(Good(Class, Listed)), <<NoCampaign, Good(WithoutFoo, Listed), NoCampaign, Good(Class, {})>>,
   First(Good(WithWide, {"clock"})), First(Good(WithWide, {"owner", "parts"}))} \cup FaultyDisks

MCClientDisks ==
  {First(Good(Class, {})), <<NoCampaign, NoCampaign, Good(Reordered, Listed), Good(Class, Listed)>>,
   First(Good(OtherDecl, Listed)), First(Good(WithoutFoo, Listed)),
   First(Good(WithWide, {}))} \cup FaultyDisks
==============================================================================
