--------------------------- MODULE DefinitionsProofs --------------------------
(***************************************************************************)
(* Proofs about Definitions, for any providers, systems, registries of     *)
(* earlier tooling and edits.  The comparison of a release with the last   *)
(* one goes through the publisher directory: the invariant says what each  *)
(* step of a restoration has of the last release, and what every step      *)
(* keeps of its names.                                                     *)
(***************************************************************************)
EXTENDS Definitions, TLAPS

(* The registries that a release can have.                                 *)
Registries == Legacy \cup {NoRegistry} \cup {Source(d.catalogs) : d \in Sources}

NamesOf == [Catalogs -> Names \cup {NoName}]

Types ==
  /\ site \in [version : 0 .. MaxVersion, names : NamesOf, defs : Registries]
  /\ site.defs # NoRegistry => Validate(site.defs)
  /\ dir \in [step : Usable \cup {"absent", "renamed", "defined"}, names : NamesOf,
              defs : Registries, version : 0 .. MaxVersion]
  /\ told \subseteq Catalogs \X Names /\ careless \in BOOLEAN

(* A directory has the names of the last release, and at the end of a      *)
(* restoration its definitions and its version.                            *)
DirInv ==
  /\ dir.step = "absent" => dir = NoDirectory
  /\ dir.step # "absent" =>
       \A c \in Catalogs : site.names[c] # NoName => dir.names[c] = site.names[c]
  /\ dir.step \in {"defined", "ready"} => dir.defs = site.defs
  /\ dir.step = "ready" => dir.version = site.version

(* What every step keeps.                                                  *)
IInv == Types /\ DirInv /\ BindingsKept /\ IdentitiesKept

-----------------------------------------------------------------------------
(* The definitions that are loaded and those of earlier tooling are of the *)
(* type of a registry.                                                     *)
LEMMA RegistryType == ASSUME NEW r \in Registries PROVE IsRegistry(r)
<1>1. IsRegistry(NoRegistry)
  BY DEF IsRegistry, NoRegistry, Nothing, Partial
<1>2. ASSUME NEW d \in Sources, r = Source(d.catalogs) PROVE IsRegistry(r)
  <2>1. Partial(d.catalogs, Ids, Entry)
    BY DefinitionsAssumption
  <2>2. r = [schema |-> 3, catalogs |-> d.catalogs, companies |-> Nothing,
             systems |-> Nothing, regions |-> Nothing, languages |-> Nothing]
    BY <1>2, Zenon DEF Source, NoRegistry
  <2> QED
    BY <2>1, <2>2 DEF IsRegistry, Nothing, Partial
<1> QED
  BY <1>1, <1>2, DefinitionsAssumption DEF Registries

(* No catalog of a registry is dropped or changed by a compatible one.     *)
LEMMA CatalogsKept ==
  ASSUME NEW r, NEW old, IsRegistry(r), IsRegistry(old), SameCatalogs(r, old)
  PROVE  CatalogClaims(old) \subseteq CatalogClaims(r)
<1>1. ASSUME NEW id \in DOMAIN old.catalogs
      PROVE  /\ id \in DOMAIN r.catalogs
             /\ r.catalogs[id].upstream = old.catalogs[id].upstream
             /\ r.catalogs[id].name = old.catalogs[id].name
  <2>1. /\ id \in DOMAIN r.catalogs
        /\ [r.catalogs[id] EXCEPT !.minimum = 0] = [old.catalogs[id] EXCEPT !.minimum = 0]
    BY <1>1 DEF SameCatalogs
  <2>2. r.catalogs[id] \in Entry /\ old.catalogs[id] \in Entry
    BY <1>1, <2>1 DEF IsRegistry, Partial
  <2>3. /\ [r.catalogs[id] EXCEPT !.minimum = 0].upstream = r.catalogs[id].upstream
        /\ [old.catalogs[id] EXCEPT !.minimum = 0].upstream = old.catalogs[id].upstream
        /\ [r.catalogs[id] EXCEPT !.minimum = 0].name = r.catalogs[id].name
        /\ [old.catalogs[id] EXCEPT !.minimum = 0].name = old.catalogs[id].name
    BY <2>2 DEF Entry
  <2> QED
    BY <2>1, <2>3
<1> QED
  BY <1>1 DEF CatalogClaims

(* No system of a registry is dropped, and none changes its makers or what *)
(* its providers call it.                                                  *)
LEMMA ReferencesKept ==
  ASSUME NEW r, NEW old, SameReferences(r, old)
  PROVE  /\ SystemClaims(old) \subseteq SystemClaims(r)
         /\ MappingClaims(old) \subseteq MappingClaims(r)
  BY DEF SameReferences, SystemClaims, MappingClaims

(* A valid registry gives a system of a provider to one catalog.           *)
LEMMA OwnedOnce ==
  ASSUME NEW r, Validate(r), NEW a \in CatalogClaims(r), NEW b \in CatalogClaims(r),
         a[1][1] = b[1][1], a[2] = b[2]
  PROVE  a[1] = b[1]
<1>1. PICK i \in DOMAIN r.catalogs : a = <<i, r.catalogs[i].upstream, r.catalogs[i].name>>
  BY DEF CatalogClaims
<1>2. PICK j \in DOMAIN r.catalogs : b = <<j, r.catalogs[j].upstream, r.catalogs[j].name>>
  BY DEF CatalogClaims
<1>3. /\ i = <<r.catalogs[i].provider, r.catalogs[i].system>>
      /\ j = <<r.catalogs[j].provider, r.catalogs[j].system>>
      /\ i # j => \/ r.catalogs[i].provider # r.catalogs[j].provider
                  \/ r.catalogs[i].upstream # r.catalogs[j].upstream
  BY DEF Validate, ValidCatalogs
<1>4. /\ a[1] = i /\ b[1] = j /\ i[1] = r.catalogs[i].provider
      /\ j[1] = r.catalogs[j].provider
      /\ a[2] = r.catalogs[i].upstream /\ b[2] = r.catalogs[j].upstream
  BY <1>1, <1>2, <1>3
<1> QED
  BY <1>3, <1>4

(* Definitions say nothing before there are any.                           *)
LEMMA NothingClaimed ==
  /\ CatalogClaims(NoRegistry) = {} /\ SystemClaims(NoRegistry) = {}
  /\ MappingClaims(NoRegistry) = {} /\ NoRegistry.schema = 0
  BY DEF CatalogClaims, SystemClaims, MappingClaims, NoRegistry, Nothing

-----------------------------------------------------------------------------
(* A release by a directory: what was ever granted, and without            *)
(* carelessness what was ever said, is in it.                              *)
LEMMA ReleaseNext ==
  ASSUME IInv, NEW r \in Registries, Release(r)
  PROVE  IInv'
<1> USE DefinitionsAssumption DEF IInv, Types
<1>1. /\ site' = [version |-> dir.version + 1, names |-> dir.names, defs |-> r]
      /\ dir' = [dir EXCEPT !.step = "used"] /\ dir.step \in Usable
      /\ dir.version < MaxVersion
      /\ IF r = NoRegistry THEN dir.defs = NoRegistry
         ELSE Compatible(r, dir.defs) /\ Bound(r)
  BY DEF Release
<1>2. Types'
  <2>1. site'.defs = r /\ (r # NoRegistry => Validate(r))
    BY <1>1 DEF Compatible
  <2>2. told' \subseteq Catalogs \X Names /\ careless' \in BOOLEAN
    BY DEF Release, Bindings
  <2>3. /\ site' \in [version : 0 .. MaxVersion, names : NamesOf, defs : Registries]
        /\ dir' \in [step : Usable \cup {"absent", "renamed", "defined"}, names : NamesOf,
                     defs : Registries, version : 0 .. MaxVersion]
    BY <1>1 DEF Usable
  <2> QED
    BY <2>1, <2>2, <2>3
<1>3. DirInv'
  <2>1. dir'.step = "used" /\ dir'.names = dir.names /\ site'.names = dir.names
    BY <1>1
  <2> QED
    BY <2>1 DEF DirInv
<1>4. BindingsKept'
  <2>1. told \subseteq Bindings(site')
    <3>1. ASSUME NEW b \in Bindings(site) PROVE Granted(site', b[1], b[2])
      <4>1. b[1] \in Catalogs /\ b[2] \in Names /\ site.names[b[1]] = b[2]
        BY <3>1 DEF Bindings, Granted
      <4>2. dir.step # "absent" /\ b[2] # NoName
        BY <1>1, <4>1 DEF Usable
      <4>3. dir.names[b[1]] = b[2]
        BY <4>1, <4>2 DEF DirInv
      <4>4. site'.names[b[1]] = b[2] /\ site'.defs = r
        BY <1>1, <4>3
      <4>5. r # NoRegistry /\ b[1] # Synthetic =>
              b[1] \in DOMAIN r.catalogs /\ r.catalogs[b[1]].name = b[2]
        BY <1>1, <4>1, <4>2, <4>3 DEF Bound
      <4> QED
        BY <4>4, <4>5 DEF Granted
    <3> QED
      BY <3>1 DEF BindingsKept, Bindings
  <2> QED
    BY <2>1 DEF Release, BindingsKept
<1>5. IdentitiesKept'
  <2> SUFFICES ASSUME ~careless' PROVE IdentitiesKept'
    BY DEF IdentitiesKept
  <2>1. dir.step = "ready" /\ ~careless /\ claims' = Claimed(r) /\ site'.defs = r
    <3>1. careless' = (careless \/ dir.step # "ready")
          /\ claims' = IF careless' THEN NoClaims ELSE Claimed(r)
      BY DEF Release
    <3>2. ~careless /\ dir.step = "ready"
      BY <3>1, Zenon
    <3> QED
      BY <1>1, <3>1, <3>2
  <2>2. /\ dir.defs = site.defs /\ claims.catalogs \subseteq CatalogClaims(site.defs)
        /\ \/ site.defs.schema = 3
           \/ /\ claims.systems \subseteq SystemClaims(site.defs)
              /\ claims.mappings \subseteq MappingClaims(site.defs)
    BY <2>1 DEF DirInv, IdentitiesKept
  <2>3. /\ claims'.catalogs = claims.catalogs \cup CatalogClaims(r)
        /\ claims'.systems = claims.systems \cup SystemClaims(r)
        /\ claims'.mappings = claims.mappings \cup MappingClaims(r)
    BY <2>1 DEF Claimed
  <2>4. CASE site.defs = NoRegistry
    BY <2>1, <2>2, <2>3, <2>4, NothingClaimed DEF IdentitiesKept
  <2>5. CASE site.defs # NoRegistry
    <3>1. /\ r # NoRegistry /\ Compatible(r, site.defs)
      BY <1>1, <2>2, <2>5
    <3>2. /\ site.defs.schema <= r.schema /\ r.schema \in 1 .. 3
          /\ site.defs.schema \in 1 .. 3
          /\ r.schema # 3 => SameReferences(r, site.defs)
          /\ SameCatalogs(r, site.defs)
      BY <2>5, <3>1 DEF Compatible, Validate
    <3>3. CatalogClaims(site.defs) \subseteq CatalogClaims(r)
      BY <3>2, CatalogsKept, RegistryType
    <3>4. CASE r.schema = 3
      BY <2>1, <2>2, <2>3, <3>3, <3>4 DEF IdentitiesKept
    <3>5. CASE r.schema # 3
      <4>1. /\ site.defs.schema # 3
            /\ SystemClaims(site.defs) \subseteq SystemClaims(r)
            /\ MappingClaims(site.defs) \subseteq MappingClaims(r)
        BY <3>2, <3>5, ReferencesKept
      <4> QED
        BY <2>1, <2>2, <2>3, <3>3, <4>1 DEF IdentitiesKept
    <3> QED
      BY <3>4, <3>5
  <2> QED
    BY <2>4, <2>5
<1> QED
  BY <1>2, <1>3, <1>4, <1>5

(* A publication gives a name to a catalog that has none, or the name that *)
(* it has.                                                                 *)
LEMMA PublishNext ==
  ASSUME IInv, NEW c \in Catalogs, NEW n \in Names, dir.step \in Usable,
         dir.names[c] \in {NoName, n}, dir' = [dir EXCEPT !.names[c] = n],
         UNCHANGED <<site, claims, told, careless>>
  PROVE  IInv'
<1> USE DefinitionsAssumption DEF IInv, Types
<1>1. dir.names \in NamesOf /\ [dir.names EXCEPT ![c] = n] \in NamesOf
  BY DEF NamesOf
<1>2. dir' = [dir EXCEPT !.names = [dir.names EXCEPT ![c] = n]]
  BY Zenon
<1>3. /\ dir'.names = [dir.names EXCEPT ![c] = n] /\ dir'.step = dir.step
      /\ dir'.defs = dir.defs /\ dir'.version = dir.version
  BY <1>2
<1>4. Types'
  BY <1>1, <1>2
<1>5. DirInv'
  <2>1. ASSUME NEW k \in Catalogs, site.names[k] # NoName
        PROVE  dir'.names[k] = site.names[k]
    <3>1. dir.names[k] = site.names[k]
      BY <2>1 DEF DirInv, Usable
    <3> QED
      BY <1>1, <1>3, <2>1, <3>1 DEF NamesOf
  <2> QED
    BY <1>3, <2>1 DEF DirInv, Usable
<1>6. BindingsKept' /\ IdentitiesKept'
  BY DEF BindingsKept, IdentitiesKept
<1> QED
  BY <1>4, <1>5, <1>6

(* Every step keeps it.                                                    *)
LEMMA InvNext == ASSUME IInv, [Next]_vars PROVE IInv'
<1> USE DefinitionsAssumption DEF IInv, Types
<1>0. /\ NoDirectory \in [step : {"absent"}, names : NamesOf,
                          defs : Registries, version : {0}]
      /\ NoDirectory.step = "absent"
  BY DEF NoDirectory, NoIndex, NamesOf, Registries
<1>1. ASSUME UNCHANGED <<site, claims, told, careless>>,
             dir' \in [step : Usable \cup {"absent", "renamed", "defined"}, names : NamesOf,
                       defs : Registries, version : 0 .. MaxVersion],
             DirInv'
      PROVE  IInv'
  BY <1>1 DEF BindingsKept, IdentitiesKept
<1>2. CASE Restore
  <2>1. dir' = [step |-> "renamed", names |-> site.names, defs |-> NoRegistry, version |-> 0]
    BY <1>2 DEF Restore, NoDirectory
  <2> QED
    BY <1>1, <1>2, <2>1 DEF Restore, DirInv, Registries
<1>3. CASE SaveDefinitions
  BY <1>1, <1>3 DEF SaveDefinitions, DirInv
<1>4. CASE SaveVersion
  BY <1>1, <1>4 DEF SaveVersion, DirInv, Usable
<1>5. CASE SaveFails \/ Discard
  BY <1>0, <1>1, <1>5 DEF SaveFails, Discard, DirInv
<1>6. CASE Die
  BY <1>1, <1>6 DEF Die, DirInv, Usable
<1>7. CASE Bootstrap
  <2>1. dir' = [step |-> "ready", names |-> NoIndex.names, defs |-> NoRegistry, version |-> 0]
    BY <1>7 DEF Bootstrap, DirInv, NoDirectory
  <2>2. /\ site' = NoIndex /\ NoIndex.defs = NoRegistry /\ NoIndex.version = 0
        /\ NoIndex.names \in NamesOf
    BY <1>7 DEF Bootstrap, NoIndex, NamesOf
  <2>3. /\ dir'.step = "ready" /\ dir'.names = NoIndex.names
        /\ dir'.defs = NoRegistry /\ dir'.version = 0
    BY <2>1
  <2>4. DirInv'
    BY <2>2, <2>3 DEF DirInv
  <2> QED
    BY <1>1, <1>7, <2>1, <2>2, <2>4 DEF Bootstrap, Usable, Registries
<1>8. ASSUME NEW n \in Names, PublishSynthetic(n) PROVE IInv'
  BY <1>8, PublishNext DEF PublishSynthetic, Catalogs
<1>9. ASSUME NEW d \in Sources, NEW c \in DOMAIN d.catalogs, PublishSelected(d, c)
      PROVE  IInv'
  <2>1. c \in Catalogs /\ d.catalogs[c].name \in Names
    BY DEF Partial, Entry, Catalogs
  <2> QED
    BY <1>9, <2>1, PublishNext DEF PublishSelected
<1>10. ASSUME NEW d \in Sources, ReleaseSource(d) PROVE IInv'
  BY <1>10, ReleaseNext DEF ReleaseSource, Registries
<1>11. ASSUME NEW r \in Legacy \cup {NoRegistry}, Release(r) PROVE IInv'
  BY <1>11, ReleaseNext DEF Registries
<1>12. CASE UNCHANGED vars
  BY <1>12 DEF vars, DirInv, BindingsKept, Bindings, Granted, IdentitiesKept
<1> QED
  BY <1>2, <1>3, <1>4, <1>5, <1>6, <1>7, <1>8, <1>9, <1>10, <1>11, <1>12 DEF Next

(* Nothing is released at first.                                           *)
LEMMA InvInit == ASSUME Init PROVE IInv
<1> USE DefinitionsAssumption DEF Init
<1>1. Types
  <2>1. NoIndex.names \in NamesOf /\ NoRegistry \in Registries /\ 0 \in 0 .. MaxVersion
    BY DEF NoIndex, NamesOf, Registries
  <2>2. site \in [version : 0 .. MaxVersion, names : NamesOf, defs : Registries]
        /\ site.defs = NoRegistry
    BY <2>1 DEF NoIndex
  <2>3. dir \in [step : Usable \cup {"absent", "renamed", "defined"}, names : NamesOf,
                 defs : Registries, version : 0 .. MaxVersion]
    BY <2>1 DEF NoDirectory
  <2> QED
    BY <2>2, <2>3 DEF Types
<1>2. DirInv /\ BindingsKept
  BY DEF DirInv, BindingsKept, NoDirectory
<1>3. IdentitiesKept
  BY DEF IdentitiesKept, NoClaims
<1> QED
  BY <1>1, <1>2, <1>3 DEF IInv

(* The inductive invariant holds in every reachable state.                 *)
THEOREM Invariance == Spec => []IInv
<1>1. Init => IInv
  BY InvInit
<1>2. IInv /\ [Next]_vars => IInv'
  BY InvNext
<1> QED
  BY <1>1, <1>2, PTL DEF Spec

(* Whatever was released is a registry that can be read and validated      *)
(* again, whoever edited it.                                               *)
THEOREM TypeCorrect == Spec => []TypeOK
<1>1. IInv => TypeOK
  BY RegistryType DEF IInv, Types, TypeOK, NamesOf
<1> QED
  BY <1>1, Invariance, PTL

(* A subscription never breaks, over any history of releases, restorations *)
(* cut short, and definitions.                                             *)
THEOREM SubscriptionsKept == Spec => []BindingsKept
<1>1. IInv => BindingsKept
  BY DEF IInv
<1> QED
  BY <1>1, Invariance, PTL

(* Nothing that was released about a catalog, a system or a provider is    *)
(* dropped or reassigned by releases from restored directories.            *)
THEOREM NothingReassigned == Spec => []IdentitiesKept
<1>1. IInv => IdentitiesKept
  BY DEF IInv
<1> QED
  BY <1>1, Invariance, PTL

(* A system of a provider never moves from one catalog to another.         *)
THEOREM OwnersKept == Spec => []UpstreamsOwned
<1>1. IInv => UpstreamsOwned
  <2> SUFFICES ASSUME IInv, ~careless, NEW a \in claims.catalogs, NEW b \in claims.catalogs,
                      a[1][1] = b[1][1], a[2] = b[2]
               PROVE  a[1] = b[1]
    BY DEF UpstreamsOwned
  <2>1. a \in CatalogClaims(site.defs) /\ b \in CatalogClaims(site.defs)
    BY DEF IInv, IdentitiesKept
  <2>2. Validate(site.defs)
    BY <2>1, NothingClaimed DEF IInv, Types
  <2> QED
    BY <2>1, <2>2, OwnedOnce
<1> QED
  BY <1>1, Invariance, PTL

(* Releases from restored directories have rising versions.                *)
THEOREM VersionsRise == Spec => VersionsForward
<1> DEFINE A == site' # site /\ ~careless' => site'.version > site.version
<1>1. IInv /\ [Next]_vars => A
  <2> SUFFICES ASSUME IInv, [Next]_vars PROVE A
    OBVIOUS
  <2>1. ASSUME NEW r, Release(r) PROVE A
    <3>1. careless' = (careless \/ dir.step # "ready") /\ site'.version = dir.version + 1
      BY <2>1 DEF Release
    <3>2. dir.step # "ready" => careless'
      BY <3>1, Zenon
    <3> QED
      BY <3>1, <3>2 DEF IInv, Types, DirInv
  <2>2. CASE \/ Restore \/ SaveDefinitions \/ SaveVersion \/ SaveFails \/ Die
             \/ Bootstrap \/ Discard \/ UNCHANGED vars
             \/ \E n \in Names : PublishSynthetic(n)
             \/ \E d \in Sources : \E c \in DOMAIN d.catalogs : PublishSelected(d, c)
    BY <2>2 DEF Restore, SaveDefinitions, SaveVersion, SaveFails, Die, Bootstrap, Discard,
                vars, PublishSynthetic, PublishSelected
  <2> QED
    BY <2>1, <2>2 DEF Next, ReleaseSource
<1>2. IInv /\ [Next]_vars => [A]_vars
  BY <1>1
<1> HIDE DEF A
<1>3. Spec => [][A]_vars
  BY <1>2, Invariance, PTL DEF Spec
<1> QED
  BY <1>3 DEF VersionsForward, A
===============================================================================
