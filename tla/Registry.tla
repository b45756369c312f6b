------------------------------- MODULE Registry -------------------------------
(***************************************************************************)
(* The registry of definitions (internal/definitions): which catalogs      *)
(* there are and what each one stands for, in the schema that is written   *)
(* today (3) and in the two that earlier publications carry, which also    *)
(* have companies, systems, regions and languages.  Identifiers and labels *)
(* are taken to be well formed; names and aliases are lower-case tokens.   *)
(***************************************************************************)
EXTENDS Naturals, FiniteSets

CONSTANTS
  Providers,  \* redump, no-intro; each has one representation
  Systems,    \* ROMD system keys
  Upstreams,  \* the systems' identifiers at the providers
  Names,      \* expected DAT header names
  Tokens,     \* names and aliases of the reference data
  Companies, Regions, Languages

(* A catalog ID is provider/system/representation.                         *)
Ids == Providers \X Systems

(* The limits of Validation as one number.                                 *)
Entry == [provider : Providers, system : Systems, upstream : Upstreams,
          name : Names, minimum : {0, 1}]

(* A map from some of the keys.                                            *)
Partial(f, K, V) == DOMAIN f \subseteq K /\ \A k \in DOMAIN f : f[k] \in V

IsSystem(s) ==
  /\ s.names \subseteq Tokens /\ s.makers \subseteq Companies
  /\ Partial(s.maps, Providers, Upstreams)

IsRegistry(r) ==
  /\ r.schema \in 0 .. 3 /\ Partial(r.catalogs, Ids, Entry)
  /\ Partial(r.companies, Companies, SUBSET Tokens)
  /\ DOMAIN r.systems \subseteq Systems
  /\ \A s \in DOMAIN r.systems : IsSystem(r.systems[s])
  /\ Partial(r.regions, Regions, SUBSET Tokens)
  /\ Partial(r.languages, Languages, SUBSET Tokens)

Nothing == [x \in {} |-> {}]
NoRegistry == [schema |-> 0, catalogs |-> Nothing, companies |-> Nothing,
               systems |-> Nothing, regions |-> Nothing, languages |-> Nothing]

-----------------------------------------------------------------------------
(* No token stands for two entries.                                        *)
Unambiguous(names) ==
  \A a, b \in DOMAIN names : a # b => names[a] \cap names[b] = {}

(* Mutant of ValidCatalogs: the providers' systems are not compared.       *)
ValidCatalogsShared(cats, known) ==
  \A id \in DOMAIN cats :
    /\ cats[id].minimum >= 1
    /\ id = <<cats[id].provider, cats[id].system>>
    /\ cats[id].system \in known

(* validateCatalogs: an ID says what its catalog is, and no two catalogs   *)
(* have the same system of a provider.                                     *)
ValidCatalogs(cats, known) ==
  /\ \A id \in DOMAIN cats :
       /\ cats[id].minimum >= 1
       /\ id = <<cats[id].provider, cats[id].system>>
       /\ cats[id].system \in known
  /\ \A a, b \in DOMAIN cats :
       a # b => \/ cats[a].provider # cats[b].provider
                \/ cats[a].upstream # cats[b].upstream

(* validateSeedData of schema 2.                                           *)
ValidSeeds(r) ==
  /\ DOMAIN r.regions # {} /\ DOMAIN r.languages # {}
  /\ Unambiguous([s \in DOMAIN r.systems |-> r.systems[s].names \cup {s}])
  /\ Unambiguous([s \in DOMAIN r.systems |->
       {<<p, r.systems[s].maps[p]>> : p \in DOMAIN r.systems[s].maps}])
  /\ Unambiguous(r.regions)
  /\ Unambiguous([x \in DOMAIN r.languages |-> r.languages[x] \cup {x}])

(* Schema 1 has neither taxonomy nor extensions of systems.                *)
NoSeeds(r) ==
  /\ DOMAIN r.regions = {} /\ DOMAIN r.languages = {}
  /\ \A s \in DOMAIN r.systems :
       Cardinality(r.systems[s].names) = 1 /\ DOMAIN r.systems[s].maps = {}

Validate(r) ==
  /\ r.schema \in 1 .. 3 /\ DOMAIN r.catalogs # {}
  /\ IF r.schema = 3
     THEN /\ DOMAIN r.companies \cup DOMAIN r.systems
               \cup DOMAIN r.regions \cup DOMAIN r.languages = {}
          /\ ValidCatalogs(r.catalogs, Systems)
     ELSE /\ DOMAIN r.companies # {} /\ DOMAIN r.systems # {}
          /\ IF r.schema = 1 THEN NoSeeds(r) ELSE ValidSeeds(r)
          /\ Unambiguous(r.companies)
          /\ \A s \in DOMAIN r.systems : r.systems[s].makers \subseteq DOMAIN r.companies
          /\ ValidCatalogs(r.catalogs, DOMAIN r.systems)

(* LoadSource: the catalogs of a directory as schema 3, all of them of the *)
(* systems in the export next to them.                                     *)
Source(cats) ==
  [NoRegistry EXCEPT !.schema = 3, !.catalogs = cats]
LoadableSource(cats, keys) ==
  Validate(Source(cats)) /\ \A id \in DOMAIN cats : cats[id].system \in keys

-----------------------------------------------------------------------------
(* Mutant of SameCatalogs: a catalog may be dropped.                       *)
SameCatalogsLeft(r, old) ==
  \A id \in DOMAIN old.catalogs \cap DOMAIN r.catalogs :
    [r.catalogs[id] EXCEPT !.minimum = 0] = [old.catalogs[id] EXCEPT !.minimum = 0]

(* No catalog is dropped or stands for something else; its limits may be   *)
(* edited.                                                                 *)
SameCatalogs(r, old) ==
  \A id \in DOMAIN old.catalogs :
    /\ id \in DOMAIN r.catalogs
    /\ [r.catalogs[id] EXCEPT !.minimum = 0] = [old.catalogs[id] EXCEPT !.minimum = 0]

(* No reference entry is dropped; a system keeps its makers and what its   *)
(* providers call it.                                                      *)
SameReferences(r, old) ==
  /\ DOMAIN old.regions \subseteq DOMAIN r.regions
  /\ DOMAIN old.languages \subseteq DOMAIN r.languages
  /\ DOMAIN old.companies \subseteq DOMAIN r.companies
  /\ DOMAIN old.systems \subseteq DOMAIN r.systems
  /\ \A s \in DOMAIN old.systems :
       /\ r.systems[s].makers = old.systems[s].makers
       /\ \A p \in DOMAIN old.systems[s].maps :
            /\ p \in DOMAIN r.systems[s].maps
            /\ r.systems[s].maps[p] = old.systems[s].maps[p]

(* Mutant of Compatible: the new registry is not validated.                *)
CompatibleUnread(r, old) ==
  old # NoRegistry =>
    /\ old.schema <= r.schema
    /\ r.schema # 3 => SameReferences(r, old)
    /\ SameCatalogs(r, old)

Compatible(r, old) ==
  /\ Validate(r)
  /\ old # NoRegistry =>
       /\ old.schema <= r.schema
       /\ r.schema # 3 => SameReferences(r, old)
       /\ SameCatalogs(r, old)
=============================================================================
