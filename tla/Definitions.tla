------------------------------ MODULE Definitions ------------------------------
(***************************************************************************)
(* What the published catalogs stand for, from one release to the next:    *)
(* the definitions that maintainers edit are checked against those of the  *)
(* last release, which come back through the restoration of the publisher  *)
(* directory (distribution/git.go, definitions.go; cmd/publisher/main.go). *)
(* That restoration may be cut short between its rename and its two files. *)
(*                                                                         *)
(* Staging, verification and deployment of a release are one step here;    *)
(* Pipeline has them apart.                                                *)
(***************************************************************************)
EXTENDS Registry

CONSTANTS
  Synthetic,   \* synthetic/console/standard, which has no definition
  NoName,      \* the catalog is not in the snapshot
  Sources,     \* definitions directories: [catalogs, keys]
  Legacy,      \* registries of schema 1 and 2 that earlier tooling staged
  MaxVersion   \* bound on the version of a release

ASSUME DefinitionsAssumption ==
  /\ Synthetic \notin Ids /\ NoName \notin Names /\ MaxVersion \in Nat
  /\ \A d \in Sources : Partial(d.catalogs, Ids, Entry) /\ d.keys \subseteq Systems
  /\ \A r \in Legacy : IsRegistry(r)

Catalogs == Ids \cup {Synthetic}

(* An index: the names of the snapshot's catalogs and the definitions.     *)
NoIndex == [version |-> 0, names |-> [c \in Catalogs |-> NoName],
            defs |-> NoRegistry]

(* The publisher directory, with .definitions.json (defs) and              *)
(* .distribution-version (version; 0: no file).                            *)
NoDirectory == [step |-> "absent", names |-> NoIndex.names,
                defs |-> NoRegistry, version |-> 0]

VARIABLES
  site,      \* the index of the last release
  dir,       \* the publisher directory
  claims,    \* history: what was ever released about catalogs and systems,
             \* as long as no release was careless
  told,      \* history: the bindings that readers were ever granted
  careless   \* history: a release came from a directory cut short or used up

vars == <<site, dir, claims, told, careless>>

(* Whether a reader's configured ID and name are accepted (ReadCandidate). *)
Granted(i, c, n) ==
  /\ i.names[c] = n
  /\ i.defs # NoRegistry =>
       \/ c \in DOMAIN i.defs.catalogs /\ i.defs.catalogs[c].name = n
       \/ c = Synthetic

Bindings(i) == {b \in Catalogs \X Names : Granted(i, b[1], b[2])}

(* What definitions say that may not be taken back.                        *)
CatalogClaims(r) ==
  {<<id, r.catalogs[id].upstream, r.catalogs[id].name>> : id \in DOMAIN r.catalogs}
SystemClaims(r) ==
  {<<s, r.systems[s].makers>> : s \in DOMAIN r.systems}
MappingClaims(r) ==
  UNION {{<<s, p, r.systems[s].maps[p]>> : p \in DOMAIN r.systems[s].maps} :
           s \in DOMAIN r.systems}

NoClaims == [catalogs |-> {}, systems |-> {}, mappings |-> {}]
Claimed(r) ==
  [catalogs |-> claims.catalogs \cup CatalogClaims(r),
   systems |-> claims.systems \cup SystemClaims(r),
   mappings |-> claims.mappings \cup MappingClaims(r)]

Init ==
  /\ site = NoIndex /\ dir = NoDirectory
  /\ claims = NoClaims /\ told = {} /\ careless = FALSE

-----------------------------------------------------------------------------
(* RestorePublication.  RestoreLatest ends with a rename, and the two      *)
(* files follow; an error removes the directory.                           *)
Restore ==
  /\ dir.step = "absent" /\ site # NoIndex
  /\ site.defs # NoRegistry => Validate(site.defs)
  /\ dir' = [NoDirectory EXCEPT !.step = "renamed", !.names = site.names]
  /\ UNCHANGED <<site, claims, told, careless>>

SaveDefinitions ==
  /\ dir.step = "renamed"
  /\ dir' = [dir EXCEPT !.step = "defined", !.defs = site.defs]
  /\ UNCHANGED <<site, claims, told, careless>>

(* Mutant of SaveVersion: the version is not saved.                        *)
SaveVersionNever ==
  /\ dir.step = "defined"
  /\ dir' = [dir EXCEPT !.step = "ready"]
  /\ UNCHANGED <<site, claims, told, careless>>

SaveVersion ==
  /\ dir.step = "defined"
  /\ dir' = [dir EXCEPT !.step = "ready", !.version = site.version]
  /\ UNCHANGED <<site, claims, told, careless>>

SaveFails ==
  /\ dir.step \in {"renamed", "defined"}
  /\ dir' = NoDirectory
  /\ UNCHANGED <<site, claims, told, careless>>

(* The process dies, and the directory is kept.                            *)
Die ==
  /\ dir.step \in {"renamed", "defined"}
  /\ dir' = [dir EXCEPT !.step = "cut"]
  /\ UNCHANGED <<site, claims, told, careless>>

(* The first publication, when the site does not exist yet.                *)
Bootstrap ==
  /\ dir.step = "absent" /\ site = NoIndex
  /\ dir' = [dir EXCEPT !.step = "ready"]
  /\ UNCHANGED <<site, claims, told, careless>>

(* The machine of a job is thrown away, or an operator starts afresh.      *)
Discard ==
  /\ dir.step # "absent"
  /\ dir' = NoDirectory
  /\ UNCHANGED <<site, claims, told, careless>>

-----------------------------------------------------------------------------
Usable == {"ready", "cut", "used"}

PublishSynthetic(n) ==
  /\ dir.step \in Usable /\ dir.names[Synthetic] \in {NoName, n}
  /\ dir' = [dir EXCEPT !.names[Synthetic] = n]
  /\ UNCHANGED <<site, claims, told, careless>>

(* publisher --catalog: the catalog is defined, and the definitions agree  *)
(* with those of the directory and with the names of its snapshot.         *)
PublishSelected(d, c) ==
  /\ dir.step \in Usable
  /\ LoadableSource(d.catalogs, d.keys)
  /\ Compatible(Source(d.catalogs), dir.defs)
  /\ \A k \in DOMAIN d.catalogs : dir.names[k] \in {NoName, d.catalogs[k].name}
  /\ dir' = [dir EXCEPT !.names[c] = d.catalogs[c].name]
  /\ UNCHANGED <<site, claims, told, careless>>

(* Mutant of Bound: any defined catalog will do.                           *)
BoundById(r) ==
  \A c \in Catalogs \ {Synthetic} : dir.names[c] # NoName => c \in DOMAIN r.catalogs

(* Every catalog of the snapshot has a definition of the same name.        *)
Bound(r) ==
  \A c \in Catalogs \ {Synthetic} :
    dir.names[c] # NoName => /\ c \in DOMAIN r.catalogs
                             /\ r.catalogs[c].name = dir.names[c]

(* StageGit with its definitions, and the deployment; nothing of it goes   *)
(* back to the directory.                                                  *)
Release(r) ==
  /\ dir.step \in Usable /\ dir.version < MaxVersion
  /\ IF r = NoRegistry THEN dir.defs = NoRegistry
     ELSE Compatible(r, dir.defs) /\ Bound(r)
  /\ site' = [version |-> dir.version + 1, names |-> dir.names, defs |-> r]
  /\ dir' = [dir EXCEPT !.step = "used"]
  /\ careless' = (careless \/ dir.step # "ready")
  /\ claims' = IF careless' THEN NoClaims ELSE Claimed(r)
  /\ told' = told \cup Bindings(site')

ReleaseSource(d) ==
  LoadableSource(d.catalogs, d.keys) /\ Release(Source(d.catalogs))

Next ==
  \/ Restore \/ SaveDefinitions \/ SaveVersion \/ SaveFails \/ Die
  \/ Bootstrap \/ Discard
  \/ \E n \in Names : PublishSynthetic(n)
  \/ \E d \in Sources : \E c \in DOMAIN d.catalogs : PublishSelected(d, c)
  \/ \E d \in Sources : ReleaseSource(d)
  \/ \E r \in Legacy \cup {NoRegistry} : Release(r)

Spec == Init /\ [][Next]_vars

-----------------------------------------------------------------------------
(* Whatever was released can be read again: RefreshIndex and Load parse    *)
(* and validate it.                                                        *)
TypeOK ==
  /\ site.version \in 0 .. MaxVersion /\ site.names \in [Catalogs -> Names \cup {NoName}]
  /\ IsRegistry(site.defs)
  /\ site.defs # NoRegistry => Validate(site.defs)
  /\ dir.step \in Usable \cup {"absent", "renamed", "defined"}
  /\ dir.names \in [Catalogs -> Names \cup {NoName}]
  /\ IsRegistry(dir.defs) /\ dir.version \in 0 .. MaxVersion
  /\ told \subseteq Catalogs \X Names /\ careless \in BOOLEAN

(* A subscription never breaks: an ID and name that a release granted a    *)
(* reader are granted by all later releases, even by those staged from a   *)
(* directory whose restoration was cut short, or without restoring again,  *)
(* or with definitions where there were none.                              *)
BindingsKept == told \subseteq Bindings(site)

(* Without such carelessness nothing that was ever released about a        *)
(* catalog, a system or a provider is dropped or reassigned ("no silent    *)
(* removal or reassignment of established IDs"), however many releases and *)
(* restorations later, until schema 3 leaves the systems out for good.     *)
IdentitiesKept ==
  ~careless =>
    /\ claims.catalogs \subseteq CatalogClaims(site.defs)
    /\ \/ site.defs.schema = 3
       \/ /\ claims.systems \subseteq SystemClaims(site.defs)
          /\ claims.mappings \subseteq MappingClaims(site.defs)

(* A system of a provider never moves from one catalog to another, over    *)
(* the whole history of releases.                                          *)
UpstreamsOwned ==
  ~careless =>
    \A a, b \in claims.catalogs :
      a[1][1] = b[1][1] /\ a[2] = b[2] => a[1] = b[1]

(* Releases from restored directories have rising versions.                *)
VersionsForward ==
  [][site' # site /\ ~careless' => site'.version > site.version]_vars
=============================================================================
