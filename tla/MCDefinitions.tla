----------------------------- MODULE MCDefinitions -----------------------------
(* A small instance of Definitions for TLC.                                *)
EXTENDS Definitions, TLC

CONSTANTS p1, p2, s1, s2, u1, u2, n1, n2, co1, co2, t1, t2

Entries(id) ==
  [provider : {id[1]}, system : {id[2]}, upstream : Upstreams, name : Names,
   minimum : {1}]
(* Two catalogs of one provider, each of any system at the provider and    *)
(* with any name; one of them with its counterpart at another provider.    *)
Both(a, b) ==
  {f \in [{a, b} -> Entries(a) \cup Entries(b)] :
     \A id \in {a, b} : f[id] \in Entries(id)}
Drafts ==
  [{<<p1, s1>>} -> Entries(<<p1, s1>>)] \cup Both(<<p1, s1>>, <<p1, s2>>) \cup
  {f \in Both(<<p1, s1>>, <<p2, s1>>) :
     /\ f[<<p1, s1>>].upstream = f[<<p2, s1>>].upstream
     /\ f[<<p1, s1>>].name = f[<<p2, s1>>].name}
(* What LoadSource refuses: the catalog of another system under an ID, a   *)
(* limit of zero, a system that is not in the export.                      *)
Wrong == [{<<p1, s1>>} -> Entries(<<p1, s2>>)] \cup
         [{<<p1, s1>>} -> [provider : {p1}, system : {s1}, upstream : Upstreams,
                           name : Names, minimum : {0}]]
SomeSources ==
  [catalogs : Drafts \cup Wrong, keys : {Systems}] \cup
  [catalogs : [{<<p1, s2>>} -> Entries(<<p1, s2>>)], keys : {{s1}}]

OldCatalogs == [{<<p1, s1>>} -> Entries(<<p1, s1>>)]
(* Schema 1, with a system that names a company it has or has not.         *)
Old1 ==
  [schema : {1}, catalogs : OldCatalogs, companies : {co1 :> {t1}},
   systems : [{s1} -> [names : {{t1}}, makers : {{}, {co1}, {co2}}, maps : {Nothing}]],
   regions : {Nothing}, languages : {Nothing}]
(* Schema 2, with what a provider calls the system, and a second system    *)
(* whose names are its own or not.                                         *)
Sys(names, makers, maps) == [names |-> names, makers |-> makers, maps |-> maps]
Old2 ==
  [schema : {2}, catalogs : OldCatalogs,
   companies : {co1 :> {t1}, co1 :> {t1} @@ co2 :> {t1}, co1 :> {t1} @@ co2 :> {t2}},
   systems : {s1 :> Sys({t1}, {co1}, p1 :> u) : u \in Upstreams} \cup
             {s1 :> Sys({t1}, {co1}, p1 :> u) @@ s2 :> Sys({t}, {}, Nothing) :
                u \in Upstreams, t \in {t1, t2}},
   regions : {t1 :> {t1}}, languages : {t1 :> {t1}}]

SomeLegacy == Old1 \cup Old2

Symmetry == Permutations(Upstreams) \cup Permutations(Names)
=============================================================================
