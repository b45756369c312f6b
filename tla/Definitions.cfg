SPECIFICATION Spec
CONSTANTS
  p1 = p1
  p2 = p2
  s1 = s1
  s2 = s2
  u1 = u1
  u2 = u2
  n1 = n1
  n2 = n2
  co1 = co1
  co2 = co2
  t1 = t1
  t2 = t2
  Providers = {p1, p2}
  Systems = {s1, s2}
  Upstreams = {u1, u2}
  Names = {n1, n2}
  Tokens = {t1, t2}
  Companies = {co1, co2}
  Regions = {t1}
  Languages = {t1}
  Synthetic = Synthetic
  NoName = NoName
  Sources <- SomeSources
  Legacy <- SomeLegacy
  MaxVersion = 3
SYMMETRY Symmetry
INVARIANTS TypeOK BindingsKept IdentitiesKept UpstreamsOwned
PROPERTY VersionsForward
