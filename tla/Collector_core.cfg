CONSTANTS
  n1 = n1
  n2 = n2
  n3 = n3
  a = a
  b = b
  inst1 = inst1
  inst2 = inst2
  c = c
  e = e
  p = p
  q = q
  None = None
  Nodes = {n1, n2, n3}
  Dodagids = {a, b}
  Instances = {inst1, inst2}
  Versions = {1, 2}
  Configs = {c, e}
  Prefixes = {p, q}
  Dios <- AllDios
  Daos <- LinkDaos
  Diss <- DodagDiss
  Datas <- AllDatas
  RootRanks = {0, 256}
  OnePreferredParent = TRUE
  AutoconfOnly = TRUE
  MaxPackets = 6
  MaxDodagPackets = 4
CHECK_DEADLOCK FALSE
SPECIFICATION MCSpec
INVARIANTS
  MembersAgree
  InstancesAgree
  DeltasExact
  AddressDerived
  LinksAgree
  PublishedAgrees
