\* A promotion, a hash split and a second promotion of the same routingHash, with one put, and a transaction or a read.
SPECIFICATION FairSpec
CONSTANTS
  root = root  rr = rr  c0 = c0  c1 = c1  h1 = h1  h2 = h2
  promo = promo  split = split  promo2 = promo2  t1 = t1
  Key <- Keys
  HashOf <- TheHash
  Hash = {h1, h2}
  Part = {root, rr, c0, c1}
  Root = root
  Slice <- TheSlice
  Plan = {promo, split, promo2}
  NoPlan = NoPlan
  KindOf <- TheKind
  SourceOf <- TheSource
  TargetsOf <- TheTargets
  Tx = {t1}
  NoTx = NoTx
  TxKeys <- TheTxKeys
  ReadKeys = {1}
  PageSizes = {1}
  MaxClock = 1
CONSTRAINT OneActor
INVARIANTS EveryKeyHasOneOwner CommitNeverWedges RevisionsContinue ReadThroughIsCurrent
PROPERTIES ImplementsTable EveryRepartitionFinishes
\* Everything is moved.
CHECK_DEADLOCK FALSE
