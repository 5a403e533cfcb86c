SPECIFICATION Spec
CONSTANTS
  a = a b = b c = c t = t u = u v = v s0 = s0 s1 = s1
  Nil = Nil
  Mixed = Mixed
  MaxDev = 2
  Name = {a, b}
  Topic = {t, u}
  State = {s0}
  Template = s0
  Types = {0}
  Abbrev <- OneAbbrev
  SqlErrors = TRUE
  Env <- NoDisciplines
SYMMETRY TopicSymmetry
INVARIANTS TypeOK CountMatches StageLegal FreeSlotPristine NoOrphanSubscription
