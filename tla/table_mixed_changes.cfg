SPECIFICATION Spec
CONSTANTS
  a = a b = b c = c t = t u = u v = v s0 = s0 s1 = s1
  Nil = Nil
  Mixed = Mixed
  MaxDev = 3
  Name = {a, b}
  Topic = {t, u, v}
  State = {s0, s1}
  Template = s0
  Types = {0, 1}
  Abbrev <- OneAbbrev
  SqlErrors = FALSE
  Env <- NotSettled
SYMMETRY TopicSymmetry
INVARIANT SyncedRow
