\* Three rules, any order of equal priorities, every answer of the LLM.
SPECIFICATION Spec
CONSTANTS
  s1 = s1
  i1 = i1
  i2 = i2
  Sources = {s1}
  ProjectOf <- MCProjectOf
  Rules = {r1, r2, r3}
  Templates <- MCTemplates
  Items = {i1, i2}
  Batches <- MCBatches
  Answers <- MCAnswers
  HasLLM = TRUE
  Faults = {"load"}
  None = None
CONSTRAINT MCAsLoaded
SYMMETRY MCSymmetry
INVARIANTS TypeOK FiltersMean ClassificationMeans
