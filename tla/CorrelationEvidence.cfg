CONSTANTS
  Findings <- FindingSet
  Types <- TypeSet
  Weights = {1, 2, 3, 4}
  TypeOf <- TypeMap
  Weight <- WeightMap
  Born <- BornMap
  Patterns <- PatternTable
  MaxCutoff = 2

SPECIFICATION Spec

INVARIANTS
  AlertsLinkAllDomains
