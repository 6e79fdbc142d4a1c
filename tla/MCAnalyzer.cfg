SPECIFICATION Spec
CONSTANTS
  Items <- MCItems
  Nodes <- MCNodes
  TypeExprs <- MCTypeExprs
  Exprs <- MCExprs
  QualTypes <- MCQualTypes
  MaxDecls = 4
  MaxAgenda = 40
INVARIANTS
  ContextKept
  OwnerPending
  CallsResolved
  FieldsApart
PROPERTIES
  InstancesOnce
