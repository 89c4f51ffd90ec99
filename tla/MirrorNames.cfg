\* Arguments of all forms, two mirrors at a time, three names in moonlink.
SPECIFICATION Spec
CONSTANTS
  Args <- SomeArgs
  Callers <- AllCallers
  Schemas <- SchemaNames
  CurrentSchema <- First
  NewNames <- ShortNames
  MaxLen = 4
  MaxTables = 2
  MaxKeys = 3
INVARIANTS LoopbackComesHome MirrorsKeepTheirNames
PROPERTIES DroppedIsForgotten
