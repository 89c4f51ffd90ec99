\* The same arguments; URIs do not matter.
SPECIFICATION Spec
CONSTANTS
  Args <- SomeArgs
  Callers <- PlainCallers
  Schemas <- SchemaNames
  CurrentSchema <- First
  NewNames <- ShortNames
  MaxLen = 4
  MaxTables = 1
  MaxKeys = 1
PROPERTIES NamesFollowPostgres
