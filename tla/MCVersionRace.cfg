SPECIFICATION Spec
CONSTANTS
  Iterators = {i1}
  MaxFile = 4
  MaxVersions = 4
  MaxFailures = 2
INVARIANTS
  TypeOK
  RefsExact
  FilesKept
  CatalogExact
