CONSTANTS
  Worlds <- MCWorlds
  IBaseName <- MCIBaseName
  Reserved <- MCReserved
  CodeOf <- MCCodeOf
  LastCall = 3
  KnownNotes = {"none", "entry", "exit", "callflow"}
SPECIFICATION Spec
INVARIANTS
    MethodsAreApart ReservedAreKnown NamesMeanWhatIsImported DefinitionsAreIncluded
CHECK_DEADLOCK FALSE
