CONSTANTS
  Platforms = {"linux", "macos", "windows"}
  Characters <- SomeCharacters
  Commands <- SomeCommands
  Places <- SomePlaces
  Selections <- SomeSelections
  Scripts <- SomeScripts
  Labels <- SomeLabels
  Operations <- SomeOperations
  Bodies <- SomeBodies
  Locations <- SomeLocations

SPECIFICATION TextSpec
INVARIANTS ProgramsGetTheirArguments ChoiceArrives PacketsArrive
