SPECIFICATION ConfigSpec
CONSTANTS
    MaxSettings = 3
INVARIANT PlaceholdersRefused
