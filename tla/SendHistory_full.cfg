SPECIFICATION SafeSpec
CONSTANTS
    MaxEntries = 2
    MaxAdds = 3
    MaxPresses = 3
PROPERTY AddedIsKept
