CONSTANTS
    t = t
    u = u
    i = i
    Names <- MCNames
    Columns <- MCColumns
    None = None
    MaxDDL = 4
SPECIFICATION CatalogSpec
SYMMETRY MCSymmetry
INVARIANT

    DropsExisting
