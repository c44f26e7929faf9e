SPECIFICATION Spec
CONSTANTS
    A = A
    B = B
    F = F
    m = m
    g = g
    Am = Am
    Bm = Bm
    Ag = Ag
    Fm = Fm
    one = one
    link = link
    Null = Null
    Native = Native
    Absent = Absent
    Name <- MCNamesLibrary
    Member = {m}
    Builtin = {}
    Function <- Library
    DeclaredIn <- LibraryDeclaredIn
    MethodName <- LibraryMethodName
    Datum = {one, link}
    Number = {one}
    Linked = {link}
    LibraryClass = F
    MaxClasses = 2
    ErrorsReturn = FALSE
    Usage = {"host"}
INVARIANTS HomeIsHolder SuperGoesUp ParentOlder Defined
PROPERTY ConstantsKept
CHECK_DEADLOCK FALSE
