SPECIFICATION Spec
CONSTANTS
    A = A
    B = B
    F = F
    m = m
    g = g
    Am = Am
    Bm = Bm
    Ag = Ag
    Fm = Fm
    one = one
    link = link
    Null = Null
    Native = Native
    Absent = Absent
    Name <- MCNames
    Member = {m, g}
    Builtin = {g}
    Function <- Methods
    DeclaredIn <- MethodsDeclaredIn
    MethodName <- MethodsMethodName
    Datum = {one}
    Number = {one}
    Linked = {}
    LibraryClass = Absent
    MaxClasses = 3
    ErrorsReturn = TRUE
    Usage = {"rerun"}
INVARIANTS NameOnce NoOwnAncestor LookupsAgree
PROPERTY MembersKept
CHECK_DEADLOCK FALSE
