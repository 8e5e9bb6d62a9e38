\* Two fallbacks drawing the same eight-character code.
CONSTANTS
    Codes6 = {a1}
    Codes8 = {b1}
    Urls = {u1, u2}
    NoUrl = NoUrl
    NoCode = NoCode
    MaxPosts = 3
SPECIFICATION Spec
INVARIANT IssuedCodesResolve
