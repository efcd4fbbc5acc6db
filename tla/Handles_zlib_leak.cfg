\* Assignment to zlib handles.
SPECIFICATION Spec
CONSTANTS
    Slots = {s1, s2}
    Engines = {e1, e2}
    NoObject = NoObject
    Null = Null
    Assigned <- ZlibClasses
INVARIANT NothingLeaks
