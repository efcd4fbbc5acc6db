\* Handles and objects of every class; assignment to all but the zlib handles.
SPECIFICATION Spec
CONSTANTS
    Slots = {s1, s2, s3}
    Engines = {e1, e2, e3}
    NoObject = NoObject
    Null = Null
    Assigned <- Freeing
INVARIANTS TypeOK SoleOwner NothingLeaks
PROPERTIES ImplementsOwnership
