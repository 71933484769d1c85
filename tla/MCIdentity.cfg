\* One person and one placeholder, two requests, two keys, three events.
CONSTANTS
    p1 = p1
    g1 = g1
    e1 = e1
    k1 = k1
    k2 = k2
    r1 = r1
    r2 = r2
    Person <- MCPerson
    Guest <- MCGuest
    Email <- MCEmail
    Key <- MCKey
    Request <- MCRequest
    LegacyRelation = {"admin"}
    MaxEvents = 3
SPECIFICATION Spec
 
 
PROPERTY PublishedKeyIsKnown
PROPERTY PassedWithTokensRole
CHECK_DEADLOCK FALSE
