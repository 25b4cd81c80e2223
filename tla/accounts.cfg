SPECIFICATION FairSpec
CONSTANTS
    s1 = s1
    s2 = s2
    n1 = n1
    n2 = n2
    e1 = e1
    e2 = e2
    e3 = e3
    w1 = w1
    Servers <- TwoServers
    Ids = {1, 2}
    Names <- TwoNames
    Emails <- ThreeEmails
    Passwords <- OnePassword
INVARIANTS
    TypeOK
    UniqueUsers
    AckedAccount
    
PROPERTIES
    
    ImplementsRegistry
    
