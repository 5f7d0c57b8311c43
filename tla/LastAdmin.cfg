SPECIFICATION Spec
CHECK_DEADLOCK FALSE
CONSTANTS
    ann = ann
    bo = bo
    eve = eve
    o1 = o1
    o2 = o2
    n1 = n1
    n2 = n2
    p1 = p1
    p2 = p2
    p3 = p3
    Undefined = Undefined
    NoRow = NoRow
    Users = {ann, bo, eve}
    Organizations = {o1, o2}
    Names = {n1, n2}
    Clients = {p1, p2, p3}
    UserOf <- WhoseAre
    SuperUsers = {}
    StudyPermissions <- BoStudies
    InitialOrganizations <- OneOrganization
    InitialMembers <- StartMembers
    MayCall <- TheyLeave
    MayGive <- NoRoles
    MayPermit <- Permits
    MaxCalls <- HowOften
    MaxMembers = 4
    InitialListings <- Nothing
    InitialDocuments <- Nothing
    InitialCategories <- Nothing
    MaxItems = 2
    MayLabel <- SomeLabels
INVARIANT OrganizationKeepsAdmin
