\* Two commands at a time and four keys: a login, the way across with its two
\* tickets and its request; or two logins, a ticket of one and a request of the
\* other.
SPECIFICATION Spec
CONSTANTS
    demo = demo
    partner = partner
    alice = alice
    charlie = charlie
    fileserver = fileserver
    users = users
    admins = admins
    Realm = {demo, partner}
    User = {alice, charlie}
    Service = {fileserver}
    Group = {users, admins}
    Home = demo
    Registered <- DefaultPrincipals
    groupsOf <- Groups
    Exported <- InKeytab
    Login = fileserver
    Unnamed = unnamed
    Nobody = nobody
    Process = {p1, p2}
    MaxKeys = 4
SYMMETRY ProcessesAreAlike
INVARIANTS TicketsNameTheirClient RefusalsExplained TicketFound AccessIsMutual
PROPERTIES RefinesPromise
