\* Two users, two updates or creations at once, one web client.
CONSTANTS
    None = None
    User = {u1, u2}
    Request = {p1, p2}
    Client = {c1}
    Number = {"n1", "n2"}
    Email = {"a"}
    Name = {"b"}
    External = {"x1"}
    Password = {"old"}
    Roles = {{"super_admin"}, {"customer"}}
    Tables <- Start
    Admin <- First
    Registrations <- New
    Changes <- Edits
    MaxRequests = 2
SYMMETRY Symmetry
SPECIFICATION Spec
INVARIANTS
    AsAsked
    AppInformed
    LogoutLasts
PROPERTIES
    NumberKept
    BotByPolicy
