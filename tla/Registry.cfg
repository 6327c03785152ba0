CONSTANTS
    c1 = c1
    c2 = c2
    boss = boss
    ann = ann
    bossMail = bossMail
    annMail = annMail
    Nobody = Nobody
    Conns = {c1, c2}
    Subs = {boss, ann}
    Emails = {bossMail, annMail}
    Logins <- Portal
    Admins = {bossMail}
    Names <- Spellings
    Typed = {"4nn", "Bob"}
    Norm <- Alike
    Decent = {"Ann", "4nn", "Bob"}
    Databases <- FromDisk
    HandleTries = 1
    PassTries = 1
    NameTries = 1
    SetTries = 1
    MaxPlayers = 3
    MaxReports = 1
SYMMETRY Symmetry
SPECIFICATION Spec
INVARIANTS UniqueHandles OpenReportsNameTheReported BannedStayOut
PROPERTY IdentityIsStable
