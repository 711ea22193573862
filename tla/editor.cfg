SPECIFICATION EditorSpec
CONSTANTS
    web = web  db = db  plain = plain  coarse = coarse
    na = na  nb = nb   host1 = host1
    job = job  home = home  flat = flat  team = team
    None = None
    Profile = {job, home}
    Alias = {web, db}
    Name = {na, nb}
    Category = {flat, team}
    Rule = {plain, coarse}
    Derived <- RulesFor
    FirstCategory = flat
    Manifests0 <- Starts
    Server = {host1}
    ServerOf <- OneServer
    Loose = {idfile}
    Adoptable = {idfile}
    Key = {k1, k2, k3, k4}
    MaxOps = 3
    MaxTroubles = 1
INVARIANTS FilesFollowTheManifest
PROPERTIES OthersKeepTheirs 
CHECK_DEADLOCK FALSE
