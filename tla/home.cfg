CONSTANTS
    Refused = {"-x"}
    RunsCommands = {"proxycommand", "localcommand"}
    SSHOwn = {"config", "known_hosts"}
    Hypervisors = {"lima"}
    Alias <- MCAlias
    Tools = {"op", "git", "cloudflared", "lima", "authama"}
    Vaults = {"ops"}
    Items <- MCItems
    Locked = {"locked"}
    Ports = {22, 2222}
    Me = "me"
    Manifests <- MCManifests
    Starts <- MCStarts
    Serves <- MCServes
    Blocks <- MCBlocks
    Lines <- MCLines
    Strays <- MCStrays
    MaxEdits = 1
    TokenStarts <- MCTokenStarts
    NoTokens <- MCNoTokens
    NoManifest <- MCNoManifest
    Identifiers = {"acme", "globex"}
    Spaced <- MCSpaced
    Catalog <- MCCatalog
SPECIFICATION Spec
INVARIANTS SSHReadsTheManifest  FixesSettle ImportReadsWhatSSHReads TokensReachTheirTools
PROPERTY WhatIsNotOursStays
