SPECIFICATION Spec
CONSTANTS
    claude = claude
    codex = codex
    home = home
    lib = lib
    old = old
    new = new
    other = other
    None = None
    Session = {s1, s2}
    Agent = {claude, codex}
    Cwd = {home, lib}
    File = {old, new, other}
    Candidates <- MCCandidates
    AgentOf <- MCAgentOf
    ToolSwitch = TRUE
SYMMETRY Mirror
INVARIANTS
    ClaimIsExclusive
