CONSTANTS
    hero = hero
    icons = icons
    t1 = t1
    t2 = t2
    v1 = v1
    v2 = v2
    c1 = c1
    c2 = c2
    None = None
    Callers = {c1, c2}
    Assets = {hero, icons}
    Targets = {t1, t2}
    Contents = {v1, v2}
    Pins = {v1}
    MaxPulls = 3
    MaxFaults = 1
SPECIFICATION Spec
CHECK_DEADLOCK FALSE
INVARIANTS
    LockedFileExists
