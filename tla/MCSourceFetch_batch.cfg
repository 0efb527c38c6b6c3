SPECIFICATION FairSpec
CONSTANTS
    l1 = l1
    l2 = l2
    w1 = w1
    a = a
    c = c
    n = n
    p = p
    z = z
    Ledgers = {l1, l2}
    Endpoints = {a, c, n, p, z}
    Witnesses = {w1}
    Homes <- MCHomes
    Branches <- MCBranches
    ClassCap <- MCClassCap
    MaxDials = 3
    Reserved = 1
    Now = 1
    Silent = Silent
    Broken = Broken
    MaxHints = 1
    HintMaxAge = 1
    MaxFailures = 3
INVARIANTS
    BudgetIsFair
    WhatIsKeptIsSupported
PROPERTIES
    EveryFetchEnds
