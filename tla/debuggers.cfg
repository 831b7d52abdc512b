\* Two traces, two simulations, a Call Explorer, a table and the toolbar, one reload.
CONSTANTS
    t1 = t1
    t2 = t2
    s1 = s1
    s2 = s2
    e1 = e1
    b1 = b1
    None = None
    Toolbar = Toolbar
    Traces <- TwoTraces
    Sims <- TwoSims
    Views <- TwoViews
    Explorers <- OneExplorer
    Tables <- OneTable
    MaxStates = 1
    MaxShows = 2
    MaxLoads = 1
SPECIFICATION DebuggersSpec
SYMMETRY Symmetry
INVARIANTS
    WatchersFollow
    
    ListFitsProject
