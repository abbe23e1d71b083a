CONSTANTS
    p1 = p1  p2 = p2  url = url
    large = large  small = small  cut = cut  damaged = damaged  junk = junk
    Path <- MCPath
    Elsewhere <- MCElsewhere
    Content <- MCContent
    Image <- MCImage
    Tables <- MCTables
    Trees <- MCTrees
    MinSize = 2
    MaxChanges = 1
SPECIFICATION Spec
INVARIANTS
    UntouchedJudgedRight
    
CHECK_DEADLOCK FALSE
