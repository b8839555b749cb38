CONSTANTS
    a = a  b = b  v1 = v1  v2 = v2  list = list  obj1 = obj1  obj2 = obj2  class = class
    None = None
    TypeError = TypeError
    Empty = Empty
    Fields = {"page", "tag", "ref"}
    Unhashable = {list}
    TypeHash <- MCTypeHash
    StrOf <- MCStrOf
    HashOf <- MCHashOf
    Width = 6
    Precision = 1
    SampleSize = 2
    NumHashes = 4
    NumBands = 2
    BaseHash <- MCBaseHash
    SortKey = "page"
    ReferenceKey = "ref"
    Inputs <- MCInputs
SPECIFICATION Spec
CHECK_DEADLOCK FALSE
INVARIANTS TypeOK DuplicatesExact CollisionsExact SampleTellsTheTruth NeverUndercounts EstimateIgnoresOrder DiffIsAnUpdatePlan OrphansIgnoreOrder SortKeepsTies NearGroupsAreComponents
