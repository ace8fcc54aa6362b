\* Three functions on two facets, one address for the diamond itself; two accounts, one batch.
SPECIFICATION Spec
CONSTANTS
    DiamondCutFn = cut
    TransferOwnershipFn = own
    SubmitBatchFn = batch
    AddAttesterFn = batch
    RemoveAttesterFn = batch
    cut = cut
    own = own
    batch = batch
    Attestation = Attestation
    Facets = {CutFacet, Attestation, This}
    This = This
    CutFacet = CutFacet
    Code <- MCCode
    Accounts = {a1, a2}
    Zero = Zero
    Roots = {r1}
    None = None
    MaxBatches = 1
INVARIANT TableIsPacked
PROPERTIES FollowsTable StuckForGood
CHECK_DEADLOCK FALSE
