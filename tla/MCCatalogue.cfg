SPECIFICATION Spec

CONSTANTS
    tenantA = tenantA
    tenantB = tenantB
    alice = alice
    mallory = mallory
    Assets = {1, 2, 3}
    Tenants = {tenantA, tenantB}
    Metadata <- MCMetadata
    Absent = Absent
    Revokers = {v1}
    Listeners = {}
    FaultyListeners = {}
    MaxListeners = 0
    MaxWithdrawals = 1
    Contents = {1, 2, 9}
    Builders = {b1}
    Keyed = {alice}
    Actions <- MCActions
    Asked = {"infer"}
    MandateText <- MCMandateText
    NotSearching = NotSearching
    NoManifest = NoManifest
    MaxAdmitted = 3
    MaxTime = 1

INVARIANTS
    CatalogueTypeOK
    ManifestsLawful
    RootPinsContents

PROPERTIES
    SearchSound

CHECK_DEADLOCK FALSE
