CONSTANTS
    sup1 = sup1  sup2 = sup2  pkg1 = pkg1  pkg2 = pkg2
    rel1 = rel1  rel2 = rel2  other1 = other1
    Supervisor = {sup1, sup2}
    Package = {pkg1, pkg2}
    Digest = {rel1, rel2, other1}
    Service = {1}
    Manifest <- MCManifest
    Found <- MCFound
    None = None
    MaxActivePackages = 2
    MaxActiveServices = 2
    MaxBearers = 1
    MaxRevision = 4
SYMMETRY MCSymmetry
SPECIFICATION Spec
INVARIANTS FileSound RevisionDetectsStaleness BearersCurrent
PROPERTIES ActsAsRegister
