SPECIFICATION Spec
CONSTANTS
    MaxGen = 3
INVARIANTS
    CertificatesReady
