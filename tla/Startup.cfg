SPECIFICATION Spec
CONSTANTS
    MaxGen = 3
INVARIANTS
    HttpsAgree
    HttpsPairAlwaysLoads
    IndInv
