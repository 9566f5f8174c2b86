CONSTANTS
    c1 = c1
    c2 = c2
    c3 = c3
    Clients <- MC_Clients
    QCap = 2
    MaxPub = 5

SPECIFICATION Spec
SYMMETRY MC_Symmetry

INVARIANT TypeOK
PROPERTY HubRefinesSpec

\* The model stops once MaxPub items are published and every stream is
\* closed; the code then waits for the next packet or client, which is not
\* a deadlock.
CHECK_DEADLOCK FALSE
