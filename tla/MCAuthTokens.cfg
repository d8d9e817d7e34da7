SPECIFICATION AuthSpec
CONSTANTS
    MaxAccount = 2
    MaxSerial = 5
    alice = alice
    r1 = r1
    r2 = r2
    Name = {alice}
    Request = {r1, r2}
SYMMETRY RequestSymmetry
INVARIANTS
    AuthTypeOK
    OneHeirPerTicket
    SecondFactorBehindEveryPair
PROPERTY ImplementsTicketLife
CHECK_DEADLOCK FALSE
